# A verification of ip2geo in TLA+

This directory models and verifies ip2geo: a Go library that answers IP
geolocation lookups from a compact file (`.geoc`), with builders that make such
a file from MaxMind and CSV sources. TLC checks the models on small instances;
TLAPS proves the main results for every value of the constants.

Paths below are relative to the repository.

## Running it

    tlc -config MCMerger.cfg MCMerger        # any MC*.cfg with its module
    tlapm BuilderProofs.tla                  # any *Proofs.tla

| run | module and configuration | result |
|---|---|---|
| `merger4` | `MCMerger`, `MCMerger.cfg` | holds |
| `merger6` | `MCMerger6`, `MCMerger6.cfg` | holds |
| `search4` | `MCSearch4`, `MCSearch4.cfg` | holds |
| `search6` | `MCSearch6`, `MCSearch6.cfg` | holds |
| `ranges` | `MCRanges`, `MCRanges.cfg` | holds |
| `strings` | `MCStringTable`, `MCStringTable.cfg` | holds |
| `csv` | `MCCsvSource`, `MCCsvSource.cfg` | holds |
| `csv_malformed` | `MCCsvSource`, `MCCsvMalformed.cfg` | violated: see *Findings* |
| `sources` | `MCSources`, `MCSources.cfg` | holds |
| `open` | `MCOpenInput`, `MCOpenInput.cfg` | holds |
| `lifecycle` | `MCReaderLifecycle`, `MCReaderLifecycle.cfg` | holds |
| `replace` | `MCAtomicReplace`, `MCAtomicReplace.cfg` | holds |

## The system

| component | source | state it keeps | operations |
|---|---|---|---|
| range merger | `internal/build/merge.go` | boundaries, open run, collected ranges | `add`, `step`, `ranges`, `finish` |
| builder | `internal/build/{build,record,strings,xrec}.go` | record, string and extension tables | `New`, `Record`, `AddPrefix`, `AddRange`, `Finish` |
| encoder | `internal/build/encode.go` | none (a pass over the builder's tables) | `encode`, `append*` |
| file replacement | `internal/build/write.go` | the file system | `WriteFileAtomic` |
| MMDB source | `mmdb/` | record ids by data offset, two decoders' buffers | `Open`, `Build` |
| CSV source | `csvdb/` | last addresses per family, record ids by text | `Open`, `Build` |
| GEO2 reader | `geo2.go`, `internal/format` | none (validates a buffer) | `parseGEO2`, `reader` |
| GEO1 reader | `geo1.go` | none (converts a buffer) | `openGEO1` |
| lookup | `reader.go` | sections and indexes, read-only | `buildIndex*`, `search4`, `search6`, `decode` |
| ranges | `ranges.go` | none | `LookupRange`, `Ranges` |
| Reader lifecycle | `open.go`, `details.go`, `mmap_*.go` | mappings, Readers, cleanups | `Open`, `OpenBytes`, `WithLanguage`, `Close` |
| languages, details | `details.go` | the view's language | `LookupDetails`, `ASN`, `localize` |
| command line, scripts, benchmark | `cmd/`, `scripts/`, `bench/` | files, releases | |

A source feeds networks and records to the builder; the builder merges the
networks and interns the records; the encoder lays both out as sections, with
index tables the reader can use without parsing. The bytes go to a Reader in
the same process (`mmdb.Open`, `csvdb.Open`) or replace a file
(`mmdb.Build`, `csvdb.Build`), which other processes map. A Reader is immutable,
so lookups need no locks; what is shared and mutable is the mapping under it,
which the garbage collector releases, and the path it was opened at, which
builds replace.

What is hard to get right, and hard to test:

- *Order.* Networks may come in any order. The merger changes its algorithm in
  the middle of the input and has to recover its own past from its output.
- *Edges of the address space.* One past the last address; IPv6 addresses that
  wrap; empty buckets and windows; the key below the first boundary.
- *Partial keys.* The searches compare 16 of 32 bits, or 64 of 128, and rely on
  the tables for the rest.
- *Lifetimes.* The mapping is not Go memory, its Reader is; views share the one
  without being the other; a method may be the last to refer to its receiver.
- *Concurrent builds and power loss* while files are replaced and mapped.
- *Untrusted files.* Every offset and count of a file is checked once, and then
  used without checks.
- *Reused state.* A decoder's buffers serve every record in turn, and a record
  decoded once serves every network that shares it; what one record leaves
  must not show in the next.
- *Alias prefixes.* IPv6 blocks that mean IPv4 addresses are cut out of rows,
  ranges and lookups in three different places.

`PROJECT.json` lists the hazards line by line.

## The models

### `Boundaries`, `Coverage`, `Merger`, `Merger6`: merging networks

`Boundaries` holds the data of one address family: networks (`range4`,
`range6`), boundaries (`boundary4`, `boundary6`), and what a set of networks and
a list of boundaries answer for an address. `Coverage` is the abstract builder:
disjoint networks are added in any order, then a total map from addresses to
records is published, once.

`Merger` is `merger4`. Its variables are the struct's fields; `collecting` is
`unsorted != nil`, and `added` is a history of what the caller added. `add` is
three actions, one per case of its switch. `finish` is `Reset` (`*m =
merger4{}`), one `Replay` per pass of its loop, and `Close` (the last boundary);
the caller sees only the end, but the loop gets an invariant this way. The
block list is a sequence. The unsorted slice is a set, since starts of disjoint
networks differ and `finish` sorts by start.

`Merger6` is `merger6`, where one past the top wraps to `::` and `haveExpected`
tells. It implements `Merger` under the mapping of `expected` to the number that
has not wrapped, so `merger4`'s results hold for it.

Checked in `merger4`: `NothingLost` (at every step the boundaries, the open run
and the collected ranges hold exactly the networks added), `BoundariesAscend`,
`SameEitherWay` (boundaries start exactly where the record changes, so they do
not depend on the order of the input: `merge.go:67`), `ImplementsCoverage`.
Checked in `merger6`: `ImplementsMerger4`.

Bounds: six (five for IPv6) addresses and two records. Every set of disjoint
networks over them is added in every order; gaps, merges across a record, a run
at the top of the space, and recovery from each state of the single pass happen.
`CHECK_DEADLOCK FALSE`: a merger is done after `finish`.

### `Search4`: the IPv4 index and lookup

The chain from the boundaries to an answer, in one module because each part
relies on the one before: `appendV4Idx` (`AppendEntry`, `NextBoundary`) derives
V4IDX; `buildIndex4` (`SkipBoundary`, `FillEntry`, `EndBuild`) derives `lo4` from
V4IDX and the low bits; `search4` (`Lookup`, `HalveDown`, `HalveUp`, `Answer`)
halves the key's window. One action is one pass of a loop. The sizes (2^16
buckets of 16 windows of 4096 addresses in the code) are constants.

Checked: `TablesSplit` (each table entry splits the boundaries at its bucket or
window: `reader.go:57`), `BoundsEnclose` (the loop invariant of the search),
`LastAtOrBelow` (the answer), `SearchEnds` (every lookup is answered, with weak
fairness of the loop: one goroutine runs it). TLC stops on an index outside its
table.

Bounds: two buckets of two windows of three addresses and every list of at most
three starts, so that empty windows, empty buckets, full windows and keys
answered from an earlier window or bucket happen. Indexes are mathematical
integers: there are fewer than 2^31 boundaries in a file of at most 2 GiB.

### `Search6`: the IPv6 index and lookup

The same chain for IPv6, where a boundary is kept as its top half `hi`, and the
few whose low half `lo` is not zero as exceptions. `buildIndex6`'s first pass
sizes each bucket's slots from the boundaries in it (`CountStart`, `SizeBucket`),
its second fills them (`SkipStart`, `FillSlot`, `NextBucket`, `EndFill`);
`buildIndex` flags the slots that hold an exception (`FlagException`, `EndFlag`).
`search6` takes the window of the key's slot (`Lookup`), halves it by `hi` alone
(`HalveDown`, `HalveUp`, `EndHalving`) and, in a flagged slot, steps back over the
exceptions that have the key's `hi` and a greater `lo` (`StepBack`, `EndStepBack`).
`Tables` has what this module and `Ranges` share: the list of exceptions
(`ExceptionsOf`) and the halving of `v6ExcLo` and `start4` (`FirstTrue`).

Checked: `IndexRight` (each slot's entry splits the boundaries at its first `hi`, and
exactly the slots with an exception are flagged: `reader.go:65`), `FewSlots`
(`reader.go:342`), `LastAtOrBelow` and `SearchEnds`. Fairness is that of `Search4`.

Bounds: two buckets of four values of `hi`, three of `lo`, up to two slot bits,
every list of up to three starts (of three, two in the first bucket) and every
set of starts of two values of `hi`: slots
of one, two and four values, empty slots and buckets, steps back over one and
two exceptions, and more boundaries than the slots are for.

### `Ranges`: listing ranges and looking one up

`Ranges` walks the boundaries with the tables in step: `ranges4` is `SkipGap4` and
`Yield4`; `ranges6` is `SkipGap6` and `StartParts`, which hands a range to
`yieldUnaliased` (`PassAlias`, `CutAlias`, `YieldRest`). Each yield is the
caller's function, which may ask to stop. `LookupRange` is one action: it finds the
neighbouring starts by search (`Start4`, `Start6`) and cuts the range short at
the aliases in another way (`CutShort`). The search for the boundary itself is
that of `Search4` and `Search6` and is stated here by what they were shown to do.

Checked: `RangesAscend` (what is yielded ascends and has the answer of each of its
addresses, whether or not the caller asks for all), `RangesComplete` (every covered address in exactly one
range, with its answer; no alias), `OneAnswer` and `SameRange` (`LookupRange`
answers for all of its range, which is one of `Ranges`' own), `StopsAtOnce`
(an iterator that goes on after a `false` panics).

Bounds: three buckets of two IPv4 addresses; twenty IPv6 addresses with four
aliases placed as real ones (two inside one top half, two of a whole one, gaps
between and above them); up to three boundaries of a family, with gaps. One
`LookupRange` follows `Ranges`, both being read-only. `CHECK_DEADLOCK FALSE`: the
calls return.

### `StringTable`: records and their strings

`New`, `Record` (with `Record.key` and `xTable.add`) and `Finish` of the builder.
Ids of strings are provisional until `Finish` puts the strings of 16-bit fields
first, and by then they are in the records, the extension entries, META and LANGS;
three of these are renumbered in `Finish` and the entries while they are
encoded. Fields alike are one field of the model: `country` and `tz` for the
16-bit ones, before and after the 24-bit `city` in interning order, `alt` for
those of an extension entry. Packing keeps the low bits, as the code does.

Checked: `RecordsKept` (equal records share an id, different ones do not, and the
file decodes to what was kept of each: `build.go:275`), `RefusesOnlyTooMany` (a
build fails exactly when its strings do not fit: `strings.go:8`).

Bounds: four strings, two records, limits of three 16-bit ids, four 24-bit ids and
four bytes, so that each limit is met and passed alone; strings first met in a
24-bit field and used in a 16-bit one later. `CHECK_DEADLOCK FALSE`: a builder is
done after `Finish`.

### `CsvSource`: rows to ranges

`readSource` and the reader of `csvdb`. The first row tells the family of a decimal
file (`Open`, `RefuseFirstRow`, `Panic`). `row` checks a row's bounds and its order
against the last row of its family and finds the id of its record (`SkipRow`,
`StartAdd`; `RefuseBounds`, `RefuseOrder`, `RefuseFill`). `add`'s loop cuts it at the
alias blocks (`AddV4`, `PassBlock`, `AddBeforeBlock`, `LeaveOut`, `AddRest`), its part
in the IPv4-mapped block becoming an IPv4 range (`AddMapped`), each checked against
the end of its table (`RefuseRange`). A row's text is a key; decoding it is
the business of `CsvRecords`. `added` is what the build receives.

Checked: `RowsAnswered` (each address gets the key of the row that holds it),
`RefusesOnlyDisorder` (a build fails for order only when an earlier row does not end
below, though two kinds of rows meet in the IPv4 table), `AddedAbove`
(each range lies above what its table has: the merger's fast path, and the
precondition of `Coverage`). Rows without data are compared with rows of their
own written family only, as in the code, since they add nothing.

Bounds: two IPv4 addresses, six IPv6 ones with three blocks (one mapped), three
rows (two for `csv_malformed`), two keys with data and one that cannot be
decoded. `CHECK_DEADLOCK FALSE`: a build ends.

### `Sources`: from a source record to a lookup's answer

`Build` is the core both sources feed: the options it accepts and leaves
(`Normalize`), `New`, `Record`, and what the caller does with the finished build:
`OpenBuilt`, and then a change of the view's language, again and again
(`WithLanguage`).

`MmdbSource` is `Build` and `Open` of `mmdb`: `CoreOptions`, `CheckSource`, and one
step of `readSource` per network: one whose data was met before (`ReadKnown`), one
that is decoded (`ReadNew`) or cannot be (`ReadFails`). Decoding keeps what the
profile, the field sets and the languages ask for: `srcDecoder` reads the base record,
`extDecoder` the rest, into one buffer of names that is never allocated again and
so part of the state (`names`).

`CsvRecords` is the same of `csvdb`. The options are checked against the format
(`CsvOptions`), and for IP2Location again once the first row tells which of its layouts
the file has (`CsvOpen`). A row is one whose text was met before (`RowKnown`), a new one
(`RowNew`), one without data (`PassRow`) or one that is refused (`RefuseRow`). Its
addresses are `CsvSource`'s.

`Details` is what the packing and `details.go` share: the values of a profile, the
offsets a view reads names at (`setLanguage`: an absent name has offset -1, an
ASN file none at all), `decode`, `decodeAlt`, `localize` and `details`.
`Sources` composes the four, and states what is promised of either source in the
terms of the documentation: what each field set holds, and the columns of each CSV
format.

Checked: `DetailsRight` (`LookupDetails` gives each network or row its own record's
values, and its names in the view's language or else the primary one),
`LookupAgrees` (`Lookup` and `LookupDetails` agree in every view: `details.go:65`),
`SharesRecords` (networks share a record exactly when they agree in all that is
kept), `FailsOnKept` (a malformed value fails the build exactly when it is kept) and
`OptionsHonoured` (a CSV build keeps exactly the field sets that were asked for and that the
profile and the file allow, or is refused with an error its options deserve).

Bounds: for MMDB every profile, eight choices of field sets, up to three languages,
and up to three networks over five records: a full one, one that differs from it only
in its extension entry, one with gaps (a latitude without a longitude, an absent
primary name), an empty one and a broken one, in orders that leave each in the
buffers before another. For CSV every format and profile with six choices of field
sets, on files of up to three rows of each layout's width and others, whose rows differ
from the first in one column or are one of the special ones. A value is a number that says
whose it is, 0 the empty one; byte *k* of a value *v* is `<<v, k>>`, so that a value
read at another's offset is none. What the MMDB library decodes is external. A value
of a wrong type is one at a leaf. Coordinates are not rounded.

### `OpenInput`: opening an arbitrary file

`OpenInput` composes `Open` and `OpenBytes` with the two formats' checks and the
encoder. `Format` has the numbers of the format (`internal/format`), `Input` the
state the steps of opening share and what a Reader's tables owe its searches.

- `Geo2Validate` is `parseGEO2`, one action per check, in order: `ParseHeader`,
  `CheckDirectory`, `CheckLengths`, `CheckCRC`, `ParseMeta`, `CheckStrings`,
  `CheckRecords`, `CheckIPv4`, `CheckIPv6`, `CheckExtensions`, `CheckLangs`,
  `CheckXRecords`; `Bind` is `reader`.
- `Geo1Transcode` is `parseGEO1` (`CheckHeader1`, `ParseStrings1`, `ParseRecords1`,
  `ParseIPv4`, `ParseIPv6`, `CheckTrailing`), with its cursor `off`, and
  `Transcode`, which renumbers the strings and lays out a Reader's tables.
- `Geo2Encode` is `encode`: which sections a build's file has, where and how long.

Checked: `ReadsInBounds` (no check reads outside the file or the section it checks,
though offsets and lengths wrap when added: `geo2.go:63`), `OpenedIsSafe` (what opens
has the tables `Search4`, `Search6`, `Ranges` and `decode` assume), `WrittenOpens`
(what `encode` writes opens, and holds the build's strings, the start and record of
each boundary, each record, its extension entry and the languages) and `GEO1Kept` (a
GEO1 file keeps each record's strings and each boundary's start and record id, and is refused as too large only for strings that do not fit).

`Reads` lists what each check reads, and is evaluated while that check is next:
a read is in it as soon as the checks before it have passed, so a check dropped or
moved behind a read it protects shows.

Bounds: a file is modelled by the values its bytes hold where the code reads them,
beside its size, which may contradict them; past the listed values it holds 0. The
files are those `encode` writes of nine builds (every profile, with and without
field sets, languages and exceptions; 256 and 257 records; more strings than
16-bit ids) and of every pair of starts, and several of them with any one value of
the header, the directory or a section changed, or any small content of an index
section; and GEO1 files likewise. 64-bit arithmetic is modulo 2^24 with files below it, so that sums
and products wrap as they do in the code; 16-bit ids end at 3, 24-bit ones at 4;
IPv4 has two buckets of four addresses. GEO1 counts are small, for their
products cannot wrap in the code. A CRC is right or wrong. `CHECK_DEADLOCK FALSE`:
an opening ends. That a file stays the same between `checkAnyHeader` and the rest is
part of `Open`'s contract.

### `ReaderLifecycle`: who may read a mapping, and until when

Goroutines open files, make views, look up, share a Reader through an atomic
pointer and swap it, close and drop Readers, all interleaved with a garbage
collector and the cleanups it queues. `Open` is split at each point where it may
fail (`MapFile`; `ParseFails`, `ParseGEO2`, `ParseGEO1`; `LanguageFails`,
`AddCleanup`, `UnmapGEO1`). A reading method is `Lookup` until its `KeepAlive`.
Which file a place in memory holds is part of the state, and places and Readers
are reused, so that reading another file's bytes is as wrong as reading none.
`munmap` may fail, which the code ignores in a cleanup.

`Close` is a step that changes nothing (`reader.go:120`), a closed Reader being as
good as an open one; the comment at `cmd/ip2geo/main.go:263`, that `db.Close` releases
the memory, is out of date, and harmless in a command that exits.

Checked: `ReadsAreSafe` (`reader.go:117`), `ReleasedOnce` (each mapping has
exactly one party that will release it), and under fairness
`GarbageIsUnmapped`.

Bounds: two goroutines, three Readers, one place, two files: views of
views, reloads under a lookup, a place mapped again. These are pools, not
lifetimes: behaviours are unbounded. No symmetry is used, which a liveness
property would not allow. The safety properties are proved for any pools.

Fairness: the collector eventually collects what stays unreachable
(`WF(Collect)`) and runs queued cleanups (`WF(Release)`), as the Go runtime does
in a program that goes on allocating; the property says nothing about one that
stops allocating. Nothing is assumed of goroutines: a lookup may never return,
and `GarbageIsUnmapped` holds for every other Reader.

### `AtomicReplace`: replacing a database file

`WriteFileAtomic`, one action per system call: `Stat`, `CreateTemp`, `Write`,
`Chmod`, `Sync`, `Close`, `Rename`. `StatFails` is an error of `os.Stat` on a file that
is there, which the code takes for no file; `CreateTempFails` is one of
`os.CreateTemp`, `Fails` one of any later call, and `Remove` the deferred function. Several builds replace one path, processes map it, and
power may fail at any time. The file system is external: rename is atomic; data
and modes survive if synced; the directory is never synced, so that after a crash
the path may be any entry it was since the last one.

Checked: `PathComplete`, `ErrorLeavesPath`, `NoTempLeft` (promises of the comment at
`write.go:9`, crashes and other builds included), `KeepsModeIfRead` and
`MappedUnchanged` (`README.md:246`). The fourth promise of that comment, "a replaced file keeps its
permission bits", does not hold as it stands: see *Findings*. `KeepsModeIfRead` says
what does: a file at the path has the mode to keep, or 0644 once an `os.Stat` has failed
on a file there, which the history variable `statFailed` records; it never has the
0600 of a temporary file.

Bounds: two builds, one user, one crash; the path is at first absent, a file, a
symbolic link or a directory. `CHECK_DEADLOCK FALSE`: builds return.
What a crash leaves of temporary files is not tracked, and `os.Remove` is taken
to succeed.

## What is proved

All proofs are checked by TLAPS, for every value of the constants that satisfies
the assumptions of the modules: `Top` a natural number, `Records` positive; sizes
positive; the start lists of an index and the boundaries of a file strictly
ascending, as the validation accepts them; `CsvSource`'s alias blocks ascending and
below the top, at most one of them mapped; `Ranges`' alias prefixes ascending and
each address in one meaning an IPv4 address; no writer called as the other files
are; distinguished values distinct; sizes of strings natural
numbers, and no fewer 24-bit ids than 16-bit ones. Of an input to open nothing is assumed but what bytes can
hold (`IsInput`: offsets and lengths are words, ids and counts natural numbers), that
a header is smaller than the largest file and that smaller than a word, and that the largest
product of `checkExtensions` does not wrap (`InputAssumption`, with the numbers of the comment at
`geo2.go:378`, computed from the size of a file).

Almost none of the properties is inductive. Each module has an invariant `IInv`
that implies them, and whose parts are named for what they say:

- `BuilderProofs`, the ranges: `TypeOK`, `NothingLost`, `BoundariesAscend`, `SameEitherWay` and
  the refinement of `Coverage`. The invariant
  adds that boundaries lie below `expected`, that the last one's record is the
  open run's, that adjacent boundaries have different records (a gap never
  follows a gap, which recovery needs), and that ranges still to be replayed lie
  above those that were. Lemmas about what adding a network or pushing a boundary
  does to the answers come first. Then `Refinement6` takes `Merger6` (as `M6`) through
  them: while `expected` is what `merger6`'s variables say when unwrapped
  (`Unwrapped`, which any behaviour of `M6` satisfies with some `expected`), each step of
  `merger6` is the same step of `merger4`. That `step` may compare with `#` after a wrap
  rests on `IInv`: nothing is left to merge above the last address. What was proved
  of `merger4`'s boundaries follows for `merger6` (`Boundaries6`).
- `BuilderProofs`, the strings: `StringTable`'s type invariant, `RecordsKept` and
  `RefusesOnlyTooMany`. The invariant `SInv` says that the table has each string in use
  once and no other (`UsesRight`), under the id that the keys (`KeysRight`), the extension
  entries (`EntriesRight`, `GivenRight`) and META (`MetaRight`) have for it. From that `Finish`'s
  renumbering is proved one-to-one, with the strings of 16-bit fields first, so that
  packing into 16 bits loses nothing (`FileRight`) unless there are more of them than ids. The
  counts that `Finish` compares with its limits are shown by bijections to be the
  numbers of strings, entries and bytes in use.
- `TableProofs`: the lemmas the others share. `DivMod` and `MulMono` are the
  arithmetic of buckets; `ExceptionFacts` says what the list of exceptions holds,
  and `FirstTrueBegins` that a halving of a monotone predicate finds its first
  element. These are about recursive functions; the proofs follow them up to the least
  number for which the claim would fail, since the library's induction theorems take an operator.
  `Recursion` says once that a function recursive on a natural number exists, with the values
  that its definition gives it.
- `Search4Proofs`: `TypeOK`, `TablesSplit`, `BoundsEnclose`, `LastAtOrBelow`,
  and `PassShrinks`, the variant behind `SearchEnds`. The invariant follows the
  three phases; the arithmetic (a comparison of low bits decides when the high bits
  agree) is in the lemmas before it.
- `Search6Proofs`: `TypeOK`, `FewSlots`, `IndexRight`, `LastAtOrBelow` and
  `PassShrinks`. The invariant says that the buckets sized lie one after the other and
  cover the slots (`DirRight`), how far each pass has come (`SizeRight`, `FillRight`,
  `FlagRight`), and what the window and the steps back exclude (`SearchRight`). A
  slot is flagged when one of the exceptions *so far* maps to it; that these are all
  the exceptions between its entry and the next needs the order of the starts.
- `RangesProofs`: `TypeOK`, `RangesAscend`, `RangesComplete`, `OneAnswer`,
  `SameRange`, `StopsAtOnce`. The 128-bit order is that of the number of addresses
  below one (`Rank`). The invariant says that the bucket and the exception walked
  to are the boundary's own (`InStep4`, `InStep6`), that what is left of a range begins
  above the aliases passed (`InParts`), and that what lies behind was yielded (`Covered4`,
  `Covered6`). Everything yielded is in `Yieldable`, where a range of IPv6 is a
  *part*: a longest piece of a boundary's range between aliases. `LookupRange`
  finds such a part, too, and an address is in only one (`PartOnce`), so the two cut alike.
- `ReaderProofs`, the lifecycle: `TypeOK`, `ReadsAreSafe`, `ReleasedOnce`. The invariant says
  which Reader owns each mapping, that an owner is never itself a view, that
  whatever is referred to is allocated, that a Reader `Open` is still making is
  known to nobody else, and that each mapped Reader in use has a cleanup.
- `ReaderProofs`, opening: `ReadsInBounds`, `OpenedIsSafe` and `GEO1Kept`. The invariant
  `OInv` says that at each stage the checks before it have passed, and of the same
  input (`Checked2`, `Checked1`). Most of the proof is about what the checks amount to. For GEO2:
  that the sections lie in the file although the sums were modulo a word; that the product of
  `checkExtensions` does not wrap (`Layout2`) and every field of an entry lies in it
  (`FieldOff`, `OffsetsFit`), so that the bytes `checkXRecords` reads are those of XRECORDS; and
  that checking each bucket and each neighbouring pair (`SplitV4`, `ListedV6`) makes
  whole tables that `Search4`, `Search6` and `Ranges` can search (`SearchableV4`,
  `SearchableV6`). For GEO1: that the cursor stays in the file, that the converted
  tables have the same two properties, and that `transcode` gives each string in use one
  id (`Once`, `Elements`), those of 16-bit fields first (`Extends`).
- `AtomicReplaceProofs`: all of `TypeOK`, `PathComplete`, `KeepsModeIfRead`,
  `ErrorLeavesPath`, `NoTempLeft` and the action property `MappedUnchanged`. The
  invariant is about every entry the path may have after a crash, not only the one it has:
  each names the first file or that of a build that has returned in this life of the machine or
  an earlier one (`NamesFinished`), with data and mode synced and the mode one of
  `RightModes`, which only grow (`Durable`). For each build it says what its
  temporary file holds at each system call (`Progress`).
- `CsvProofs`: `TypeOK` and `AddedAbove`, for files of any length. `add` has no
  check of its own for the row: it relies on what `row` established of the row and of the ends,
  which therefore is part of the invariant (`Adding`), next to the ends being at
  or above every range added (`AddedOK`, `EndIsLast`). On top of it, `RowInv` proves
  `RowsAnswered` and `RefusesOnlyDisorder`: in the middle of a row the ranges added answer
  the rows before and this one up to the address reached (`Answered`), and each end
  compared with is the image of a row read, or of a block of this row (`Ordered`).

The type invariants of these modules are proved and so in no run's list.

Only model-checked: `Sources`; of `OpenInput`, `WrittenOpens`; and liveness
(`GarbageIsUnmapped`, `SearchEnds`), which is out of the prover's reach.

## Findings

- `csvdb/csvdb.go:18` promises `ErrSyntax` for any malformed row. With
  `FormatIP2LocationASN` a file whose first line has one field makes
  `endsAboveV4` (`csvdb/reader.go:72`) read a second one and panic, before the
  number of fields is checked; the geo formats check it first
  (`csvdb/csvdb.go:275`). The run `csv_malformed` reaches the panic.
- `internal/build/write.go:12` promises that "a replaced file keeps its permission
  bits". Any error of `os.Stat` (`write.go:16`) is taken for a path that names nothing:
  if it fails on a file that is there and the calls after it succeed, that file is
  replaced by one with mode 0644. The model has the error (`StatFails`), and
  `KeepsModeIfRead` leaves room for it; with `statFailed` taken out of `RightModes`, the
  run `replace` reaches such a file with one build and no crash.

## Not modelled, and the plan

In the order planned; a new module's properties replace the shallowest of those
checked now.

1. A proof of `WrittenOpens`: that the encoder's layout passes every check of the
   validation.
2. `CsvSource` as an implementation of `Coverage`: every range it adds is one that
   `Coverage` may add, which is what `AddedAbove` says of it now.
3. `DataRelease`: reruns and interrupted uploads of `scripts/data-release.sh`.

Left out for good: decoding of MaxMind records (a library's), the rounding of
coordinates, text formatting and flags of the command line (what it does with
Readers is what `ReaderLifecycle`'s program does), the benchmark, the size table, the
values of a CRC, the memory of strings, and allocation (`blockList`'s blocks, exact
buffer sizes).
