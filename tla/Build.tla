------------------------------- MODULE Build --------------------------------
(***************************************************************************)
(* The build core both sources feed (internal/build/build.go): options are *)
(* normalized, records interned, and the finished build is opened, by a    *)
(* caller who makes views of it in its languages from one another.         *)
(* Coverage and Merger have the networks, StringTable the string ids,      *)
(* Geo2Encode the file.                                                    *)
(***************************************************************************)
EXTENDS Details

CONSTANT Asked   \* the languages WithLanguage is called with

VARIABLES
  pc,         \* "options" -> "source" -> "read" -> "open", or "failed"
  outcome,    \* "", or the error the call returned
  opts,       \* the caller's options
  db,         \* the source
  co,         \* the options of the build core
  next,       \* how many networks or rows have been read
  known,      \* what a source record is known by -> its record id
  recs,       \* the build's records: record id + 1 -> [base, entry]
  distinct,   \* Stats.DistinctRecords
  ids,        \* the number of a network or row added -> its record id
  view        \* the language view the caller holds

built == <<recs, distinct, ids>>

NoOptions == [profile |-> -1, fields |-> {}, langs |-> <<>>]

InitBuild ==
  /\ pc = "options" /\ outcome = ""
  /\ co = NoOptions
  /\ next = 0 /\ known = <<>>
  /\ recs = <<>> /\ distinct = 0 /\ ids = <<>>
  /\ view = [lang |-> 0, alt |-> FALSE, nameOff |-> <<>>]

Fail(error) == pc' = "failed" /\ outcome' = error

-----------------------------------------------------------------------------
(* Normalize: what it refuses, and the options it leaves. *)
AllowedFields(p) == {b \in KnownFields : CheckFields(p, {b})}

NormalFields(o) == IF o.fields = FieldsAll THEN AllowedFields(o.profile) ELSE o.fields

Valid(o) ==
  /\ o.profile \in Profiles
  /\ CheckFields(o.profile, NormalFields(o))
  /\ "" \notin Range(o.langs) /\ IsInjective(o.langs)
  /\ o.profile = ASN => Len(o.langs) <= 1

Normal(o) ==
  [profile |-> o.profile, fields |-> NormalFields(o),
   langs |-> IF o.langs = <<>> THEN <<"en">> ELSE o.langs]

-----------------------------------------------------------------------------
Zeros(S) == [x \in S |-> 0]
ZeroNames(n) == [k \in Range(NameKinds) |-> Zeros(1..n)]
ZeroRecord(n) == [v |-> Zeros(Fields), names |-> ZeroNames(n)]

Key(c, r) ==
  LET n == Len(c.langs) IN
  [base  |-> Base(c.profile, r),
   entry |-> IF HasEntries(c.profile, c.fields, n)
             THEN Entry(c.profile, c.fields, n, r) ELSE <<>>]

(* New: record 0 is kept for the gaps. *)
New(c) == recs' = <<Key(c, ZeroRecord(Len(c.langs)))>>

(* A mutant: records that differ in their entry alone share one. *)
IdOfBase(key) ==
  IF \E i \in 2..Len(recs) : recs[i].base = key.base
  THEN (CHOOSE i \in 2..Len(recs) : recs[i].base = key.base) - 1
  ELSE Len(recs)

(* Record: the keys of the build's map are those of recs[2..]. *)
IdOf(key) ==
  IF \E i \in 2..Len(recs) : recs[i] = key
  THEN (CHOOSE i \in 2..Len(recs) : recs[i] = key) - 1
  ELSE Len(recs)

Record(r) ==
  LET key == Key(co, r) IN
  /\ recs' = IF IdOf(key) = Len(recs) THEN Append(recs, key) ELSE recs
  /\ distinct' = distinct + 1

(* AddPrefix and AddRange, and the next network or row. *)
Add(id) == ids' = ids @@ (next + 1 :> id) /\ next' = next + 1

(* The source is known by k: its record is the one decoded before, or r. *)
AddKnown(k) == Add(known[k]) /\ UNCHANGED <<known, recs, distinct>>
AddNew(k, r) ==
  LET id == IdOf(Key(co, r)) IN
  Record(r) /\ known' = known @@ (k :> id) /\ Add(id)

-----------------------------------------------------------------------------
(* OpenBytes of the finished build, in its primary language. *)
OpenBuilt ==
  /\ pc' = "open"
  /\ view' = SetLanguage(co.profile, co.fields, view, 0)
  /\ UNCHANGED <<outcome, opts, db, co, next, known, built>>

(* WithLanguage of the view the caller holds, "" for the primary language. *)
LanguageIndexes(lang) == {j \in DOMAIN co.langs : co.langs[j] = lang}

WithLanguage(lang) ==
  /\ pc = "open"
  /\ \/ /\ lang = ""
        /\ view' = SetLanguage(co.profile, co.fields, view, 0) /\ outcome' = ""
     \/ \E j \in LanguageIndexes(lang) :
          view' = SetLanguage(co.profile, co.fields, view, j - 1) /\ outcome' = ""
     \/ /\ lang # "" /\ LanguageIndexes(lang) = {}
        /\ outcome' = "ErrLanguage" /\ UNCHANGED view
  /\ UNCHANGED <<pc, opts, db, co, next, known, built>>
=============================================================================
