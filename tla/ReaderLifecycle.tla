--------------------------- MODULE ReaderLifecycle --------------------------
(***************************************************************************)
(* Who may read a memory-mapped database, and when it is unmapped.         *)
(* Open (open.go) maps a file and hands the mapping to a Reader, or unmaps *)
(* it before it returns.  Nothing the caller does releases it: Close does  *)
(* nothing, and a cleanup unmaps the file once the garbage collector finds *)
(* the Reader unreachable.  WithLanguage (details.go) copies a Reader      *)
(* without its cleanup, so the copy must keep the original reachable.  The *)
(* mapping is not Go memory: a lookup that outlives it reads unmapped      *)
(* addresses, or another file mapped there since.                          *)
(*                                                                         *)
(* Goroutines hold references to Readers in variables, share one through   *)
(* an atomic pointer that is swapped to reload the database (close_test.go)*)
(* and may drop a reference at any time, also while a method runs on it.   *)
(* The pools of Readers and of places to map a file are bounds; both are   *)
(* reused.  A read of the sections changes nothing, so it is no action.    *)
(***************************************************************************)
EXTENDS Integers, FiniteSets

CONSTANTS
  Procs,      \* goroutines
  Readers,    \* Reader objects
  Mappings,   \* the places in memory a file can be mapped
  Files,      \* database files
  NoReader, NoMapping, Unused,
  Heap,       \* the section, and file, of a Reader with its tables on the heap
  Free,       \* nothing is mapped here
  Stuck       \* munmap failed here

ASSUME DistinctAssumption ==
  /\ NoReader \notin Readers
  /\ Heap \notin Mappings /\ NoMapping \notin Mappings
  /\ Free \notin Files /\ Stuck \notin Files

VARIABLES
  region,   \* what is mapped where: a file, Free or Stuck
  heap,     \* the Reader objects
  queue,    \* the mappings whose cleanup is due
  pc,       \* what each goroutine is in the middle of
  opening,  \* the mapping it has made, in Open
  subject,  \* the Reader it works on: a method's receiver, or Open's
  held,     \* the Readers its variables refer to
  cur       \* the shared pointer

vars == <<region, heap, queue, pc, opening, subject, held, cur>>

(* A Reader: where its sections are, the file they are of, the Reader it   *)
(* is a view of, and whether a cleanup is attached to it.                  *)
ReaderSet == [section : Mappings \union {Heap}, file : Files \union {Heap},
              owner : Readers \union {NoReader}, cleanup : BOOLEAN]

ASSUME UnusedAssumption == Unused \notin ReaderSet

NewReader(s, f) ==
  [section |-> s, file |-> f, owner |-> NoReader, cleanup |-> FALSE]

Allocated == {r \in Readers : heap[r] # Unused}

Init ==
  /\ region = [m \in Mappings |-> Free]
  /\ heap = [r \in Readers |-> Unused]
  /\ queue = {}
  /\ pc = [p \in Procs |-> "idle"]
  /\ opening = [p \in Procs |-> NoMapping]
  /\ subject = [p \in Procs |-> NoReader]
  /\ held = [p \in Procs |-> {}]
  /\ cur = NoReader

(* Goroutine p goes on to to, with the mapping m and the Reader r. *)
Goto(p, to, m, r) ==
  /\ pc' = [pc EXCEPT ![p] = to]
  /\ opening' = [opening EXCEPT ![p] = m]
  /\ subject' = [subject EXCEPT ![p] = r]

Return(p) == Goto(p, "idle", NoMapping, NoReader)

Hold(p, r) == held' = [held EXCEPT ![p] = @ \union {r}]

(* munmap: outcome is Free, or Stuck when it fails. *)
Munmap(m, outcome) ==
  /\ outcome \in {Free, Stuck}
  /\ region' = [region EXCEPT ![m] = outcome]

-----------------------------------------------------------------------------
(* Open, when the file can be mapped *)
MapFile(p, f, m) ==
  /\ pc[p] = "idle"
  /\ region[m] = Free
  /\ region' = [region EXCEPT ![m] = f]
  /\ Goto(p, "openMapped", m, NoReader)
  /\ UNCHANGED <<heap, queue, held, cur>>

(* Mutant: a mapping whose file does not parse is forgotten. *)
ParseFailsMapped(p, outcome) ==
  /\ pc[p] = "openMapped"
  /\ outcome = Free
  /\ Return(p)
  /\ UNCHANGED <<region, heap, queue, held, cur>>

(* parseGEO2 or openGEO1 refuses the file. *)
ParseFails(p, outcome) ==
  /\ pc[p] = "openMapped"
  /\ Munmap(opening[p], outcome)
  /\ Return(p)
  /\ UNCHANGED <<heap, queue, held, cur>>

ParseGEO2(p, r) ==
  /\ pc[p] = "openMapped"
  /\ r \notin Allocated
  /\ heap' = [heap EXCEPT ![r] = NewReader(opening[p], region[opening[p]])]
  /\ Goto(p, "setLanguage", opening[p], r)
  /\ UNCHANGED <<region, queue, held, cur>>

(* The database does not have the language asked for. *)
LanguageFails(p, outcome) ==
  /\ pc[p] = "setLanguage"
  /\ Munmap(opening[p], outcome)
  /\ Return(p)
  /\ UNCHANGED <<heap, queue, held, cur>>

AddCleanup(p) ==
  /\ pc[p] = "setLanguage"
  /\ heap' = [heap EXCEPT ![subject[p]].cleanup = TRUE]
  /\ Hold(p, subject[p])
  /\ Return(p)
  /\ UNCHANGED <<region, queue, cur>>

(* openGEO1 converts the file to tables on the heap ... *)
ParseGEO1(p, r) ==
  /\ pc[p] = "openMapped"
  /\ r \notin Allocated
  /\ heap' = [heap EXCEPT ![r] = NewReader(Heap, Heap)]
  /\ Goto(p, "unmapGEO1", opening[p], r)
  /\ UNCHANGED <<region, queue, held, cur>>

(* ... and the mapping is released at once; a Reader is returned when that *)
(* worked and the database has the language.                               *)
UnmapGEO1(p, outcome, hasLanguage) ==
  /\ pc[p] = "unmapGEO1"
  /\ Munmap(opening[p], outcome)
  /\ IF outcome = Free /\ hasLanguage
     THEN Hold(p, subject[p])
     ELSE UNCHANGED held
  /\ Return(p)
  /\ UNCHANGED <<heap, queue, cur>>

(* Open without a mapping, and OpenBytes: the tables are on the heap. *)
OpenHeap(p, r) ==
  /\ pc[p] = "idle"
  /\ r \notin Allocated
  /\ heap' = [heap EXCEPT ![r] = NewReader(Heap, Heap)]
  /\ Hold(p, r)
  /\ UNCHANGED <<region, queue, pc, opening, subject, cur>>

-----------------------------------------------------------------------------
(* The methods of a Reader.  WithLanguage copies the receiver; r stays     *)
(* reachable up to its end, where the code last refers to it.              *)
(* Mutant: the view does not refer to the Reader it was made from. *)
ViewAlone(r) == [heap[r] EXCEPT !.cleanup = FALSE]

View(r) ==
  [heap[r] EXCEPT !.owner = IF @ = NoReader THEN r ELSE @, !.cleanup = FALSE]

WithLanguage(p, r, v) ==
  /\ pc[p] = "idle"
  /\ r \in held[p]
  /\ v \notin Allocated
  /\ heap' = [heap EXCEPT ![v] = View(r)]
  /\ Hold(p, v)
  /\ UNCHANGED <<region, queue, pc, opening, subject, cur>>

(* Lookup and the other methods that read the sections, Ranges included:   *)
(* they are reading from the call until KeepAlive.                         *)
Lookup(p, r) ==
  /\ pc[p] = "idle"
  /\ r \in held[p] \/ (r = cur /\ r # NoReader)
  /\ Goto(p, "reading", NoMapping, r)
  /\ UNCHANGED <<region, heap, queue, held, cur>>

KeepAlive(p) ==
  /\ pc[p] = "reading"
  /\ Return(p)
  /\ UNCHANGED <<region, heap, queue, held, cur>>

(* Close is "return nil": it releases nothing. *)
Close(p, r) ==
  /\ pc[p] = "idle"
  /\ r \in held[p]
  /\ UNCHANGED vars

-----------------------------------------------------------------------------
(* The program around them: it shares a Reader, reloads it, drops others.  *)
Swap(p, r) ==
  /\ pc[p] = "idle"
  /\ r \in held[p]
  /\ cur' = r
  /\ held' = [held EXCEPT ![p] = IF cur = NoReader THEN @ ELSE @ \union {cur}]
  /\ UNCHANGED <<region, heap, queue, pc, opening, subject>>

Drop(p, r) ==
  /\ r \in held[p]
  /\ held' = [held EXCEPT ![p] = @ \ {r}]
  /\ UNCHANGED <<region, heap, queue, pc, opening, subject, cur>>

-----------------------------------------------------------------------------
(* The garbage collector.  A Reader is kept by a variable, by the shared   *)
(* pointer, by a method that still has KeepAlive ahead of it, by Open, and *)
(* by a view.                                                              *)
Roots ==
  (UNION {held[p] : p \in Procs}) \union {cur} \union {subject[p] : p \in Procs}

(* Mutant: the argument of the cleanup refers to the Reader, which it      *)
(* keeps reachable for ever.                                               *)
CollectableWithoutCleanup(r) ==
  /\ r \in Allocated /\ ~heap[r].cleanup
  /\ r \notin Roots
  /\ \A v \in Allocated : heap[v].owner # r

Collectable(r) ==
  /\ r \in Allocated
  /\ r \notin Roots
  /\ \A v \in Allocated : heap[v].owner # r

Collect(r) ==
  /\ Collectable(r)
  /\ heap' = [heap EXCEPT ![r] = Unused]
  /\ queue' = IF heap[r].cleanup THEN queue \union {heap[r].section} ELSE queue
  /\ UNCHANGED <<region, pc, opening, subject, held, cur>>

(* releaseMapping *)
ReleaseMapping(m, outcome) ==
  /\ m \in queue
  /\ Munmap(m, outcome)
  /\ queue' = queue \ {m}
  /\ UNCHANGED <<heap, pc, opening, subject, held, cur>>

Release(m) == \E outcome \in {Free, Stuck} : ReleaseMapping(m, outcome)

Next ==
  \/ \E p \in Procs :
       \/ \E f \in Files, m \in Mappings : MapFile(p, f, m)
       \/ \E outcome \in {Free, Stuck} :
            \/ ParseFails(p, outcome)
            \/ LanguageFails(p, outcome)
            \/ \E hasLanguage \in BOOLEAN : UnmapGEO1(p, outcome, hasLanguage)
       \/ AddCleanup(p)
       \/ KeepAlive(p)
       \/ \E r \in Readers :
            \/ ParseGEO2(p, r) \/ ParseGEO1(p, r)
            \/ OpenHeap(p, r)
            \/ \E v \in Readers : WithLanguage(p, r, v)
            \/ Lookup(p, r) \/ Close(p, r)
            \/ Swap(p, r) \/ Drop(p, r)
  \/ \E r \in Readers : Collect(r)
  \/ \E m \in Mappings : Release(m)

Spec == Init /\ [][Next]_vars

(* The collector collects what stays unreachable and runs the cleanups.    *)
(* Nothing is assumed of the program: no method need return.               *)
FairSpec ==
  /\ Spec
  /\ \A r \in Readers : WF_vars(Collect(r))
  /\ \A m \in Mappings : WF_vars(Release(m))

-----------------------------------------------------------------------------
(* Properties *)

Busy == {"openMapped", "setLanguage", "unmapGEO1"}

(* Every variable has its type; a goroutine has a mapping while it is in   *)
(* Open and a Reader while it makes or uses one.                           *)
TypeOK ==
  /\ region \in [Mappings -> Files \union {Free, Stuck}]
  /\ heap \in [Readers -> ReaderSet \union {Unused}]
  /\ queue \subseteq Mappings
  /\ pc \in [Procs -> Busy \union {"idle", "reading"}]
  /\ opening \in [Procs -> Mappings \union {NoMapping}]
  /\ subject \in [Procs -> Readers \union {NoReader}]
  /\ held \in [Procs -> SUBSET Readers]
  /\ cur \in Readers \union {NoReader}
  /\ \A p \in Procs :
       /\ pc[p] \in Busy <=> opening[p] # NoMapping
       /\ pc[p] \in {"setLanguage", "unmapGEO1", "reading"}
            <=> subject[p] # NoReader

(* The sections of Reader r hold the file it was opened on. *)
Readable(r) ==
  /\ r \in Allocated
  /\ heap[r].section # Heap => region[heap[r].section] = heap[r].file

(* "a Lookup that overlaps Close or follows it is still safe" (reader.go   *)
(* 117): while a method reads, or a goroutine could start one, the         *)
(* receiver's mapping is there and holds the receiver's file, whatever was *)
(* dropped, collected, closed, swapped or mapped meanwhile.                *)
ReadsAreSafe ==
  /\ \A p \in Procs : pc[p] = "reading" => Readable(subject[p])
  /\ \A p \in Procs : \A r \in held[p] : Readable(r)
  /\ cur # NoReader => Readable(cur)

(* Who will unmap m: a call of Open, a Reader's cleanup, a cleanup due.    *)
Opens(m)    == {p \in Procs : opening[p] = m}
Cleanups(m) == {r \in Allocated : heap[r].cleanup /\ heap[r].section = m}

(* Every mapping has exactly one party that will release it, so none leaks *)
(* and none is unmapped twice, which would unmap whatever has taken its    *)
(* place (openMapped: "which it either hands to the Reader ... or releases *)
(* before returning").                                                     *)
ReleasedOnce ==
  \A m \in Mappings :
    Cardinality(Opens(m)) + Cardinality(Cleanups(m))
      + Cardinality(queue \intersect {m})
    = IF region[m] \in Files THEN 1 ELSE 0

(* A mapping whose Reader and views are all unreachable is released, even  *)
(* if no method of any other goroutine ever returns.                       *)
Unreachable(r) ==
  \A v \in Roots \ {NoReader} : v # r /\ heap[v].owner # r

GarbageIsUnmapped ==
  \A r \in Readers, m \in Mappings :
    (r \in Cleanups(m) /\ Unreachable(r)) ~> region[m] \in {Free, Stuck}
=============================================================================
