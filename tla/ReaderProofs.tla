---------------------------- MODULE ReaderProofs ----------------------------
(***************************************************************************)
(* Proofs about a Reader from the input it is opened from to its last      *)
(* method.  About ReaderLifecycle, for any number of goroutines, Readers,  *)
(* files and places to map them: no method ever reads a mapping that is    *)
(* not there any more or that is another file's, and every mapping is      *)
(* released by exactly one party.  About OpenInput, for any inputs and any *)
(* sizes: no check reads outside what it checks, what opens is safe to     *)
(* look up in, and a GEO1 input keeps its answers.                         *)
(***************************************************************************)
EXTENDS ReaderLifecycle, OpenInput, TableProofs

(* The Reader whose cleanup releases the mapping r reads. *)
Owner(r) == IF heap[r].owner = NoReader THEN r ELSE heap[r].owner

(* A method may be running on r, or a goroutine may start one. *)
Used(r) ==
  \/ \E p \in Procs : r \in held[p]
  \/ r = cur
  \/ \E p \in Procs : pc[p] = "reading" /\ subject[p] = r

(* What is used or made exists, and so does what a view refers to, which   *)
(* is not a view and has the same sections.                                *)
Reachable ==
  /\ \A r \in Readers : Used(r) => r \in Allocated
  /\ \A p \in Procs : subject[p] # NoReader => subject[p] \in Allocated
  /\ \A r \in Allocated : heap[r].owner # NoReader =>
       /\ heap[r].owner \in Allocated /\ ~heap[r].cleanup
       /\ heap[heap[r].owner].owner = NoReader
       /\ heap[heap[r].owner].section = heap[r].section
       /\ heap[heap[r].owner].file = heap[r].file

(* The three parties that release mappings have different ones.            *)
Distinct ==
  /\ \A p, q \in Procs :
       opening[p] # NoMapping /\ opening[p] = opening[q] => p = q
  /\ \A p \in Procs : opening[p] \notin queue
  /\ \A r \in Allocated : heap[r].cleanup =>
       /\ heap[r].section \in Mappings
       /\ heap[r].section \notin queue
       /\ \A p \in Procs : opening[p] # heap[r].section
  /\ \A r, s \in Allocated :
       heap[r].cleanup /\ heap[s].cleanup /\ heap[r].section = heap[s].section
         => r = s

(* They release what is mapped, and all of it.                             *)
Responsible ==
  /\ \A p \in Procs : opening[p] # NoMapping => region[opening[p]] \in Files
  /\ \A m \in queue : region[m] \in Files
  /\ \A r \in Allocated : heap[r].cleanup =>
       region[heap[r].section] \in Files
         /\ region[heap[r].section] = heap[r].file
  /\ \A m \in Mappings : region[m] \in Files =>
       \/ \E p \in Procs : opening[p] = m
       \/ m \in queue
       \/ \E r \in Allocated : heap[r].cleanup /\ heap[r].section = m

(* A Reader in the making is known to Open only. *)
Private ==
  \A p \in Procs :
    /\ pc[p] = "setLanguage" =>
         /\ heap[subject[p]].section = opening[p]
         /\ heap[subject[p]].file = region[opening[p]]
         /\ heap[subject[p]].owner = NoReader
         /\ ~heap[subject[p]].cleanup
         /\ ~Used(subject[p])
         /\ \A q \in Procs : subject[q] = subject[p] => p = q
         /\ \A v \in Allocated : heap[v].owner # subject[p]
    /\ pc[p] = "unmapGEO1" => heap[subject[p]].section = Heap

(* A cleanup stands behind every Reader in use. *)
Backed ==
  \A r \in Readers :
    Used(r) /\ heap[r].section # Heap => heap[Owner(r)].cleanup

IInv == TypeOK /\ Reachable /\ Distinct /\ Responsible /\ Private /\ Backed

(* The invariant keeps the mapping behind every read. *)
LEMMA InvSafe == IInv => ReadsAreSafe
<1>1. SUFFICES ASSUME IInv, NEW r \in Readers, Used(r)
               PROVE  Readable(r)
  BY DEF ReadsAreSafe, Used, IInv, TypeOK
<1>2. r \in Allocated
  BY <1>1 DEF IInv, Reachable
<1>3. ASSUME heap[r].section # Heap
      PROVE  region[heap[r].section] = heap[r].file
  <2>1. heap[Owner(r)].cleanup
    BY <1>1, <1>3 DEF IInv, Backed
  <2>2. /\ Owner(r) \in Allocated
        /\ heap[Owner(r)].section = heap[r].section
        /\ heap[Owner(r)].file = heap[r].file
    BY <1>1, <1>2 DEF IInv, Reachable, Owner
  <2>. QED  BY <1>1, <2>1, <2>2 DEF IInv, Responsible
<1>. QED  BY <1>2, <1>3 DEF Readable

LEMMA InitInv == Init => IInv
BY DistinctAssumption
   DEF Init, IInv, TypeOK, Reachable, Distinct, Responsible, Private, Backed,
       Used, Allocated, Busy

-----------------------------------------------------------------------------
(* Steps that change the variables of the program only *)
LEMMA LookupStep ==
  ASSUME IInv, NEW p \in Procs, NEW r \in Readers, Lookup(p, r)
  PROVE  IInv'
<1>1. /\ pc[p] = "idle" /\ Used(r)
      /\ pc' = [pc EXCEPT ![p] = "reading"]
      /\ opening' = [opening EXCEPT ![p] = NoMapping]
      /\ subject' = [subject EXCEPT ![p] = r]
      /\ UNCHANGED <<region, heap, queue, held, cur>>
      /\ Allocated' = Allocated
  BY DEF Lookup, Goto, Used, Allocated
<1>2. opening' = opening /\ subject[p] = NoReader
  BY <1>1 DEF IInv, TypeOK, Busy
<1>3. TypeOK'
  BY <1>1, <1>2, DistinctAssumption DEF IInv, TypeOK, Busy
<1>4. \A s \in Readers : Used(s)' => Used(s)
  BY <1>1 DEF Used, IInv, TypeOK
<1>5. Reachable'
  BY <1>1, <1>4 DEF IInv, Reachable, TypeOK
<1>6. Distinct' /\ Responsible'
  BY <1>1, <1>2 DEF IInv, Distinct, Responsible
<1>7. Private'
  BY <1>1, <1>2, <1>4 DEF IInv, Private, TypeOK
<1>8. Backed'
  BY <1>1, <1>4 DEF IInv, Backed, Owner
<1>. QED  BY <1>3, <1>5, <1>6, <1>7, <1>8 DEF IInv

LEMMA KeepAliveStep ==
  ASSUME IInv, NEW p \in Procs, KeepAlive(p)
  PROVE  IInv'
<1>1. /\ pc[p] = "reading"
      /\ pc' = [pc EXCEPT ![p] = "idle"]
      /\ opening' = [opening EXCEPT ![p] = NoMapping]
      /\ subject' = [subject EXCEPT ![p] = NoReader]
      /\ UNCHANGED <<region, heap, queue, held, cur>>
      /\ Allocated' = Allocated
  BY DEF KeepAlive, Return, Goto, Allocated
<1>2. opening' = opening
  BY <1>1 DEF IInv, TypeOK, Busy
<1>3. TypeOK'
  BY <1>1, <1>2 DEF IInv, TypeOK, Busy
<1>4. \A s \in Readers : Used(s)' => Used(s)
  BY <1>1 DEF Used, IInv, TypeOK
<1>5. Reachable'
  BY <1>1, <1>4 DEF IInv, Reachable, TypeOK
<1>6. Distinct' /\ Responsible'
  BY <1>1, <1>2 DEF IInv, Distinct, Responsible
<1>7. Private'
  BY <1>1, <1>2, <1>4 DEF IInv, Private, TypeOK
<1>8. Backed'
  BY <1>1, <1>4 DEF IInv, Backed, Owner
<1>. QED  BY <1>3, <1>5, <1>6, <1>7, <1>8 DEF IInv

LEMMA StutterStep ==
  ASSUME IInv, UNCHANGED vars
  PROVE  IInv'
<1>1. /\ UNCHANGED <<region, heap, queue, pc, opening, subject, held, cur>>
      /\ Allocated' = Allocated
  BY DEF vars, Allocated
<1>. QED
  BY <1>1 DEF IInv, TypeOK, Reachable, Distinct, Responsible, Private,
              Backed, Used, Owner

LEMMA SwapStep ==
  ASSUME IInv, NEW p \in Procs, NEW r \in Readers, Swap(p, r)
  PROVE  IInv'
<1>1. /\ r \in held[p] /\ cur' = r
      /\ held' = [held EXCEPT ![p] = IF cur = NoReader THEN @ ELSE @ \union {cur}]
      /\ UNCHANGED <<region, heap, queue, pc, opening, subject>>
      /\ Allocated' = Allocated
  BY DEF Swap, Allocated
<1>2. TypeOK'
  BY <1>1 DEF IInv, TypeOK
<1>3. \A s \in Readers : Used(s)' => Used(s)
  BY <1>1 DEF Used, IInv, TypeOK
<1>. QED
  BY <1>1, <1>2, <1>3
     DEF IInv, Reachable, Distinct, Responsible, Private, Backed, Owner, TypeOK

LEMMA DropStep ==
  ASSUME IInv, NEW p \in Procs, NEW r \in Readers, Drop(p, r)
  PROVE  IInv'
<1>1. /\ held' = [held EXCEPT ![p] = @ \ {r}]
      /\ UNCHANGED <<region, heap, queue, pc, opening, subject, cur>>
      /\ Allocated' = Allocated
  BY DEF Drop, Allocated
<1>2. TypeOK'
  BY <1>1 DEF IInv, TypeOK
<1>3. \A s \in Readers : Used(s)' => Used(s)
  BY <1>1 DEF Used, IInv, TypeOK
<1>. QED
  BY <1>1, <1>2, <1>3
     DEF IInv, Reachable, Distinct, Responsible, Private, Backed, Owner, TypeOK

-----------------------------------------------------------------------------
(* Steps that make a Reader *)

(* A new Reader is not in use, and nothing refers to it. *)
LEMMA Fresh ==
  ASSUME IInv, NEW r \in Readers, r \notin Allocated
  PROVE  /\ ~Used(r)
         /\ \A q \in Procs : subject[q] # r /\ r \notin held[q]
         /\ r # cur
         /\ \A v \in Allocated : heap[v].owner # r
BY DistinctAssumption DEF IInv, Reachable, TypeOK, Used

LEMMA NewReaderType ==
  ASSUME NEW s \in Mappings \union {Heap}, NEW f \in Files \union {Heap}
  PROVE  /\ NewReader(s, f) \in ReaderSet /\ NewReader(s, f) # Unused
         /\ NewReader(s, f).section = s /\ NewReader(s, f).file = f
         /\ NewReader(s, f).owner = NoReader /\ ~NewReader(s, f).cleanup
<1>1. NewReader(s, f) \in ReaderSet
  BY DEF NewReader, ReaderSet
<1>2. /\ NewReader(s, f).section = s /\ NewReader(s, f).file = f
      /\ NewReader(s, f).owner = NoReader /\ ~NewReader(s, f).cleanup
  BY DEF NewReader
<1>. QED  BY <1>1, <1>2, UnusedAssumption

LEMMA OpenHeapStep ==
  ASSUME IInv, NEW p \in Procs, NEW r \in Readers, OpenHeap(p, r)
  PROVE  IInv'
<1> DEFINE new == NewReader(Heap, Heap)
<1>1. /\ r \notin Allocated
      /\ heap' = [heap EXCEPT ![r] = new]
      /\ held' = [held EXCEPT ![p] = @ \union {r}]
      /\ UNCHANGED <<region, queue, pc, opening, subject, cur>>
  BY DEF OpenHeap, Hold
<1>2. /\ new \in ReaderSet /\ new # Unused
      /\ new.section = Heap /\ new.owner = NoReader /\ ~new.cleanup
  BY NewReaderType
<1> HIDE DEF new
<1>3. TypeOK'
  BY <1>1, <1>2 DEF IInv, TypeOK
<1>4. /\ Allocated' = Allocated \union {r}
      /\ heap'[r] = new
      /\ \A s \in Readers : s # r => heap'[s] = heap[s]
  BY <1>1, <1>2 DEF IInv, TypeOK, Allocated
<1>5. \A s \in Readers : Used(s)' => Used(s) \/ s = r
  BY <1>1 DEF Used, IInv, TypeOK
<1>6. /\ ~Used(r) /\ \A q \in Procs : subject[q] # r
      /\ \A v \in Allocated : heap[v].owner # r
  BY <1>1, Fresh
<1>7. \A v \in Allocated : heap[v].owner \in Readers \union {NoReader}
  BY DEF IInv, TypeOK, Allocated, ReaderSet
<1>8. Reachable'
  BY <1>1, <1>2, <1>4, <1>5, <1>6, <1>7 DEF IInv, Reachable, TypeOK
<1>9. Distinct'
  BY <1>1, <1>2, <1>4 DEF IInv, Distinct, Allocated
<1>10. Responsible'
  BY <1>1, <1>2, <1>4 DEF IInv, Responsible, Allocated
<1>11. Private'
  BY <1>1, <1>2, <1>4, <1>5, <1>6, <1>7, DistinctAssumption
     DEF IInv, Private, TypeOK, Busy
<1>12. Backed'
  <2>1. SUFFICES ASSUME NEW s \in Readers, Used(s)', heap'[s].section # Heap
                 PROVE  (heap[Owner(s)].cleanup)'
    BY DEF Backed
  <2>2. s # r /\ Used(s) /\ s \in Allocated
    BY <1>2, <1>4, <1>5, <2>1 DEF IInv, Reachable
  <2>3. Owner(s) \in Allocated /\ heap[Owner(s)].cleanup
    BY <1>4, <2>1, <2>2 DEF IInv, Backed, Owner, Reachable
  <2>4. Owner(s)' = Owner(s) /\ Owner(s) # r /\ Owner(s) \in Readers
    BY <1>1, <1>4, <2>2, <2>3 DEF Owner, Allocated
  <2>. QED  BY <1>4, <2>3, <2>4
<1>. QED  BY <1>3, <1>8, <1>9, <1>10, <1>11, <1>12 DEF IInv

LEMMA ParseGEO2Step ==
  ASSUME IInv, NEW p \in Procs, NEW r \in Readers, ParseGEO2(p, r)
  PROVE  IInv'
<1> DEFINE m == opening[p]
           new == NewReader(m, region[m])
<1>1. /\ pc[p] = "openMapped" /\ r \notin Allocated
      /\ heap' = [heap EXCEPT ![r] = new]
      /\ pc' = [pc EXCEPT ![p] = "setLanguage"]
      /\ opening' = [opening EXCEPT ![p] = m]
      /\ subject' = [subject EXCEPT ![p] = r]
      /\ UNCHANGED <<region, queue, held, cur>>
  BY DEF ParseGEO2, Goto
<1>2. m \in Mappings /\ region[m] \in Files /\ opening' = opening
  BY <1>1 DEF IInv, TypeOK, Busy, Responsible
<1>3. /\ new \in ReaderSet /\ new # Unused
      /\ new.section = m /\ new.file = region[m]
      /\ new.owner = NoReader /\ ~new.cleanup
  BY <1>2, NewReaderType
<1> HIDE DEF new
<1>4. TypeOK'
  BY <1>1, <1>2, <1>3, DistinctAssumption DEF IInv, TypeOK, Busy
<1>5. /\ Allocated' = Allocated \union {r}
      /\ heap'[r] = new
      /\ \A s \in Readers : s # r => heap'[s] = heap[s]
  BY <1>1, <1>3 DEF IInv, TypeOK, Allocated
<1>6. /\ ~Used(r) /\ \A q \in Procs : subject[q] # r
      /\ \A v \in Allocated : heap[v].owner # r
  BY <1>1, Fresh
<1>7. \A s \in Readers : Used(s)' => Used(s)
  BY <1>1 DEF Used, IInv, TypeOK
<1>8. \A v \in Allocated : heap[v].owner \in Readers \union {NoReader}
  BY DEF IInv, TypeOK, Allocated, ReaderSet
<1>9. Reachable'
  BY <1>1, <1>3, <1>5, <1>6, <1>7, <1>8 DEF IInv, Reachable, TypeOK
<1>10. Distinct'
  BY <1>1, <1>2, <1>3, <1>5 DEF IInv, Distinct, Allocated
<1>11. Responsible'
  BY <1>1, <1>2, <1>3, <1>5 DEF IInv, Responsible, Allocated
<1>12. Private'
  <2>1. SUFFICES ASSUME NEW q \in Procs
                 PROVE  /\ pc'[q] = "setLanguage" =>
                             /\ heap'[subject'[q]].section = opening'[q]
                             /\ heap'[subject'[q]].file = region'[opening'[q]]
                             /\ heap'[subject'[q]].owner = NoReader
                             /\ ~heap'[subject'[q]].cleanup
                             /\ ~Used(subject[q])'
                             /\ \A o \in Procs : subject'[o] = subject'[q] => q = o
                             /\ \A v \in Allocated' : heap'[v].owner # subject'[q]
                        /\ pc'[q] = "unmapGEO1" =>
                             heap'[subject'[q]].section = Heap
    BY <1>1 DEF Private
  <2>2. CASE q = p
    BY <1>1, <1>2, <1>3, <1>5, <1>6, <1>7, <2>2, DistinctAssumption
       DEF IInv, TypeOK, Used
  <2>3. CASE q # p
    <3>1. /\ pc'[q] = pc[q] /\ subject'[q] = subject[q]
          /\ opening'[q] = opening[q] /\ subject[q] # r
      BY <1>1, <1>2, <1>6, <2>3 DEF IInv, TypeOK
    <3>2. pc[q] \in {"setLanguage", "unmapGEO1"} => subject[q] \in Readers
      BY DEF IInv, TypeOK
    <3>3. ~Used(subject[q]) /\ subject[q] \in Readers => ~Used(subject[q])'
      BY <1>7, <3>1 DEF Used
    <3>. QED
      BY <1>1, <1>3, <1>5, <2>3, <3>1, <3>2, <3>3
         DEF IInv, Private, TypeOK
  <2>. QED  BY <2>2, <2>3
<1>13. Backed'
  <2>1. SUFFICES ASSUME NEW s \in Readers, Used(s)', heap'[s].section # Heap
                 PROVE  (heap[Owner(s)].cleanup)'
    BY DEF Backed
  <2>2. s # r /\ Used(s) /\ s \in Allocated
    BY <1>6, <1>7, <2>1 DEF IInv, Reachable
  <2>3. Owner(s) \in Allocated /\ heap[Owner(s)].cleanup
    BY <1>5, <2>1, <2>2 DEF IInv, Backed, Owner, Reachable
  <2>4. Owner(s)' = Owner(s) /\ Owner(s) # r /\ Owner(s) \in Readers
    BY <1>1, <1>5, <2>2, <2>3 DEF Owner, Allocated
  <2>. QED  BY <1>5, <2>3, <2>4
<1>. QED  BY <1>4, <1>9, <1>10, <1>11, <1>12, <1>13 DEF IInv

LEMMA ParseGEO1Step ==
  ASSUME IInv, NEW p \in Procs, NEW r \in Readers, ParseGEO1(p, r)
  PROVE  IInv'
<1> DEFINE m == opening[p]
           new == NewReader(Heap, Heap)
<1>1. /\ pc[p] = "openMapped" /\ r \notin Allocated
      /\ heap' = [heap EXCEPT ![r] = new]
      /\ pc' = [pc EXCEPT ![p] = "unmapGEO1"]
      /\ opening' = [opening EXCEPT ![p] = m]
      /\ subject' = [subject EXCEPT ![p] = r]
      /\ UNCHANGED <<region, queue, held, cur>>
  BY DEF ParseGEO1, Goto
<1>2. m \in Mappings /\ region[m] \in Files /\ opening' = opening
  BY <1>1 DEF IInv, TypeOK, Busy, Responsible
<1>3. /\ new \in ReaderSet /\ new # Unused
      /\ new.section = Heap
      /\ new.owner = NoReader /\ ~new.cleanup
  BY <1>2, NewReaderType
<1> HIDE DEF new
<1>4. TypeOK'
  BY <1>1, <1>2, <1>3, DistinctAssumption DEF IInv, TypeOK, Busy
<1>5. /\ Allocated' = Allocated \union {r}
      /\ heap'[r] = new
      /\ \A s \in Readers : s # r => heap'[s] = heap[s]
  BY <1>1, <1>3 DEF IInv, TypeOK, Allocated
<1>6. /\ ~Used(r) /\ \A q \in Procs : subject[q] # r
      /\ \A v \in Allocated : heap[v].owner # r
  BY <1>1, Fresh
<1>7. \A s \in Readers : Used(s)' => Used(s)
  BY <1>1 DEF Used, IInv, TypeOK
<1>8. \A v \in Allocated : heap[v].owner \in Readers \union {NoReader}
  BY DEF IInv, TypeOK, Allocated, ReaderSet
<1>9. Reachable'
  BY <1>1, <1>3, <1>5, <1>6, <1>7, <1>8 DEF IInv, Reachable, TypeOK
<1>10. Distinct'
  BY <1>1, <1>2, <1>3, <1>5 DEF IInv, Distinct, Allocated
<1>11. Responsible'
  BY <1>1, <1>2, <1>3, <1>5 DEF IInv, Responsible, Allocated
<1>12. Private'
  <2>1. SUFFICES ASSUME NEW q \in Procs
                 PROVE  /\ pc'[q] = "setLanguage" =>
                             /\ heap'[subject'[q]].section = opening'[q]
                             /\ heap'[subject'[q]].file = region'[opening'[q]]
                             /\ heap'[subject'[q]].owner = NoReader
                             /\ ~heap'[subject'[q]].cleanup
                             /\ ~Used(subject[q])'
                             /\ \A o \in Procs : subject'[o] = subject'[q] => q = o
                             /\ \A v \in Allocated' : heap'[v].owner # subject'[q]
                        /\ pc'[q] = "unmapGEO1" =>
                             heap'[subject'[q]].section = Heap
    BY <1>1 DEF Private
  <2>2. CASE q = p
    BY <1>1, <1>2, <1>3, <1>5, <1>6, <1>7, <2>2, DistinctAssumption
       DEF IInv, TypeOK, Used
  <2>3. CASE q # p
    <3>1. /\ pc'[q] = pc[q] /\ subject'[q] = subject[q]
          /\ opening'[q] = opening[q] /\ subject[q] # r
      BY <1>1, <1>2, <1>6, <2>3 DEF IInv, TypeOK
    <3>2. pc[q] \in {"setLanguage", "unmapGEO1"} => subject[q] \in Readers
      BY DEF IInv, TypeOK
    <3>3. ~Used(subject[q]) /\ subject[q] \in Readers => ~Used(subject[q])'
      BY <1>7, <3>1 DEF Used
    <3>. QED
      BY <1>1, <1>3, <1>5, <2>3, <3>1, <3>2, <3>3
         DEF IInv, Private, TypeOK
  <2>. QED  BY <2>2, <2>3
<1>13. Backed'
  <2>1. SUFFICES ASSUME NEW s \in Readers, Used(s)', heap'[s].section # Heap
                 PROVE  (heap[Owner(s)].cleanup)'
    BY DEF Backed
  <2>2. s # r /\ Used(s) /\ s \in Allocated
    BY <1>6, <1>7, <2>1 DEF IInv, Reachable
  <2>3. Owner(s) \in Allocated /\ heap[Owner(s)].cleanup
    BY <1>5, <2>1, <2>2 DEF IInv, Backed, Owner, Reachable
  <2>4. Owner(s)' = Owner(s) /\ Owner(s) # r /\ Owner(s) \in Readers
    BY <1>1, <1>5, <2>2, <2>3 DEF Owner, Allocated
  <2>. QED  BY <1>5, <2>3, <2>4
<1>. QED  BY <1>4, <1>9, <1>10, <1>11, <1>12, <1>13 DEF IInv

-----------------------------------------------------------------------------
(* Steps that map or unmap *)
LEMMA MapFileStep ==
  ASSUME IInv, NEW p \in Procs, NEW f \in Files, NEW m \in Mappings,
         MapFile(p, f, m)
  PROVE  IInv'
<1>1. /\ pc[p] = "idle" /\ region[m] = Free
      /\ region' = [region EXCEPT ![m] = f]
      /\ pc' = [pc EXCEPT ![p] = "openMapped"]
      /\ opening' = [opening EXCEPT ![p] = m]
      /\ subject' = [subject EXCEPT ![p] = NoReader]
      /\ UNCHANGED <<heap, queue, held, cur>>
      /\ Allocated' = Allocated
  BY DEF MapFile, Goto, Allocated
<1>2. /\ subject' = subject /\ opening[p] = NoMapping /\ m # NoMapping
      /\ m \notin queue /\ \A q \in Procs : opening[q] # m
      /\ \A r \in Allocated : heap[r].cleanup => heap[r].section # m
  BY <1>1, DistinctAssumption DEF IInv, TypeOK, Busy, Responsible
<1>3. TypeOK'
  BY <1>1, <1>2 DEF IInv, TypeOK, Busy
<1>4. \A s : Used(s)' <=> Used(s)
  BY <1>1, <1>2 DEF Used, IInv, TypeOK
<1>5. Reachable'
  BY <1>1, <1>2, <1>4 DEF IInv, Reachable, TypeOK
<1>6. Distinct'
  BY <1>1, <1>2 DEF IInv, Distinct, TypeOK
<1>7. /\ region'[m] = f /\ opening'[p] = m
      /\ \A c \in Mappings : c # m => region'[c] = region[c]
      /\ \A q \in Procs : q # p => opening'[q] = opening[q]
  BY <1>1 DEF IInv, TypeOK
<1>8. Responsible'
  <2>1. \A q \in Procs : opening'[q] # NoMapping => region'[opening'[q]] \in Files
    BY <1>2, <1>7 DEF IInv, Responsible, TypeOK
  <2>2. \A c \in queue' : region'[c] \in Files
    BY <1>1, <1>2, <1>7 DEF IInv, Responsible, TypeOK
  <2>3. \A r \in Allocated' : heap'[r].cleanup =>
          region'[heap'[r].section] \in Files
            /\ region'[heap'[r].section] = heap'[r].file
    BY <1>1, <1>2, <1>7 DEF IInv, Responsible, Distinct
  <2>4. ASSUME NEW c \in Mappings, region'[c] \in Files
        PROVE  \/ \E q \in Procs : opening'[q] = c
               \/ c \in queue'
               \/ \E r \in Allocated' : heap'[r].cleanup /\ heap'[r].section = c
    <3>1. CASE c = m
      BY <1>7, <3>1
    <3>2. CASE c # m
      <4>1. region[c] \in Files /\ opening[p] # c
        BY <1>2, <1>7, <2>4, <3>2, DistinctAssumption
      <4>. QED  BY <1>1, <1>7, <4>1 DEF IInv, Responsible
    <3>. QED  BY <3>1, <3>2
  <2>. QED  BY <2>1, <2>2, <2>3, <2>4 DEF Responsible
<1>9. Private'
  <2>1. \A q \in Procs : pc'[q] \in {"setLanguage", "unmapGEO1"} =>
          /\ q # p /\ pc'[q] = pc[q] /\ opening'[q] = opening[q]
          /\ opening[q] \in Mappings /\ opening[q] # m
          /\ region'[opening[q]] = region[opening[q]]
    BY <1>1, <1>2, <1>7 DEF IInv, TypeOK, Busy
  <2>. QED  BY <1>1, <1>2, <1>4, <2>1 DEF IInv, Private
<1>10. Backed'
  BY <1>1, <1>4 DEF IInv, Backed, Owner
<1>. QED  BY <1>3, <1>5, <1>6, <1>8, <1>9, <1>10 DEF IInv

(* The ends of Open that unmap: the caller gets no Reader, or a Reader of a *)
(* GEO1 file, which is not in the mapping.                                 *)
LEMMA OpenUnmapsStep ==
  ASSUME IInv, NEW p \in Procs, NEW result \in {Free, Stuck},
         \/ ParseFails(p, result)
         \/ LanguageFails(p, result)
         \/ \E hasLanguage \in BOOLEAN : UnmapGEO1(p, result, hasLanguage)
  PROVE  IInv'
<1> DEFINE m == opening[p]
<1>1. /\ pc[p] \in Busy
      /\ region' = [region EXCEPT ![m] = result]
      /\ pc' = [pc EXCEPT ![p] = "idle"]
      /\ opening' = [opening EXCEPT ![p] = NoMapping]
      /\ subject' = [subject EXCEPT ![p] = NoReader]
      /\ UNCHANGED <<heap, queue, cur>>
      /\ \/ held' = held
         \/ /\ pc[p] = "unmapGEO1"
            /\ held' = [held EXCEPT ![p] = @ \union {subject[p]}]
      /\ Allocated' = Allocated
  BY DEF ParseFails, LanguageFails, UnmapGEO1, Hold, Munmap, Return, Goto,
         Allocated, Busy
<1>2. m \in Mappings /\ m # NoMapping /\ m \notin queue
  BY <1>1, DistinctAssumption DEF IInv, TypeOK, Busy, Distinct
<1>3. TypeOK'
  BY <1>1, <1>2 DEF IInv, TypeOK, Busy
<1>4. \A s \in Readers : Used(s)' =>
        \/ Used(s)
        \/ pc[p] = "unmapGEO1" /\ s = subject[p] /\ heap[s].section = Heap
  <2>1. pc[p] = "unmapGEO1" => heap[subject[p]].section = Heap
    BY DEF IInv, Private
  <2>. QED  BY <1>1, <2>1 DEF Used, IInv, TypeOK
<1>5. Reachable'
  BY <1>1, <1>4 DEF IInv, Reachable, TypeOK
<1>6. Distinct'
  BY <1>1, <1>2, DistinctAssumption DEF IInv, Distinct, TypeOK
<1>7. Responsible'
  <2>1. region'[m] \notin Files
    BY <1>1, <1>2, DistinctAssumption DEF IInv, TypeOK
  <2>2. \A q \in Procs : opening'[q] # NoMapping =>
          q # p /\ opening'[q] = opening[q] /\ opening[q] # m
            /\ opening[q] \in Mappings
    BY <1>1, <1>2 DEF IInv, Distinct, TypeOK
  <2>3. \A c \in Mappings : c # m => region'[c] = region[c]
    BY <1>1 DEF IInv, TypeOK
  <2>4. \A c \in Mappings : region'[c] \in Files =>
          \/ \E q \in Procs : opening'[q] = c
          \/ c \in queue'
          \/ \E r \in Allocated' : heap'[r].cleanup /\ heap'[r].section = c
    <3>1. SUFFICES ASSUME NEW c \in Mappings, region'[c] \in Files,
                          c \notin queue,
                          \A r \in Allocated : ~(heap[r].cleanup /\ heap[r].section = c)
                   PROVE  \E q \in Procs : opening'[q] = c
      BY <1>1
    <3>2. c # m /\ region[c] \in Files
      BY <2>1, <2>3, <3>1
    <3>3. PICK q \in Procs : opening[q] = c
      BY <3>1, <3>2 DEF IInv, Responsible
    <3>. QED  BY <1>1, <3>2, <3>3 DEF IInv, TypeOK
  <2>5. \A c \in queue' : region'[c] \in Files
    BY <1>1, <1>2, <2>3 DEF IInv, Responsible, TypeOK
  <2>6. \A r \in Allocated' : heap'[r].cleanup =>
          region'[heap'[r].section] \in Files
            /\ region'[heap'[r].section] = heap'[r].file
    BY <1>1, <2>3 DEF IInv, Responsible, Distinct
  <2>7. \A q \in Procs : opening'[q] # NoMapping => region'[opening'[q]] \in Files
    BY <2>2, <2>3 DEF IInv, Responsible
  <2>. QED  BY <2>4, <2>5, <2>6, <2>7 DEF Responsible
<1>8. Private'
  <2>1. ASSUME NEW q \in Procs, q # p
        PROVE  /\ pc'[q] = pc[q] /\ subject'[q] = subject[q]
               /\ opening'[q] = opening[q]
               /\ opening[q] # NoMapping => region'[opening[q]] = region[opening[q]]
    BY <1>1, <1>2, <2>1 DEF IInv, TypeOK, Distinct
  <2>2. pc'[p] = "idle" /\ subject'[p] = NoReader
    BY <1>1 DEF IInv, TypeOK
  <2>3. \A q \in Procs : pc[q] = "setLanguage" =>
          /\ subject[q] \in Readers /\ opening[q] # NoMapping
    BY DEF IInv, TypeOK, Busy
  <2>4. ASSUME NEW q \in Procs, pc'[q] = "setLanguage"
        PROVE  ~Used(subject[q])'
    <3>1. /\ q # p /\ pc[q] = "setLanguage" /\ subject'[q] = subject[q]
          /\ subject[q] \in Readers
      BY <2>1, <2>2, <2>3, <2>4
    <3>2. ~Used(subject[q]) /\ subject[p] # subject[q]
      BY <3>1 DEF IInv, Private
    <3>. QED  BY <1>1, <3>1, <3>2 DEF Used, IInv, TypeOK
  <2>. QED
    BY <1>1, <2>1, <2>2, <2>3, <2>4, DistinctAssumption DEF IInv, Private
<1>9. Backed'
  BY <1>1, <1>4 DEF IInv, Backed, Owner
<1>. QED  BY <1>3, <1>5, <1>6, <1>7, <1>8, <1>9 DEF IInv

LEMMA ReleaseStep ==
  ASSUME IInv, NEW m \in Mappings, Release(m)
  PROVE  IInv'
<1>1. PICK result \in {Free, Stuck} : ReleaseMapping(m, result)
  BY DEF Release
<1>2. /\ m \in queue /\ queue' = queue \ {m}
      /\ region' = [region EXCEPT ![m] = result]
      /\ UNCHANGED <<heap, pc, opening, subject, held, cur>>
      /\ Allocated' = Allocated
  BY <1>1 DEF ReleaseMapping, Munmap, Allocated
<1>3. /\ region'[m] \notin Files
      /\ \A c \in Mappings : c # m => region'[c] = region[c]
      /\ \A q \in Procs : opening[q] # m
      /\ \A r \in Allocated : heap[r].cleanup => heap[r].section # m
  BY <1>2, DistinctAssumption DEF IInv, TypeOK, Distinct
<1>4. TypeOK'
  BY <1>2 DEF IInv, TypeOK
<1>5. \A s : Used(s)' <=> Used(s)
  BY <1>2 DEF Used
<1>6. Reachable' /\ Distinct'
  BY <1>2, <1>5 DEF IInv, Reachable, Distinct
<1>7. Responsible'
  BY <1>2, <1>3 DEF IInv, Responsible, TypeOK, Distinct
<1>8. Private'
  <2>1. \A q \in Procs : pc[q] = "setLanguage" =>
          region'[opening[q]] = region[opening[q]]
    BY <1>3 DEF IInv, TypeOK, Busy
  <2>. QED  BY <1>2, <1>5, <2>1 DEF IInv, Private
<1>9. Backed'
  BY <1>2, <1>5 DEF IInv, Backed, Owner
<1>. QED  BY <1>4, <1>6, <1>7, <1>8, <1>9 DEF IInv

-----------------------------------------------------------------------------
(* The steps that share a mapping, and end the sharing *)
LEMMA AddCleanupStep ==
  ASSUME IInv, NEW p \in Procs, AddCleanup(p)
  PROVE  IInv'
<1> DEFINE r == subject[p]
           new == [heap[r] EXCEPT !.cleanup = TRUE]
<1>1. /\ pc[p] = "setLanguage"
      /\ heap' = [heap EXCEPT ![r] = new]
      /\ held' = [held EXCEPT ![p] = @ \union {r}]
      /\ pc' = [pc EXCEPT ![p] = "idle"]
      /\ opening' = [opening EXCEPT ![p] = NoMapping]
      /\ subject' = [subject EXCEPT ![p] = NoReader]
      /\ UNCHANGED <<region, queue, cur>>
  BY DEF AddCleanup, Hold, Return, Goto
<1>2. /\ r \in Readers /\ r \in Allocated /\ heap[r] \in ReaderSet
      /\ opening[p] \in Mappings /\ opening[p] \notin queue
      /\ region[opening[p]] \in Files
      /\ heap[r].section = opening[p] /\ heap[r].file = region[opening[p]]
      /\ heap[r].owner = NoReader /\ ~heap[r].cleanup /\ ~Used(r)
      /\ \A q \in Procs : subject[q] = r => p = q
      /\ \A v \in Allocated : heap[v].owner # r
  BY <1>1, DistinctAssumption
     DEF IInv, TypeOK, Busy, Reachable, Allocated, Private, Responsible, Distinct
<1>3. /\ new \in ReaderSet /\ new.cleanup
      /\ new.section = opening[p] /\ new.file = heap[r].file
      /\ new.owner = NoReader
  BY <1>2 DEF ReaderSet
<1>4. new # Unused
  BY <1>3, UnusedAssumption
<1> HIDE DEF new
<1>5. /\ Allocated' = Allocated
      /\ heap'[r] = new
      /\ \A s \in Readers : s # r => heap'[s] = heap[s]
  BY <1>1, <1>2, <1>4 DEF IInv, TypeOK, Allocated
<1>6. TypeOK'
  BY <1>1, <1>2, <1>3 DEF IInv, TypeOK, Busy
<1>7. \A s \in Readers : Used(s)' => Used(s) \/ s = r
  BY <1>1 DEF Used, IInv, TypeOK
<1>8. \A v \in Allocated : heap[v].owner \in Readers \union {NoReader}
  BY DEF IInv, TypeOK, Allocated, ReaderSet
<1>9. /\ opening'[p] = NoMapping /\ subject'[p] = NoReader
      /\ \A q \in Procs : q # p =>
           /\ opening'[q] = opening[q] /\ subject'[q] = subject[q]
           /\ pc'[q] = pc[q] /\ opening[q] # opening[p] /\ subject[q] # r
  BY <1>1, <1>2, DistinctAssumption DEF IInv, TypeOK, Distinct
<1>10. Reachable'
  BY <1>1, <1>2, <1>3, <1>5, <1>7, <1>8, <1>9
     DEF IInv, Reachable, TypeOK, Allocated
<1>11. Distinct'
  BY <1>1, <1>2, <1>3, <1>5, <1>9, DistinctAssumption
     DEF IInv, Distinct, Allocated, TypeOK
<1>12. Responsible'
  <2>1. ASSUME NEW c \in Mappings, region'[c] \in Files
        PROVE  \/ \E q \in Procs : opening'[q] = c
               \/ c \in queue'
               \/ \E s \in Allocated' : heap'[s].cleanup /\ heap'[s].section = c
    <3>1. CASE c = opening[p]
      BY <1>2, <1>3, <1>5, <3>1
    <3>2. CASE \E q \in Procs : q # p /\ opening[q] = c
      BY <1>9, <3>2
    <3>3. CASE c \in queue
      BY <1>1, <3>3
    <3>4. CASE \E s \in Allocated : heap[s].cleanup /\ heap[s].section = c
      BY <1>2, <1>5, <3>4 DEF Allocated
    <3>. QED  BY <1>1, <2>1, <3>1, <3>2, <3>3, <3>4 DEF IInv, Responsible
  <2>2. \A q \in Procs : opening'[q] # NoMapping => region'[opening'[q]] \in Files
    BY <1>1, <1>9 DEF IInv, Responsible
  <2>3. \A s \in Allocated' : heap'[s].cleanup =>
          region'[heap'[s].section] \in Files
            /\ region'[heap'[s].section] = heap'[s].file
    BY <1>1, <1>2, <1>3, <1>5 DEF IInv, Responsible, Allocated
  <2>4. \A c \in queue' : region'[c] \in Files
    BY <1>1 DEF IInv, Responsible
  <2>. QED  BY <2>1, <2>2, <2>3, <2>4 DEF Responsible
<1>13. Private'
  <2>1. ASSUME NEW q \in Procs, pc'[q] = "setLanguage"
        PROVE  ~Used(subject[q])'
    <3>1. /\ q # p /\ pc[q] = "setLanguage" /\ subject'[q] = subject[q]
          /\ subject[q] \in Readers /\ subject[q] # r
      BY <1>1, <1>9, <2>1 DEF IInv, TypeOK
    <3>2. ~Used(subject[q])
      BY <3>1 DEF IInv, Private
    <3>. QED  BY <1>1, <3>1, <3>2 DEF Used, IInv, TypeOK
  <2>2. \A q \in Procs : pc'[q] \in {"setLanguage", "unmapGEO1"} =>
          q # p /\ subject[q] \in Readers
    BY <1>1 DEF IInv, TypeOK
  <2>. QED
    BY <1>1, <1>2, <1>3, <1>5, <1>9, <2>1, <2>2, DistinctAssumption
       DEF IInv, Private, Allocated, TypeOK
<1>14. Backed'
  <2>1. SUFFICES ASSUME NEW s \in Readers, Used(s)', heap'[s].section # Heap
                 PROVE  (heap[Owner(s)].cleanup)'
    BY DEF Backed
  <2>2. CASE s = r
    BY <1>3, <1>5, <2>2 DEF Owner
  <2>3. CASE s # r
    <3>1. Used(s) /\ s \in Allocated /\ heap'[s] = heap[s]
      BY <1>5, <1>7, <2>1, <2>3 DEF IInv, Reachable
    <3>2. Owner(s) \in Allocated /\ heap[Owner(s)].cleanup
      BY <2>1, <3>1 DEF IInv, Backed, Owner, Reachable
    <3>3. Owner(s)' = Owner(s) /\ Owner(s) # r /\ Owner(s) \in Readers
      BY <1>2, <2>3, <3>1, <3>2 DEF Owner, Allocated
    <3>. QED  BY <1>5, <3>2, <3>3
  <2>. QED  BY <2>2, <2>3
<1>. QED  BY <1>6, <1>10, <1>11, <1>12, <1>13, <1>14 DEF IInv

LEMMA WithLanguageStep ==
  ASSUME IInv, NEW p \in Procs, NEW r \in Readers, NEW v \in Readers,
         WithLanguage(p, r, v)
  PROVE  IInv'
<1> DEFINE new == View(r)
<1>1. /\ r \in held[p] /\ v \notin Allocated
      /\ heap' = [heap EXCEPT ![v] = new]
      /\ held' = [held EXCEPT ![p] = @ \union {v}]
      /\ UNCHANGED <<region, queue, pc, opening, subject, cur>>
  BY DEF WithLanguage, Hold
<1>2. /\ Used(r) /\ r \in Allocated /\ heap[r] \in ReaderSet
      /\ Owner(r) \in Allocated /\ heap[Owner(r)].owner = NoReader
      /\ heap[Owner(r)].section = heap[r].section
      /\ heap[Owner(r)].file = heap[r].file
      /\ r # NoReader /\ v # NoReader
      /\ Owner(r) \in Readers /\ Owner(r) # NoReader
      /\ heap[r].section # Heap => heap[Owner(r)].cleanup
  BY <1>1, DistinctAssumption
     DEF IInv, TypeOK, Reachable, Used, Allocated, Owner, Backed
<1>3. /\ new \in ReaderSet /\ ~new.cleanup
      /\ new.section = heap[r].section /\ new.file = heap[r].file
      /\ new.owner = Owner(r)
  BY <1>2 DEF View, ReaderSet, Owner
<1>4. new # Unused
  BY <1>3, UnusedAssumption
<1> HIDE DEF new
<1>5. TypeOK'
  BY <1>1, <1>3 DEF IInv, TypeOK
<1>6. /\ Allocated' = Allocated \union {v}
      /\ heap'[v] = new
      /\ \A s \in Readers : s # v => heap'[s] = heap[s]
  BY <1>1, <1>4 DEF IInv, TypeOK, Allocated
<1>7. \A s \in Readers : Used(s)' => Used(s) \/ s = v
  BY <1>1 DEF Used, IInv, TypeOK
<1>8. /\ ~Used(v) /\ \A q \in Procs : subject[q] # v
      /\ \A w \in Allocated : heap[w].owner # v
  BY <1>1, Fresh
<1>9. \A w \in Allocated : heap[w].owner \in Readers \union {NoReader}
  BY DEF IInv, TypeOK, Allocated, ReaderSet
<1>10. Owner(r) # v /\ Allocated \subseteq Readers
  BY <1>1, <1>2 DEF Allocated
<1>11. Reachable'
  <2>1. ASSUME NEW w \in Allocated', heap'[w].owner # NoReader
        PROVE  /\ heap'[w].owner \in Allocated' /\ ~heap'[w].cleanup
               /\ heap'[heap'[w].owner].owner = NoReader
               /\ heap'[heap'[w].owner].section = heap'[w].section
               /\ heap'[heap'[w].owner].file = heap'[w].file
    <3>1. CASE w = v
      BY <1>2, <1>3, <1>6, <1>10, <3>1
    <3>2. CASE w # v
      <4>1. w \in Allocated /\ heap'[w] = heap[w] /\ heap[w].owner # v
        BY <1>6, <1>8, <1>10, <3>2
      <4>2. heap[w].owner \in Allocated /\ heap'[heap[w].owner] = heap[heap[w].owner]
        BY <1>6, <1>10, <2>1, <4>1 DEF IInv, Reachable
      <4>. QED  BY <1>6, <2>1, <4>1, <4>2 DEF IInv, Reachable
    <3>. QED  BY <3>1, <3>2
  <2>2. \A s \in Readers : Used(s)' => s \in Allocated'
    BY <1>6, <1>7 DEF IInv, Reachable
  <2>3. \A q \in Procs : subject'[q] # NoReader => subject'[q] \in Allocated'
    BY <1>1, <1>6 DEF IInv, Reachable
  <2>. QED  BY <2>1, <2>2, <2>3 DEF Reachable
<1>12. Distinct'
  BY <1>1, <1>3, <1>6 DEF IInv, Distinct, Allocated
<1>13. Responsible'
  BY <1>1, <1>3, <1>6 DEF IInv, Responsible, Allocated
<1>14. Private'
  <2>1. ASSUME NEW q \in Procs, pc[q] = "setLanguage"
        PROVE  /\ subject[q] \in Allocated /\ subject[q] # v /\ subject[q] # Owner(r)
               /\ ~Used(subject[q])'
    <3>1. subject[q] \in Allocated /\ subject[q] # v
      BY <1>8, <2>1 DEF IInv, TypeOK, Reachable
    <3>2. ~Used(subject[q]) /\ \A w \in Allocated : heap[w].owner # subject[q]
      BY <2>1 DEF IInv, Private
    <3>3. subject[q] # Owner(r)
      BY <1>2, <3>2 DEF Owner
    <3>4. ~Used(subject[q])'
      BY <1>1, <3>1, <3>2 DEF Used, IInv, TypeOK
    <3>. QED  BY <3>1, <3>3, <3>4
  <2>2. \A q \in Procs : pc[q] \in {"setLanguage", "unmapGEO1"} =>
          subject[q] \in Readers /\ subject[q] # v
    BY <1>8 DEF IInv, TypeOK
  <2>3. \A q \in Procs : pc[q] = "setLanguage" =>
          \A w \in Allocated' : heap'[w].owner # subject[q]
    BY <1>3, <1>6, <1>10, <2>1 DEF IInv, Private
  <2>. QED  BY <1>1, <1>6, <2>1, <2>2, <2>3 DEF IInv, Private
<1>15. Backed'
  <2>1. SUFFICES ASSUME NEW s \in Readers, Used(s)', heap'[s].section # Heap
                 PROVE  (heap[Owner(s)].cleanup)'
    BY DEF Backed
  <2>2. CASE s = v
    <3>1. Owner(s)' = Owner(r)
      BY <1>2, <1>3, <1>6, <2>2 DEF Owner
    <3>. QED  BY <1>2, <1>3, <1>6, <1>10, <2>1, <2>2, <3>1
  <2>3. CASE s # v
    <3>1. Used(s) /\ s \in Allocated /\ heap'[s] = heap[s]
      BY <1>6, <1>7, <2>1, <2>3 DEF IInv, Reachable
    <3>2. Owner(s) \in Allocated /\ heap[Owner(s)].cleanup
      BY <2>1, <3>1 DEF IInv, Backed, Owner, Reachable
    <3>3. Owner(s)' = Owner(s) /\ Owner(s) # v
      BY <1>1, <3>1, <3>2 DEF Owner
    <3>. QED  BY <1>6, <1>10, <3>2, <3>3
  <2>. QED  BY <2>2, <2>3
<1>. QED  BY <1>5, <1>11, <1>12, <1>13, <1>14, <1>15 DEF IInv

LEMMA CollectStep ==
  ASSUME IInv, NEW r \in Readers, Collect(r)
  PROVE  IInv'
<1>1. /\ r \in Allocated /\ r \notin Roots
      /\ \A v \in Allocated : heap[v].owner # r
      /\ heap' = [heap EXCEPT ![r] = Unused]
      /\ queue' = IF heap[r].cleanup THEN queue \union {heap[r].section}
                                     ELSE queue
      /\ UNCHANGED <<region, pc, opening, subject, held, cur>>
  BY DEF Collect, Collectable
<1>2. /\ ~Used(r) /\ \A q \in Procs : subject[q] # r
      /\ \A s \in Readers : Used(s)' <=> Used(s)
  BY <1>1 DEF Used, Roots
<1>3. /\ Allocated' = Allocated \ {r}
      /\ \A s \in Readers : s # r => heap'[s] = heap[s]
  BY <1>1 DEF IInv, TypeOK, Allocated
<1>4. TypeOK'
  BY <1>1 DEF IInv, TypeOK, Distinct
<1>5. Allocated \subseteq Readers
  BY DEF Allocated
<1>6. Reachable'
  BY <1>1, <1>2, <1>3, <1>5 DEF IInv, Reachable, TypeOK
<1>7. Distinct'
  BY <1>1, <1>3, <1>5 DEF IInv, Distinct
<1>8. Responsible'
  <2>1. ASSUME NEW c \in Mappings, region[c] \in Files
        PROVE  \/ \E q \in Procs : opening[q] = c
               \/ c \in queue'
               \/ \E s \in Allocated' : heap'[s].cleanup /\ heap'[s].section = c
    <3>1. CASE \E q \in Procs : opening[q] = c
      BY <3>1
    <3>2. CASE c \in queue
      BY <1>1, <3>2
    <3>3. CASE \E s \in Allocated : heap[s].cleanup /\ heap[s].section = c
      BY <1>1, <1>3, <1>5, <3>3
    <3>. QED  BY <2>1, <3>1, <3>2, <3>3 DEF IInv, Responsible
  <2>. QED  BY <1>1, <1>3, <1>5, <2>1 DEF IInv, Responsible
<1>9. Private'
  <2>1. \A q \in Procs : pc[q] \in {"setLanguage", "unmapGEO1"} =>
          subject[q] \in Readers /\ subject[q] # r
    BY <1>2 DEF IInv, TypeOK
  <2>2. ASSUME NEW q \in Procs, pc[q] = "setLanguage"
        PROVE  ~Used(subject[q])'
    BY <1>1, <2>2 DEF Used, IInv, Private
  <2>. QED  BY <1>1, <1>3, <1>5, <2>1, <2>2 DEF IInv, Private
<1>10. Backed'
  <2>1. SUFFICES ASSUME NEW s \in Readers, Used(s)', heap'[s].section # Heap
                 PROVE  (heap[Owner(s)].cleanup)'
    BY DEF Backed
  <2>2. Used(s) /\ s # r /\ s \in Allocated /\ heap'[s] = heap[s]
    BY <1>2, <1>3, <2>1 DEF IInv, Reachable
  <2>3. Owner(s) \in Readers /\ heap[Owner(s)].cleanup /\ Owner(s) # r
    BY <1>1, <1>5, <2>1, <2>2 DEF IInv, Backed, Owner, Reachable
  <2>4. Owner(s)' = Owner(s)
    BY <2>2 DEF Owner
  <2>. QED  BY <1>3, <2>3, <2>4
<1>. QED  BY <1>4, <1>6, <1>7, <1>8, <1>9, <1>10 DEF IInv

-----------------------------------------------------------------------------
(* The invariant, and what follows from it *)
LEMMA NextInv ==
  ASSUME IInv, [Next]_vars
  PROVE  IInv'
<1>1. ASSUME NEW p \in Procs, NEW f \in Files, NEW m \in Mappings,
             MapFile(p, f, m)
      PROVE  IInv'
  BY <1>1, MapFileStep
<1>2. ASSUME NEW p \in Procs, NEW result \in {Free, Stuck},
             \/ ParseFails(p, result) \/ LanguageFails(p, result)
             \/ \E hasLanguage \in BOOLEAN : UnmapGEO1(p, result, hasLanguage)
      PROVE  IInv'
  BY <1>2, OpenUnmapsStep
<1>3. ASSUME NEW p \in Procs, AddCleanup(p) \/ KeepAlive(p)
      PROVE  IInv'
  BY <1>3, AddCleanupStep, KeepAliveStep
<1>4. ASSUME NEW p \in Procs, NEW r \in Readers,
             \/ ParseGEO2(p, r) \/ ParseGEO1(p, r) \/ OpenHeap(p, r)
             \/ \E v \in Readers : WithLanguage(p, r, v)
      PROVE  IInv'
  BY <1>4, ParseGEO2Step, ParseGEO1Step, OpenHeapStep, WithLanguageStep
<1>5. ASSUME NEW p \in Procs, NEW r \in Readers,
             Lookup(p, r) \/ Close(p, r) \/ Swap(p, r) \/ Drop(p, r)
      PROVE  IInv'
  BY <1>5, LookupStep, SwapStep, DropStep, StutterStep DEF Close
<1>6. ASSUME NEW r \in Readers, Collect(r) PROVE IInv'
  BY <1>6, CollectStep
<1>7. ASSUME NEW m \in Mappings, Release(m) PROVE IInv'
  BY <1>7, ReleaseStep
<1>8. CASE UNCHANGED vars
  BY <1>8, StutterStep
<1>. QED
  BY <1>1, <1>2, <1>3, <1>4, <1>5, <1>6, <1>7, <1>8 DEF Next

LEMMA InvOnce == IInv => ReleasedOnce
<1>1. SUFFICES ASSUME IInv, NEW m \in Mappings
               PROVE  Cardinality(Opens(m)) + Cardinality(Cleanups(m))
                        + Cardinality(queue \intersect {m})
                      = IF region[m] \in Files THEN 1 ELSE 0
  BY DEF ReleasedOnce
<1>2. m # NoMapping
  BY DistinctAssumption
<1>3. ASSUME NEW p \in Opens(m)
      PROVE  Opens(m) = {p} /\ Cleanups(m) = {} /\ queue \intersect {m} = {}
  BY <1>1, <1>2, <1>3 DEF Opens, Cleanups, IInv, Distinct
<1>4. ASSUME NEW r \in Cleanups(m)
      PROVE  Opens(m) = {} /\ Cleanups(m) = {r} /\ queue \intersect {m} = {}
  BY <1>1, <1>2, <1>4 DEF Opens, Cleanups, IInv, Distinct
<1>5. ASSUME m \in queue
      PROVE  Opens(m) = {} /\ Cleanups(m) = {} /\ queue \intersect {m} = {m}
  BY <1>1, <1>2, <1>5 DEF Opens, Cleanups, IInv, Distinct
<1>6. region[m] \in Files <=> Opens(m) # {} \/ Cleanups(m) # {} \/ m \in queue
  BY <1>1, <1>2 DEF Opens, Cleanups, IInv, Responsible
<1>7. CASE region[m] \in Files
  <2>1. Cardinality({}) = 0 /\ \A x : Cardinality({x}) = 1
    BY FS_EmptySet, FS_Singleton
  <2>2. CASE Opens(m) # {}
    <3>1. /\ Cardinality(Opens(m)) = 1 /\ Cardinality(Cleanups(m)) = 0
          /\ Cardinality(queue \intersect {m}) = 0
      BY <1>3, <2>1, <2>2, Zenon
    <3>. QED  BY <1>7, <3>1
  <2>3. CASE Cleanups(m) # {}
    <3>1. /\ Cardinality(Opens(m)) = 0 /\ Cardinality(Cleanups(m)) = 1
          /\ Cardinality(queue \intersect {m}) = 0
      BY <1>4, <2>1, <2>3, Zenon
    <3>. QED  BY <1>7, <3>1
  <2>4. CASE m \in queue
    <3>1. /\ Cardinality(Opens(m)) = 0 /\ Cardinality(Cleanups(m)) = 0
          /\ Cardinality(queue \intersect {m}) = 1
      BY <1>5, <2>1, <2>4, Zenon
    <3>. QED  BY <1>7, <3>1
  <2>. QED  BY <1>6, <1>7, <2>2, <2>3, <2>4
<1>8. CASE region[m] \notin Files
  <2>1. Opens(m) = {} /\ Cleanups(m) = {} /\ queue \intersect {m} = {}
    BY <1>6, <1>8
  <2>. QED  BY <1>8, <2>1, FS_EmptySet
<1>. QED  BY <1>7, <1>8

(* The invariant holds whatever the program and the collector do. *)
THEOREM Invariance == Spec => []IInv
<1>. QED  BY InitInv, NextInv, PTL DEF Spec

(* The variables keep their types. *)
THEOREM TypeCorrect == Spec => []TypeOK
<1>1. IInv => TypeOK
  BY DEF IInv
<1>. QED  BY Invariance, <1>1, PTL

(* No method reads a mapping that was released or taken by another file,   *)
(* with any number of goroutines, views, reloads and calls of Close.       *)
THEOREM NoReadAfterUnmap == Spec => []ReadsAreSafe
<1>. QED  BY Invariance, InvSafe, PTL

(* Every mapping is released by exactly one party. *)
THEOREM NoDoubleUnmapNoLeak == Spec => []ReleasedOnce
<1>. QED  BY Invariance, InvOnce, PTL

-----------------------------------------------------------------------------
(* Opening an input.  OInv: a check that comes later has all those before  *)
(* it passed, and what they found holds of the same file.                  *)
(* The checks of each format that come after one, and what passed it.      *)
PastXRecords   == {"reader", "open"}
PastLangs      == {"xrecords"} \union PastXRecords
PastExtensions == {"langs"} \union PastLangs
PastIPv6       == {"extensions"} \union PastExtensions
PastIPv4       == {"ipv6"} \union PastIPv6
PastRecords    == {"ipv4"} \union PastIPv4
PastStrings    == {"records"} \union PastRecords
PastMeta       == {"strings"} \union PastStrings
PastCRC        == {"meta"} \union PastMeta
PastLengths    == {"crc"} \union PastCRC
PastDirectory  == {"lengths"} \union PastLengths
PastHeader     == {"directory"} \union PastDirectory

ExtensionsOK == PresenceOK /\ (hasF => XFieldsOK /\ CountsOK)

Checked2 ==
  /\ stage \in PastHeader => HeaderOK
  /\ stage \in PastDirectory => DirectoryOK
  /\ stage \in PastLengths => LengthsOK
  /\ stage \in PastStrings => StringsOK
  /\ stage \in PastRecords => RecordsOK
  /\ stage \in PastIPv4 => IPv4OK
  /\ stage \in PastIPv6 => IPv6OK
  /\ stage \in PastExtensions => ExtensionsOK
  /\ stage \in {"langs", "xrecords"} => hasF
  /\ stage = "langs" => Has(SecLangs)
  /\ stage \in PastLangs /\ hasF /\ Has(SecLangs) => LangsOK
  /\ stage \in PastXRecords /\ hasF => XRecordsOK

LEMMA SameFile ==
  ASSUME file' = file
  PROVE  /\ HeaderOK' = HeaderOK
         /\ DirectoryOK' = DirectoryOK
         /\ LengthsOK' = LengthsOK
         /\ StringsOK' = StringsOK
         /\ RecordsOK' = RecordsOK
         /\ IPv4OK' = IPv4OK
         /\ IPv6OK' = IPv6OK
         /\ ExtensionsOK' = ExtensionsOK
         /\ hasF' = hasF /\ Has(SecLangs)' = Has(SecLangs)
         /\ LangsOK' = LangsOK
         /\ XRecordsOK' = XRecordsOK
<1> USE DEF hdr, Dir, Entries, Has, Span, N, nStrings, nRecords, nV4, nV6, nExc, StrIdx, V4Idx, V4Start,
       ExcIdx, ExcLo, Lang, Bytes
<1>1. HeaderOK' = HeaderOK
  BY DEF HeaderOK
<1>2. DirectoryOK' = DirectoryOK
  BY DEF DirectoryOK, EntryOK, EndBefore, DirectoryEnd, Fits
<1>3. LengthsOK' = LengthsOK
  BY DEF LengthsOK
<1>4. StringsOK' = StringsOK
  BY DEF StringsOK
<1>5. RecordsOK' = RecordsOK
  BY DEF RecordsOK, IdsInRecord, EveryUint16, NarrowIds, WideIds, Rec
<1>6. IPv4OK' = IPv4OK
  BY DEF IPv4OK, EndsOK, BucketOK, BoundsOK
<1>7. IPv6OK' = IPv6OK
  BY DEF IPv6OK, ExceptionOK, Start128
<1>8. ExtensionsOK' = ExtensionsOK
  BY DEF ExtensionsOK, PresenceOK, hasF, XFieldsOK, CountsOK, XRecordsWidth, fields, nLangs
<1>9. hasF' = hasF /\ Has(SecLangs)' = Has(SecLangs)
  BY DEF hasF
<1>10. LangsOK' = LangsOK
  BY DEF LangsOK, LangOK, nLangs
<1>11. XRecordsOK' = XRecordsOK
  BY DEF XRecordsOK, XEntry, XIds, IdOffsets, entryWidth, nLangs, fields, hasF
<1>. QED  BY <1>1, <1>2, <1>3, <1>4, <1>5, <1>6, <1>7, <1>8, <1>9, <1>10, <1>11


-----------------------------------------------------------------------------
Table4OK == Ascending4 /\ IdsBelow(file.ids4, n4)
Table6OK == Ascending6 /\ IdsBelow(file.ids6, n6)

Checked1 ==
  /\ stage \in {"strings", "records", "ipv4", "ipv6", "trailing", "transcode", "open"} => Header1OK
  /\ stage \in {"ipv4", "ipv6", "trailing", "transcode", "open"} => rc > 0
  /\ stage \in {"ipv6", "trailing", "transcode", "open"} => Table4OK
  /\ stage \in {"trailing", "transcode", "open"} => Table6OK
  /\ stage = "open" => ~TooManyStrings
  /\ outcome = "ErrTooLarge" /\ file.size <= MaxFileSize => Header1OK /\ rc > 0 /\ TooManyStrings

Begun ==
  /\ IsInput(file) /\ off \in Nat /\ off <= file.size
  /\ stage \notin {"Open", "OpenBytes", "refused"} => Known /\ file.size <= MaxFileSize
  /\ stage # "refused" => outcome = "none"

OInv ==
  /\ Begun
  /\ file.magic = "GEO2" => Checked2
  /\ file.magic = "GEO1" => Checked1

LEMMA SameFile1 ==
  ASSUME file' = file
  PROVE  /\ Header1OK' = Header1OK /\ (rc > 0)' = (rc > 0)
         /\ Table4OK' = Table4OK
         /\ Table6OK' = Table6OK
         /\ TooManyStrings' = TooManyStrings
<1> USE DEF Profile1, ns, rc, n4, n6, Start1
<1>1. Header1OK' = Header1OK /\ (rc > 0)' = (rc > 0)
  BY DEF Header1OK
<1>2. Table4OK' = Table4OK
  BY DEF Table4OK, Ascending4, IdsBelow
<1>3. Table6OK' = Table6OK
  BY DEF Table6OK, Ascending6, IdsBelow
<1>4. TooManyStrings' = TooManyStrings
  BY DEF TooManyStrings, UsedStrings, Used16, AssignColumn, Assign, Field
<1>. QED  BY <1>1, <1>2, <1>3, <1>4


-----------------------------------------------------------------------------
LEMMA NaturalSizes ==
  /\ Word64 \in Nat \ {0} /\ MaxFileSize \in Nat /\ MaxUint16 \in Nat
  /\ Buckets \in Nat \ {0} /\ BucketSize \in Nat \ {0} /\ MaxUint24 \in Nat
  /\ 32 <= MaxFileSize /\ MaxFileSize < Word64
BY InputAssumption, Uint24Assumption DEF HeaderSize

(* A cursor that may take what it takes stays in its input.                *)
LEMMA TakenIs ==
  ASSUME NEW count \in Nat, NEW width \in Nat
  PROVE  Taken(count, width) \in Nat /\ Taken(1, 4) = 4 /\ Taken(1, 6) = 6
<1>1. count * width \in Int /\ 1 * 4 = 4 /\ 1 * 6 = 6
  OBVIOUS
<1>2. \A c \in Int : c % Word64 \in Int /\ 0 <= c % Word64
  BY NaturalSizes, DivMod
<1>3. 4 % Word64 = 4 /\ 6 % Word64 = 6
  BY NaturalSizes
<1>. QED  BY <1>1, <1>2, <1>3 DEF Taken

LEMMA StringEndIs ==
  ASSUME NEW o \in Nat, file.magic = "GEO1", IsInput(file)
  PROVE  StringEnd(o, ns) \in Nat
<1> DEFINE step == [q \in (1..ns) \X Nat |-> q[2] + 2 + Str(q[1] - 1).n]
           End == CHOOSE f : f = [j \in 0..ns |-> IF j = 0 THEN o ELSE f[j - 1] + 2 + Str(j - 1).n]
<1>1. ns \in Nat
  BY DEF IsInput, IsGEO1, ns
<1>2. \A j \in Nat : Str(j).n \in Nat
  <2>1. file.strs \in Seq([n : Nat, text : STRING])
    BY DEF IsInput, IsGEO1
  <2>2. \A k \in DOMAIN file.strs : file.strs[k].n \in Nat
    <3>1. DOMAIN file.strs = 1..Len(file.strs)
      BY <2>1
    <3>2. \A k \in 1..Len(file.strs) : file.strs[k] \in [n : Nat, text : STRING]
      BY <2>1, Element
    <3>. QED  BY <3>1, <3>2
  <2>. QED  BY <2>2 DEF Str, Elt
<1>3. step \in [(1..ns) \X Nat -> Nat]
  <2>1. ASSUME NEW q \in (1..ns) \X Nat PROVE q[2] + 2 + Str(q[1] - 1).n \in Nat
    <3>1. q[2] \in Nat /\ q[1] - 1 \in Nat
      BY <1>1
    <3>. QED  BY <1>2, <3>1
  <2>. QED  BY <2>1
<1>4. PICK F \in [0..ns -> Nat] : Recurses(F, o, step, ns)
  <2> HIDE DEF step
  <2>. QED  BY <1>1, <1>3, Recursion
<1>5. F = [j \in 0..ns |-> IF j = 0 THEN o ELSE F[j - 1] + 2 + Str(j - 1).n]
  <2>1. ASSUME NEW j \in 0..ns, j # 0
        PROVE  step[<<j, F[j - 1]>>] = F[j - 1] + 2 + Str(j - 1).n
    <3>1. j \in 1..ns /\ F[j - 1] \in Nat
      BY <1>1, <2>1
    <3>. QED  BY <3>1
  <2>2. \A j \in 0..ns : F[j] = IF j = 0 THEN o ELSE F[j - 1] + 2 + Str(j - 1).n
    BY <1>4, <2>1 DEF Recurses
  <2> HIDE DEF step
  <2>. QED  BY <2>2
<1>6. End = [j \in 0..ns |-> IF j = 0 THEN o ELSE End[j - 1] + 2 + Str(j - 1).n]
  BY <1>5
<1>7. \A j \in 0..ns : End[j] \in Nat
  <2> DEFINE T == {j \in 0..ns : End[j] \in Nat}
  <2>1. 0 \in T
    <3>1. 0 \in 0..ns
      BY <1>1
    <3> HIDE DEF End
    <3>. QED  BY <1>6, <3>1
  <2>2. ASSUME NEW j \in 0..(ns - 1), j \in T PROVE j + 1 \in T
    <3>1. j + 1 \in 0..ns /\ j + 1 # 0 /\ (j + 1) - 1 = j /\ j \in Nat
      BY <1>1
    <3>2. End[j + 1] = End[j] + 2 + Str(j).n
      BY <1>6, <3>1
    <3>. QED  BY <1>2, <2>2, <3>1, <3>2
  <2>3. 0..ns \subseteq T
    <3> HIDE DEF T
    <3>. QED  BY <1>1, <2>1, <2>2, UpTo
  <2>. QED  BY <2>3
<1>8. StringEnd(o, ns) = End[ns]
  BY DEF StringEnd
<1>9. ns \in 0..ns
  BY <1>1
<1> HIDE DEF End
<1>. QED  BY <1>7, <1>8, <1>9


-----------------------------------------------------------------------------
LEMMA InitOInv == OpenInit => OInv
<1>1. SUFFICES ASSUME OpenInit PROVE OInv
  OBVIOUS
<1>2. IsInput(file)
  BY <1>1, InputsAssumption DEF OpenInit
<1>3. Begun
  BY <1>1, <1>2 DEF Begun, OpenInit, IsInput
<1>4. Checked2
  BY <1>1 DEF OpenInit, Checked2, PastHeader, PastDirectory, PastLengths, PastCRC, PastMeta, PastStrings,
              PastRecords, PastIPv4, PastIPv6, PastExtensions, PastLangs, PastXRecords
<1>5. Checked1
  BY <1>1 DEF OpenInit, Checked1
<1>. QED  BY <1>3, <1>4, <1>5 DEF OInv

(* A step that leaves the file and the cursor alone. *)
LEMMA BegunStays ==
  ASSUME Begun, file' = file, off' \in Nat, off' <= file.size, Known, file.size <= MaxFileSize,
         stage' # "refused" => outcome' = "none"
  PROVE  Begun'
BY DEF Begun, Known

LEMMA RefusedIs ==
  ASSUME OInv, NEW err, Refuse(err), off' = off, file.magic = "GEO1" /\ err = "ErrTooLarge" /\ file.size <= MaxFileSize
           => Header1OK /\ rc > 0 /\ TooManyStrings
  PROVE  OInv'
<1>1. file' = file /\ stage' = "refused" /\ outcome' = err
  BY DEF Refuse
<1>2. Begun'
  BY <1>1 DEF OInv, Begun
<1>3. Checked2'
  BY <1>1 DEF Checked2, PastHeader, PastDirectory, PastLengths, PastCRC, PastMeta, PastStrings,
              PastRecords, PastIPv4, PastIPv6, PastExtensions, PastLangs, PastXRecords
<1>4. file.magic = "GEO1" => Checked1'
  BY <1>1, SameFile1 DEF Checked1
<1>. QED  BY <1>1, <1>2, <1>3, <1>4 DEF OInv

(* The checks that pass, in order. *)
LEMMA ParseKeeps ==
  ASSUME OInv, Parse
  PROVE  OInv'
<1> USE DEF PastHeader, PastDirectory, PastLengths, PastCRC, PastMeta, PastStrings,
            PastRecords, PastIPv4, PastIPv6, PastExtensions, PastLangs, PastXRecords
<1>1. /\ Begun /\ Checked2 /\ file.magic = "GEO2" /\ file' = file /\ off' = off
      /\ Known /\ file.size <= MaxFileSize /\ outcome = "none"
  <2>1. file.magic = "GEO2" /\ file' = file /\ off' = off /\ stage \notin {"Open", "OpenBytes", "refused"}
    BY DEF Parse, ParseHeader, CheckDirectory, CheckLengths, CheckCRC, ParseMeta, CheckStrings, CheckRecords,
           CheckIPv4, CheckIPv6, CheckExtensions, CheckLangs, CheckXRecords, Bind, GEO2At, Check, PassTo, Refuse
  <2>. QED  BY <2>1 DEF OInv, Begun
<1>2. ASSUME NEW err, Refuse(err) PROVE OInv'
  BY <1>1, <1>2, RefusedIs
<1>3. ASSUME NEW step, PassTo(step), step # "refused", Checked2' PROVE OInv'
  <2>1. Begun'
    BY <1>1, <1>3, BegunStays DEF PassTo, Begun
  <2>. QED  BY <1>1, <1>3, <2>1 DEF OInv
<1>4. /\ HeaderOK' = HeaderOK /\ DirectoryOK' = DirectoryOK /\ LengthsOK' = LengthsOK
      /\ StringsOK' = StringsOK /\ RecordsOK' = RecordsOK /\ IPv4OK' = IPv4OK /\ IPv6OK' = IPv6OK
      /\ ExtensionsOK' = ExtensionsOK /\ hasF' = hasF /\ Has(SecLangs)' = Has(SecLangs)
      /\ LangsOK' = LangsOK /\ XRecordsOK' = XRecordsOK
  BY <1>1, SameFile
<1>5. CASE ParseHeader
  <2>1. CASE PassTo("directory") /\ HeaderOK
    BY <1>1, <1>3, <1>4, <1>5, <2>1 DEF Checked2, PassTo
  <2>. QED  BY <1>2, <1>5, <2>1 DEF ParseHeader, Check
<1>6. CASE CheckDirectory
  <2>1. CASE PassTo("lengths") /\ DirectoryOK
    BY <1>1, <1>3, <1>4, <1>6, <2>1 DEF Checked2, PassTo, CheckDirectory, GEO2At
  <2>. QED  BY <1>2, <1>6, <2>1 DEF CheckDirectory, Check
<1>7. CASE CheckLengths
  <2>1. CASE PassTo("crc") /\ LengthsOK
    BY <1>1, <1>3, <1>4, <1>7, <2>1 DEF Checked2, PassTo, CheckLengths, GEO2At
  <2>. QED  BY <1>2, <1>7, <2>1 DEF CheckLengths, Check
<1>8. CASE CheckCRC
  <2>1. CASE PassTo("meta")
    BY <1>1, <1>3, <1>4, <1>8, <2>1 DEF Checked2, PassTo, CheckCRC, GEO2At
  <2>. QED  BY <1>2, <1>8, <2>1 DEF CheckCRC, Check
<1>9. CASE ParseMeta
  <2>1. CASE PassTo("strings")
    BY <1>1, <1>3, <1>4, <1>9, <2>1 DEF Checked2, PassTo, ParseMeta, GEO2At
  <2>. QED  BY <1>2, <1>9, <2>1 DEF ParseMeta, Check
<1>10. CASE CheckStrings
  <2>1. CASE PassTo("records") /\ StringsOK
    BY <1>1, <1>3, <1>4, <1>10, <2>1 DEF Checked2, PassTo, CheckStrings, GEO2At
  <2>. QED  BY <1>2, <1>10, <2>1 DEF CheckStrings, Check
<1>11. CASE CheckRecords
  <2>1. CASE PassTo("ipv4") /\ RecordsOK
    BY <1>1, <1>3, <1>4, <1>11, <2>1 DEF Checked2, PassTo, CheckRecords, GEO2At
  <2>. QED  BY <1>2, <1>11, <2>1 DEF CheckRecords, Check
<1>12. CASE CheckIPv4
  <2>1. CASE PassTo("ipv6") /\ IPv4OK
    BY <1>1, <1>3, <1>4, <1>12, <2>1 DEF Checked2, PassTo, CheckIPv4, GEO2At
  <2>. QED  BY <1>2, <1>12, <2>1 DEF CheckIPv4, Check
<1>13. CASE CheckIPv6
  <2>1. CASE PassTo("extensions") /\ IPv6OK
    BY <1>1, <1>3, <1>4, <1>13, <2>1 DEF Checked2, PassTo, CheckIPv6, GEO2At
  <2>. QED  BY <1>2, <1>13, <2>1 DEF CheckIPv6, Check
<1>14. CASE CheckExtensions
  <2>1. CASE PassTo("reader") /\ PresenceOK /\ ~hasF
    <3>1. ExtensionsOK
      BY <2>1 DEF ExtensionsOK
    <3>. QED  BY <1>1, <1>3, <1>4, <1>14, <2>1, <3>1 DEF Checked2, PassTo, CheckExtensions, GEO2At
  <2>2. CASE PassTo(IF Has(SecLangs) THEN "langs" ELSE "xrecords") /\ PresenceOK /\ hasF /\ XFieldsOK /\ CountsOK
    <3>1. ExtensionsOK
      BY <2>2 DEF ExtensionsOK
    <3>2. CASE Has(SecLangs)
      BY <1>1, <1>3, <1>4, <1>14, <2>2, <3>1, <3>2 DEF Checked2, PassTo, CheckExtensions, GEO2At
    <3>3. CASE ~Has(SecLangs)
      BY <1>1, <1>3, <1>4, <1>14, <2>2, <3>1, <3>3 DEF Checked2, PassTo, CheckExtensions, GEO2At
    <3>. QED  BY <3>2, <3>3
  <2>. QED  BY <1>2, <1>14, <2>1, <2>2 DEF CheckExtensions, Check
<1>15. CASE CheckLangs
  <2>1. CASE PassTo("xrecords") /\ LangsOK
    BY <1>1, <1>3, <1>4, <1>15, <2>1 DEF Checked2, PassTo, CheckLangs, GEO2At
  <2>. QED  BY <1>2, <1>15, <2>1 DEF CheckLangs, Check
<1>16. CASE CheckXRecords
  <2>1. CASE PassTo("reader") /\ XRecordsOK
    BY <1>1, <1>3, <1>4, <1>16, <2>1 DEF Checked2, PassTo, CheckXRecords, GEO2At
  <2>. QED  BY <1>2, <1>16, <2>1 DEF CheckXRecords, Check
<1>17. CASE Bind
  <2>1. PassTo("open")
    BY <1>17 DEF Bind
  <2>. QED  BY <1>1, <1>3, <1>4, <1>17, <2>1 DEF Checked2, PassTo, Bind, GEO2At
<1>. QED  BY <1>5, <1>6, <1>7, <1>8, <1>9, <1>10, <1>11, <1>12, <1>13, <1>14, <1>15, <1>16, <1>17 DEF Parse


LEMMA ConvertKeeps ==
  ASSUME OInv, Convert
  PROVE  OInv'
<1>1. /\ Begun /\ Checked1 /\ file.magic = "GEO1" /\ IsInput(file) /\ off \in Nat /\ off <= file.size
      /\ Known /\ file.size <= MaxFileSize /\ outcome = "none" /\ file.size \in Nat
  <2>1. file.magic = "GEO1" /\ stage \notin {"Open", "OpenBytes", "refused"}
    BY DEF Convert, CheckHeader1, ParseStrings1, ParseRecords1, ParseIPv4, ParseIPv6, CheckTrailing, Transcode, GEO1At
  <2>. QED  BY <2>1 DEF OInv, Begun, IsInput
<1>2. ASSUME NEW err, Refuse(err), off' = off, err # "ErrTooLarge" PROVE OInv'
  BY <1>1, <1>2, RefusedIs
<1>3. ASSUME NEW step, PassTo(step), step # "refused", Checked1', off' \in Nat, off' <= file.size PROVE OInv'
  <2>1. Begun'
    BY <1>1, <1>3, BegunStays DEF PassTo
  <2>. QED  BY <1>1, <1>3, <2>1 DEF OInv, PassTo
<1>4. ASSUME file' = file
      PROVE  /\ Header1OK' = Header1OK /\ (rc > 0)' = (rc > 0)
             /\ Table4OK' = Table4OK
             /\ Table6OK' = Table6OK
             /\ TooManyStrings' = TooManyStrings
  BY <1>4, SameFile1
<1>5. rc \in Nat /\ n4 \in Nat /\ n6 \in Nat /\ file.rw \in Nat
  BY <1>1 DEF IsInput, IsGEO1, rc, n4, n6
<1>6. ASSUME NEW ok, NEW step, NEW end, Advance(ok, step, end), ~ok PROVE OInv'
  BY <1>2, <1>6 DEF Advance, Check
<1>7. CASE CheckHeader1
  <2>1. CASE PassTo("strings") /\ off' = HeaderLen /\ Header1OK /\ file.size >= HeaderLen
    BY <1>1, <1>3, <1>4, <2>1 DEF Checked1, PassTo, HeaderLen
  <2>2. CASE Advance(Header1OK, "strings", HeaderLen) /\ Header1OK /\ ~(file.size < HeaderLen)
    BY <1>1, <2>1, <2>2 DEF Advance, Check, HeaderLen
  <2>. QED  BY <1>2, <1>6, <1>7, <2>2 DEF CheckHeader1
<1>8. CASE ParseStrings1
  <2>1. CASE Strings1OK /\ PassTo("records") /\ off' = StringEnd(off + 4, ns)
    <3>1. off + 4 \in Nat
      BY <1>1
    <3>2. off' \in Nat /\ off' <= file.size
      BY <1>1, <2>1, <3>1, StringEndIs DEF Strings1OK
    <3>. QED  BY <1>1, <1>3, <1>4, <1>8, <2>1, <3>2 DEF Checked1, PassTo, ParseStrings1, GEO1At
  <2>. QED  BY <1>6, <1>8, <2>1 DEF ParseStrings1, Advance, Check
<1>9. CASE ParseRecords1
  <2>1. CASE Records1OK /\ PassTo("ipv4") /\ off' = off + 6 + Taken(rc, file.rw)
    <3>1. Taken(rc, file.rw) \in Nat /\ Taken(1, 6) = 6
      BY <1>5, TakenIs
    <3>2. off' \in Nat /\ off' <= file.size
      BY <1>1, <2>1, <3>1 DEF Records1OK, Takes, Left
    <3>3. rc > 0
      BY <2>1 DEF Records1OK
    <3>. QED  BY <1>1, <1>3, <1>4, <1>9, <2>1, <3>2, <3>3 DEF Checked1, PassTo, ParseRecords1, GEO1At
  <2>. QED  BY <1>6, <1>9, <2>1 DEF ParseRecords1, Advance, Check
<1>10. CASE ParseIPv4
  <2>1. CASE /\ TableFits(n4, 4) /\ Table4OK
             /\ PassTo("ipv6") /\ off' = TableEnd(n4, 4)
    <3>1. Taken(n4, 4) \in Nat /\ Taken(1, 4) = 4
      BY <1>5, TakenIs
    <3>2. off' \in Nat /\ off' <= file.size
      BY <1>1, <2>1, <3>1 DEF TableFits, TableEnd, Takes, Left
    <3>. QED  BY <1>1, <1>3, <1>4, <1>10, <2>1, <3>2 DEF Checked1, PassTo, ParseIPv4, GEO1At
  <2>. QED  BY <1>6, <1>10, <2>1 DEF ParseIPv4, Advance, Check, Table4OK
<1>11. CASE ParseIPv6
  <2>1. CASE /\ TableFits(n6, 16) /\ Table6OK
             /\ PassTo("trailing") /\ off' = TableEnd(n6, 16)
    <3>1. Taken(n6, 4) \in Nat /\ Taken(n6, 16) \in Nat /\ Taken(1, 4) = 4
      BY <1>5, TakenIs
    <3>2. off' \in Nat /\ off' <= file.size
      BY <1>1, <2>1, <3>1 DEF TableFits, TableEnd, Takes, Left
    <3>. QED  BY <1>1, <1>3, <1>4, <1>11, <2>1, <3>2 DEF Checked1, PassTo, ParseIPv6, GEO1At
  <2>. QED  BY <1>6, <1>11, <2>1 DEF ParseIPv6, Advance, Check, Table6OK
<1>12. CASE CheckTrailing
  <2>1. CASE PassTo("transcode") /\ off' = off
    BY <1>1, <1>3, <1>4, <1>12, <2>1 DEF Checked1, PassTo, CheckTrailing, GEO1At
  <2>. QED  BY <1>6, <1>12, <2>1 DEF CheckTrailing, Advance, Check
<1>13. CASE Transcode
  <2>1. CASE TooManyStrings /\ Refuse("ErrTooLarge")
    BY <1>1, <1>13, <2>1, RefusedIs DEF Transcode, GEO1At, Checked1
  <2>2. CASE ~TooManyStrings /\ PassTo("open") /\ off' = off
    BY <1>1, <1>3, <1>4, <1>13, <2>2 DEF Checked1, PassTo, Transcode, GEO1At
  <2>. QED  BY <1>13, <2>1, <2>2 DEF Transcode
<1>. QED  BY <1>7, <1>8, <1>9, <1>10, <1>11, <1>12, <1>13 DEF Convert

(* The first check: the size and the magic. *)
LEMMA StartKeeps ==
  ASSUME OInv, Open \/ OpenBytes
  PROVE  OInv'
<1>1. /\ Begun /\ stage \in {"Open", "OpenBytes"} /\ outcome = "none" /\ off' = off
      /\ file.size \in Nat /\ off \in Nat /\ off <= file.size
  BY NaturalSizes DEF OInv, Begun, Open, OpenBytes, IsInput
<1>2. ASSUME NEW err, Refuse(err), err = "ErrTooLarge" => file.size > MaxFileSize PROVE OInv'
  <2>1. ~(file.size > MaxFileSize /\ file.size <= MaxFileSize)
    BY <1>1, NaturalSizes
  <2>. QED  BY <1>1, <1>2, <2>1, RefusedIs
<1>3. ASSUME PassTo("header"), Known, ~(file.size > MaxFileSize) PROVE OInv'
  <2>1. file.size <= MaxFileSize /\ file' = file /\ stage' = "header" /\ outcome' = "none"
    BY <1>1, <1>3, NaturalSizes DEF PassTo
  <2>2. Begun'
    BY <1>1, <1>3, <2>1, BegunStays
  <2>3. Checked2'
    BY <2>1 DEF Checked2, PastHeader, PastDirectory, PastLengths, PastCRC, PastMeta, PastStrings,
                PastRecords, PastIPv4, PastIPv6, PastExtensions, PastLangs, PastXRecords
  <2>4. Checked1'
    BY <2>1 DEF Checked1
  <2>. QED  BY <2>2, <2>3, <2>4 DEF OInv
<1>4. CASE OpenBytes
  BY <1>2, <1>3, <1>4 DEF OpenBytes
<1>5. CASE Open
  BY <1>2, <1>3, <1>5 DEF Open, Check
<1>. QED  BY <1>4, <1>5

LEMMA StutterKeeps ==
  ASSUME OInv, UNCHANGED openVars
  PROVE  OInv'
<1>1. file' = file /\ stage' = stage /\ outcome' = outcome /\ off' = off
  BY DEF openVars
<1>2. Begun'
  BY <1>1 DEF OInv, Begun, Known
<1>3. file.magic = "GEO2" => Checked2'
  BY <1>1, SameFile DEF OInv, Checked2
<1>4. file.magic = "GEO1" => Checked1'
  BY <1>1, SameFile1 DEF OInv, Checked1
<1>. QED  BY <1>1, <1>2, <1>3, <1>4 DEF OInv

(* Whatever the input, each check is made once those before it passed, and *)
(* the cursor stays in the input.                                          *)
THEOREM OpenInvariance == OpenSpec => []OInv
<1>1. OpenInit => OInv
  BY InitOInv
<1>2. OInv /\ [OpenNext]_openVars => OInv'
  BY ParseKeeps, ConvertKeeps, StartKeeps, StutterKeeps DEF OpenNext
<1>. QED  BY <1>1, <1>2, PTL DEF OpenSpec


-----------------------------------------------------------------------------
(* A table whose entries past its end are 0.                               *)
LEMMA AtIs ==
  ASSUME NEW s \in Seq(Nat), NEW k \in Int
  PROVE  /\ At(s, k) \in Nat
         /\ k \in 0..(Len(s) - 1) => At(s, k) = s[k + 1]
<1>1. DOMAIN s = 1..Len(s) /\ Len(s) \in Nat
  OBVIOUS
<1>2. CASE k + 1 \in DOMAIN s
  <2>1. s[k + 1] \in Nat
    BY <1>1, <1>2, Element
  <2>. QED  BY <1>2, <2>1 DEF At, Elt
<1>3. CASE k + 1 \notin DOMAIN s
  <2>1. k \notin 0..(Len(s) - 1)
    BY <1>1, <1>3
  <2>. QED  BY <1>3, <2>1 DEF At, Elt
<1>. QED  BY <1>2, <1>3

LEMMA MaxOfOne ==
  ASSUME NEW x \in Int
  PROVE  Max({x}) = x
BY DEF Max

(* What holds of each number and the next, and is transitive, holds of any *)
(* number and a greater one.                                               *)
LEMMA Chain ==
  ASSUME NEW n \in Int, NEW R, \A m \in 0..(n - 1) : <<m, m + 1>> \in R,
         \A a, b, c \in 0..n : <<a, b>> \in R /\ <<b, c>> \in R => <<a, c>> \in R
  PROVE  \A a, b \in 0..n : a < b => <<a, b>> \in R
<1>1. SUFFICES ASSUME NEW a \in 0..n, NEW b \in 0..n, a < b PROVE <<a, b>> \in R
  OBVIOUS
<1> DEFINE d == b - a - 1
           T == {m \in 0..d : <<a, a + 1 + m>> \in R}
<1>2. d \in Nat /\ a \in 0..(n - 1) /\ a + 1 + 0 = a + 1 /\ a + 1 + d = b
  BY <1>1
<1>3. 0 \in T
  BY <1>2
<1>4. ASSUME NEW m \in 0..(d - 1), m \in T PROVE m + 1 \in T
  <2>1. /\ a + 1 + m \in 0..(n - 1) /\ a + 1 + m \in 0..n /\ a + 1 + (m + 1) \in 0..n
        /\ a + 1 + (m + 1) = (a + 1 + m) + 1 /\ m + 1 \in 0..d
    BY <1>1, <1>2
  <2>2. <<a + 1 + m, a + 1 + (m + 1)>> \in R
    BY <2>1
  <2>3. <<a, a + 1 + m>> \in R
    BY <1>4
  <2>4. <<a, a + 1 + (m + 1)>> \in R
    BY <2>1, <2>2, <2>3
  <2>. QED  BY <2>1, <2>4
<1>5. 0..d \subseteq T
  <2> HIDE DEF T
  <2>. QED  BY <1>2, <1>3, <1>4, UpTo
<1>6. d \in 0..d
  BY <1>2
<1>7. d \in T
  BY <1>5, <1>6
<1>. QED  BY <1>2, <1>7

LEMMA Rises ==
  ASSUME NEW n \in Int, NEW F, \A m \in 0..n : F[m] \in Int,
         \A m \in 0..(n - 1) : F[m] <= F[m + 1]
  PROVE  \A a, b \in 0..n : a <= b => F[a] <= F[b]
<1> DEFINE R == {p \in (0..n) \X (0..n) : F[p[1]] <= F[p[2]]}
<1>1. ASSUME NEW a \in 0..n, NEW b \in 0..n PROVE <<a, b>> \in R <=> F[a] <= F[b]
  OBVIOUS
<1>2. \A m \in 0..(n - 1) : <<m, m + 1>> \in R
  <2>1. ASSUME NEW m \in 0..(n - 1) PROVE <<m, m + 1>> \in R
    <3>1. m \in 0..n /\ m + 1 \in 0..n
      OBVIOUS
    <3> HIDE DEF R
    <3>. QED  BY <1>1, <3>1
  <2>. QED  BY <2>1
<1>3. \A a, b, c \in 0..n : <<a, b>> \in R /\ <<b, c>> \in R => <<a, c>> \in R
  <2> HIDE DEF R
  <2>. QED  BY <1>1
<1>4. \A a, b \in 0..n : a < b => <<a, b>> \in R
  <2> HIDE DEF R
  <2>. QED  BY <1>2, <1>3, Chain
<1>5. ASSUME NEW a \in 0..n, NEW b \in 0..n, a <= b PROVE F[a] <= F[b]
  <2>1. CASE a = b
    BY <2>1
  <2>2. CASE a < b
    BY <1>1, <1>4, <2>2
  <2>. QED  BY <1>5, <2>1, <2>2
<1>. QED  BY <1>5


-----------------------------------------------------------------------------
(* Tables whose V4IDX splits the starts into buckets, each ascending.      *)
SplitV4(t) ==
  /\ t.nV4 \in Nat
  /\ \A g \in 0..Buckets : At(t.v4idx, g) \in Nat
  /\ At(t.v4idx, 0) = 0 /\ At(t.v4idx, Buckets) = t.nV4
  /\ \A g \in 0..(Buckets - 1) : At(t.v4idx, g) <= At(t.v4idx, g + 1)
  /\ \A i \in 0..(t.nV4 - 1) : At(t.v4starts, i) \in 0..(BucketSize - 1)
  /\ \A g \in 0..(Buckets - 1) : \A i \in (At(t.v4idx, g) + 1)..(At(t.v4idx, g + 1) - 1) :
       At(t.v4starts, i - 1) < At(t.v4starts, i)

LEMMA IdxRises ==
  ASSUME NEW t, SplitV4(t)
  PROVE  /\ \A a, b \in 0..Buckets : a <= b => At(t.v4idx, a) <= At(t.v4idx, b)
         /\ \A a \in 0..Buckets : At(t.v4idx, a) <= t.nV4
<1> DEFINE F == [g \in 0..Buckets |-> At(t.v4idx, g)]
<1>1. Buckets \in Nat
  BY NaturalSizes
<1>2. \A g \in 0..Buckets : F[g] = At(t.v4idx, g) /\ F[g] \in Nat
  BY DEF SplitV4
<1>3. \A g \in 0..(Buckets - 1) : F[g] <= F[g + 1]
  BY <1>1 DEF SplitV4
<1>4. \A a, b \in 0..Buckets : a <= b => F[a] <= F[b]
  <2> HIDE DEF F
  <2>. QED  BY <1>1, <1>2, <1>3, Rises
<1>5. Buckets \in 0..Buckets /\ \A a \in 0..Buckets : a <= Buckets
  BY <1>1
<1>6. At(t.v4idx, Buckets) = t.nV4
  BY DEF SplitV4
<1> HIDE DEF F
<1>. QED  BY <1>2, <1>4, <1>5, <1>6

(* Each start is in one bucket.                                            *)
LEMMA OneBucket ==
  ASSUME NEW t, SplitV4(t), NEW i \in 0..(t.nV4 - 1)
  PROVE  \E g \in 0..(Buckets - 1) :
           /\ BucketsOf(t, i) = {g}
           /\ At(t.v4idx, g) <= i /\ i < At(t.v4idx, g + 1)
           /\ Start4(t, i) = g * BucketSize + At(t.v4starts, i)
<1> DEFINE x(g) == At(t.v4idx, g)
<1>1. /\ Buckets \in Nat \ {0} /\ i \in Nat /\ t.nV4 \in Nat /\ i < t.nV4
      /\ x(0) = 0 /\ x(Buckets) = t.nV4
      /\ \A g \in 0..Buckets : x(g) \in Nat
  BY NaturalSizes DEF SplitV4
<1>2. \A a, b \in 0..Buckets : a <= b => x(a) <= x(b)
  BY IdxRises
<1>3. \E g \in 0..(Buckets - 1) : x(g) <= i /\ i < x(g + 1)
  <2>1. SUFFICES ASSUME \A g \in 0..(Buckets - 1) : x(g) <= i => x(g + 1) <= i PROVE FALSE
    <3>1. \A g \in 0..(Buckets - 1) : g + 1 \in 0..Buckets /\ x(g + 1) \in Nat
      BY <1>1
    <3> HIDE DEF x
    <3>. QED  BY <1>1, <3>1
  <2> DEFINE T == {m \in 0..Buckets : x(m) <= i}
  <2>2. 0 \in T
    BY <1>1
  <2>3. ASSUME NEW m \in 0..(Buckets - 1), m \in T PROVE m + 1 \in T
    BY <1>1, <2>1, <2>3
  <2>4. 0..Buckets \subseteq T
    <3> HIDE DEF T
    <3>. QED  BY <1>1, <2>2, <2>3, UpTo
  <2>5. Buckets \in T
    BY <1>1, <2>4
  <2> HIDE DEF x
  <2>. QED  BY <1>1, <2>5
<1>4. PICK g \in 0..(Buckets - 1) : x(g) <= i /\ i < x(g + 1)
  BY <1>3
<1>5. ASSUME NEW h \in 0..(Buckets - 1), x(h) <= i, i < x(h + 1) PROVE h = g
  <2>0. g + 1 \in 0..Buckets /\ h + 1 \in 0..Buckets /\ g \in 0..Buckets /\ h \in 0..Buckets
    BY <1>1
  <2>1. ~(g < h)
    <3>1. g + 1 <= h => x(g + 1) <= x(h)
      BY <1>2, <2>0
    <3>2. x(g + 1) \in Nat /\ x(h) \in Nat
      BY <1>1, <2>0
    <3> HIDE DEF x
    <3>. QED  BY <1>1, <1>4, <1>5, <3>1, <3>2
  <2>2. ~(h < g)
    <3>1. h + 1 <= g => x(h + 1) <= x(g)
      BY <1>2, <2>0
    <3>2. x(h + 1) \in Nat /\ x(g) \in Nat
      BY <1>1, <2>0
    <3> HIDE DEF x
    <3>. QED  BY <1>1, <1>4, <1>5, <3>1, <3>2
  <2>. QED  BY <2>1, <2>2
<1>6. BucketsOf(t, i) = {g}
  BY <1>4, <1>5 DEF BucketsOf
<1>7. Start4(t, i) = g * BucketSize + At(t.v4starts, i)
  BY <1>6, MaxOfOne DEF Start4
<1>. QED  BY <1>4, <1>6, <1>7

LEMMA SplitIsSearchable ==
  ASSUME NEW t, SplitV4(t)
  PROVE  SearchableV4(t)
<1> DEFINE x(g) == At(t.v4idx, g)
           s(i) == At(t.v4starts, i)
           B(i) == CHOOSE g \in 0..(Buckets - 1) :
                     /\ BucketsOf(t, i) = {g} /\ x(g) <= i /\ i < x(g + 1)
                     /\ Start4(t, i) = g * BucketSize + s(i)
           I == 0..(t.nV4 - 1)
<1>1. /\ Buckets \in Nat \ {0} /\ BucketSize \in Nat \ {0} /\ t.nV4 \in Nat
      /\ \A g \in 0..Buckets : x(g) \in Nat /\ x(g) <= t.nV4
      /\ \A i \in I : s(i) \in Nat /\ s(i) < BucketSize
  BY NaturalSizes, IdxRises DEF SplitV4
<1>2. \A a, b \in 0..Buckets : a <= b => x(a) <= x(b)
  BY IdxRises
<1>3. \A i \in I : /\ B(i) \in 0..(Buckets - 1) /\ BucketsOf(t, i) = {B(i)}
                   /\ x(B(i)) <= i /\ i < x(B(i) + 1)
                   /\ Start4(t, i) = B(i) * BucketSize + s(i)
  BY OneBucket
<1> HIDE DEF B
<1>4. ASSUME NEW i \in I, NEW g \in 0..Buckets
      PROVE  /\ i < x(g) => Start4(t, i) < g * BucketSize
             /\ Start4(t, i) < g * BucketSize => i < x(g)
             /\ Start4(t, i) \in Nat
  <2> DEFINE b == B(i)
  <2>1. b \in 0..(Buckets - 1) /\ b \in Nat /\ b + 1 \in 0..Buckets /\ b \in 0..Buckets /\ g \in Nat /\ i \in Nat
    BY <1>1, <1>3
  <2>2. Start4(t, i) = b * BucketSize + s(i) /\ x(b) <= i /\ i < x(b + 1) /\ s(i) \in Nat /\ s(i) < BucketSize
    BY <1>1, <1>3
  <2>3. x(g) \in Nat /\ x(b) \in Nat /\ x(b + 1) \in Nat
    BY <1>1, <2>1
  <2>4. b * BucketSize \in Nat /\ g * BucketSize \in Nat /\ (b + 1) * BucketSize = b * BucketSize + BucketSize
    BY <1>1, <2>1
  <2>5. CASE b < g
    <3>1. x(b + 1) <= x(g)
      BY <1>2, <2>1, <2>5
    <3>2. (b + 1) * BucketSize <= g * BucketSize
      BY <1>1, <2>1, <2>5, MulMono
    <3> HIDE DEF b, x, s
    <3>. QED  BY <1>1, <2>1, <2>2, <2>3, <2>4, <3>1, <3>2
  <2>6. CASE g <= b
    <3>1. x(g) <= x(b)
      BY <1>2, <2>1, <2>6
    <3>2. g * BucketSize <= b * BucketSize
      BY <1>1, <2>1, <2>6, MulMono
    <3> HIDE DEF b, x, s
    <3>. QED  BY <1>1, <2>1, <2>2, <2>3, <2>4, <3>1, <3>2
  <2> HIDE DEF b
  <2>. QED  BY <2>1, <2>5, <2>6
<1>5. \A i \in I : BucketsOf(t, i) # {}
  BY <1>3
<1>6. ASSUME NEW i \in I, NEW j \in I, i < j PROVE Start4(t, i) < Start4(t, j)
  <2> DEFINE b == B(i)
             c == B(j)
  <2>1. /\ b \in 0..(Buckets - 1) /\ b \in Nat /\ b + 1 \in 0..Buckets /\ b \in 0..Buckets
        /\ c \in 0..(Buckets - 1) /\ c \in Nat /\ c + 1 \in 0..Buckets /\ c \in 0..Buckets
    BY <1>1, <1>3
  <2>2. /\ Start4(t, i) = b * BucketSize + s(i) /\ x(b) <= i /\ i < x(b + 1)
        /\ s(i) \in Nat /\ s(i) < BucketSize
        /\ Start4(t, j) = c * BucketSize + s(j) /\ x(c) <= j /\ j < x(c + 1)
        /\ s(j) \in Nat /\ s(j) < BucketSize
    BY <1>1, <1>3
  <2>3. x(b) \in Nat /\ x(b + 1) \in Nat /\ x(c) \in Nat /\ x(c + 1) \in Nat /\ i \in Nat /\ j \in Nat
    BY <1>1, <2>1
  <2>4. /\ b * BucketSize \in Nat /\ c * BucketSize \in Nat
        /\ (b + 1) * BucketSize = b * BucketSize + BucketSize
    BY <1>1, <2>1
  <2>5. CASE b < c
    <3>1. (b + 1) * BucketSize <= c * BucketSize
      <4>1. b + 1 \in Int /\ c \in Int /\ b + 1 <= c /\ BucketSize \in Nat
        BY <1>1, <2>1, <2>5
      <4> HIDE DEF b, c
      <4>. QED  BY <4>1, MulMono
    <3> HIDE DEF b, c, x, s
    <3>. QED  BY <1>1, <2>1, <2>2, <2>4, <3>1
  <2>6. CASE c < b
    <3>1. x(c + 1) <= x(b)
      BY <1>2, <2>1, <2>6
    <3> HIDE DEF b, c, x, s
    <3>. QED  BY <1>6, <2>2, <2>3, <3>1
  <2>7. CASE b = c
    <3> DEFINE d == x(b + 1) - 1 - x(b)
               R == {p \in (0..d) \X (0..d) : s(x(b) + p[1]) < s(x(b) + p[2])}
    <3>1. d \in Int /\ i - x(b) \in 0..d /\ j - x(b) \in 0..d /\ i - x(b) < j - x(b)
          /\ x(b) + (i - x(b)) = i /\ x(b) + (j - x(b)) = j
      <4> HIDE DEF b, c, x, s
      <4>. QED  BY <1>6, <2>2, <2>3, <2>7
    <3>2. \A a \in 0..d : x(b) + a \in I /\ s(x(b) + a) \in Nat
      <4>1. x(b + 1) <= t.nV4
        BY <1>1, <2>1
      <4>2. \A a \in 0..d : x(b) + a \in I
        <5> HIDE DEF b, c, x, s
        <5>. QED  BY <1>1, <2>3, <4>1
      <4>. QED  BY <1>1, <4>2
    <3>3. ASSUME NEW m \in 0..(d - 1) PROVE <<m, m + 1>> \in R
      <4>1. m \in 0..d /\ m + 1 \in 0..d /\ x(b) + (m + 1) \in (x(b) + 1)..(x(b + 1) - 1)
            /\ (x(b) + (m + 1)) - 1 = x(b) + m
        <5> HIDE DEF b, c, x, s
        <5>. QED  BY <2>3
      <4>2. \A k \in (x(b) + 1)..(x(b + 1) - 1) : s(k - 1) < s(k)
        BY <2>1 DEF SplitV4
      <4>3. s(x(b) + m) < s(x(b) + (m + 1))
        <5>1. s((x(b) + (m + 1)) - 1) < s(x(b) + (m + 1))
          BY <4>1, <4>2
        <5>. QED  BY <4>1, <5>1
      <4> HIDE DEF s, x, b, d
      <4>. QED  BY <4>1, <4>3
    <3>4. ASSUME NEW a \in 0..d, NEW e \in 0..d, NEW f \in 0..d, <<a, e>> \in R, <<e, f>> \in R PROVE <<a, f>> \in R
      <4>1. s(x(b) + a) \in Nat /\ s(x(b) + e) \in Nat /\ s(x(b) + f) \in Nat
        BY <3>2
      <4>2. s(x(b) + a) < s(x(b) + e) /\ s(x(b) + e) < s(x(b) + f)
        <5> HIDE DEF s, x, b, d
        <5>. QED  BY <3>4
      <4> HIDE DEF s, x, b, d
      <4>. QED  BY <4>1, <4>2
    <3>5. <<i - x(b), j - x(b)>> \in R
      <4>1. \A a, e \in 0..d : a < e => <<a, e>> \in R
        <5> HIDE DEF R, d
        <5>. QED  BY <3>1, <3>3, <3>4, Chain
      <4> HIDE DEF R, d, x, s, b
      <4>. QED  BY <3>1, <4>1
    <3>6. s(i) < s(j)
      <4>1. s(x(b) + (i - x(b))) < s(x(b) + (j - x(b)))
        <5> HIDE DEF s, x, b, d
        <5>. QED  BY <3>5
      <4>. QED  BY <3>1, <4>1
    <3> HIDE DEF b, c, x, s
    <3>. QED  BY <2>2, <2>4, <2>7, <3>6
  <2> HIDE DEF b, c
  <2>. QED  BY <2>1, <2>5, <2>6, <2>7
<1>7. ASSUME NEW g \in 0..Buckets
      PROVE  x(g) = Cardinality({i \in I : Start4(t, i) < g * BucketSize})
  <2>1. {i \in I : Start4(t, i) < g * BucketSize} = {i \in I : i < x(g)}
    BY <1>4
  <2>2. {i \in I : i < x(g)} = 0..(x(g) - 1)
    <3>1. x(g) \in Nat /\ x(g) <= t.nV4
      BY <1>1
    <3> HIDE DEF x
    <3>. QED  BY <1>1, <3>1
  <2>3. Cardinality(0..(x(g) - 1)) = x(g)
    <3>1. x(g) \in Nat
      BY <1>1
    <3> HIDE DEF x
    <3>2. 0 \in Int /\ x(g) - 1 \in Int
      BY <3>1
    <3>3. Cardinality(0..(x(g) - 1)) = IF 0 > x(g) - 1 THEN 0 ELSE (x(g) - 1) - 0 + 1
      BY <3>2, FS_Interval
    <3>. QED  BY <3>1, <3>3
  <2>. QED  BY <2>1, <2>2, <2>3
<1>. QED  BY <1>5, <1>6, <1>7 DEF SearchableV4


-----------------------------------------------------------------------------
(* Tables whose exceptions ascend and whose starts do.                     *)
ListedV6(t) ==
  /\ t.nV6 \in Nat /\ t.nExc \in Nat
  /\ \A i \in 0..(t.nV6 - 1) : At(t.v6starts, i) \in Nat
  /\ \A e \in 0..(t.nExc - 1) :
       /\ At(t.v6excIdx, e) \in Nat /\ At(t.v6excLo, e) \in Nat
       /\ At(t.v6excIdx, e) < t.nV6 /\ At(t.v6excLo, e) # 0
  /\ \A e \in 1..(t.nExc - 1) : At(t.v6excIdx, e - 1) < At(t.v6excIdx, e)

LEMMA ExceptionsRise ==
  ASSUME NEW t, ListedV6(t)
  PROVE  \A e, f \in 0..(t.nExc - 1) : e < f => At(t.v6excIdx, e) < At(t.v6excIdx, f)
<1> DEFINE n == t.nExc - 1
           R == {p \in (0..n) \X (0..n) : At(t.v6excIdx, p[1]) < At(t.v6excIdx, p[2])}
<1>1. n \in Int /\ \A e \in 0..n : At(t.v6excIdx, e) \in Nat
  BY DEF ListedV6
<1>2. ASSUME NEW m \in 0..(n - 1) PROVE <<m, m + 1>> \in R
  <2>1. m \in 0..n /\ m + 1 \in 0..n /\ m + 1 \in 1..(t.nExc - 1) /\ (m + 1) - 1 = m
    BY <1>1
  <2>2. At(t.v6excIdx, (m + 1) - 1) < At(t.v6excIdx, m + 1)
    BY <2>1 DEF ListedV6
  <2>3. At(t.v6excIdx, m) < At(t.v6excIdx, m + 1)
    BY <2>1, <2>2
  <2> HIDE DEF n
  <2>. QED  BY <2>1, <2>3
<1>3. ASSUME NEW a \in 0..n, NEW b \in 0..n, NEW c \in 0..n, <<a, b>> \in R, <<b, c>> \in R PROVE <<a, c>> \in R
  <2>1. At(t.v6excIdx, a) < At(t.v6excIdx, b) /\ At(t.v6excIdx, b) < At(t.v6excIdx, c)
    BY <1>3
  <2>2. At(t.v6excIdx, a) \in Nat /\ At(t.v6excIdx, b) \in Nat /\ At(t.v6excIdx, c) \in Nat
    BY <1>1
  <2> HIDE DEF n
  <2>. QED  BY <2>1, <2>2
<1>4. \A a, b \in 0..n : a < b => <<a, b>> \in R
  <2> HIDE DEF R, n
  <2>. QED  BY <1>1, <1>2, <1>3, Chain
<1>. QED  BY <1>4

(* A start has at most one low half listed.                                *)
LEMMA OneLowHalf ==
  ASSUME NEW t, ListedV6(t), NEW i
  PROVE  /\ \A e \in 0..(t.nExc - 1) : At(t.v6excIdx, e) = i =>
              LowHalves(t, i) = {At(t.v6excLo, e)} /\ Start6(t, i) = <<At(t.v6starts, i), At(t.v6excLo, e)>>
         /\ ~(\E e \in 0..(t.nExc - 1) : At(t.v6excIdx, e) = i) => Start6(t, i) = <<At(t.v6starts, i), 0>>
<1>1. ASSUME NEW e \in 0..(t.nExc - 1), At(t.v6excIdx, e) = i
      PROVE  LowHalves(t, i) = {At(t.v6excLo, e)} /\ Start6(t, i) = <<At(t.v6starts, i), At(t.v6excLo, e)>>
  <2>1. ASSUME NEW f \in 0..(t.nExc - 1), At(t.v6excIdx, f) = i PROVE f = e
    <3>1. \A a, b \in 0..(t.nExc - 1) : a < b => At(t.v6excIdx, a) < At(t.v6excIdx, b)
      BY ExceptionsRise
    <3>2. i \in Nat /\ e \in Int /\ f \in Int
      BY <1>1 DEF ListedV6
    <3>3. ~(e < f) /\ ~(f < e)
      BY <1>1, <2>1, <3>1, <3>2
    <3>. QED  BY <3>2, <3>3
  <2>2. LowHalves(t, i) = {At(t.v6excLo, e)}
    BY <1>1, <2>1 DEF LowHalves
  <2>3. At(t.v6excLo, e) \in Int /\ LowHalves(t, i) # {}
    BY <1>1, <2>2 DEF ListedV6
  <2>4. Max(LowHalves(t, i)) = At(t.v6excLo, e)
    BY <2>2, <2>3, MaxOfOne
  <2>. QED  BY <2>2, <2>3, <2>4 DEF Start6
<1>2. ASSUME ~(\E e \in 0..(t.nExc - 1) : At(t.v6excIdx, e) = i) PROVE Start6(t, i) = <<At(t.v6starts, i), 0>>
  BY <1>2 DEF Start6, LowHalves
<1>. QED  BY <1>1, <1>2

LEMMA Start6Is ==
  ASSUME NEW t, ListedV6(t), NEW i \in 0..(t.nV6 - 1)
  PROVE  Start6(t, i) \in Nat \X Nat
<1>1. At(t.v6starts, i) \in Nat
  BY DEF ListedV6
<1>2. CASE \E e \in 0..(t.nExc - 1) : At(t.v6excIdx, e) = i
  <2>1. PICK e \in 0..(t.nExc - 1) : At(t.v6excIdx, e) = i
    BY <1>2
  <2>2. At(t.v6excLo, e) \in Nat
    BY DEF ListedV6
  <2>3. Start6(t, i) = <<At(t.v6starts, i), At(t.v6excLo, e)>>
    BY <2>1, OneLowHalf
  <2>. QED  BY <1>1, <2>2, <2>3
<1>3. CASE ~(\E e \in 0..(t.nExc - 1) : At(t.v6excIdx, e) = i)
  <2>1. Start6(t, i) = <<At(t.v6starts, i), 0>>
    BY <1>3, OneLowHalf
  <2>. QED  BY <1>1, <2>1
<1>. QED  BY <1>2, <1>3

LEMMA Less128Transitive ==
  ASSUME NEW a \in Nat \X Nat, NEW b \in Nat \X Nat, NEW c \in Nat \X Nat, Less128(a, b), Less128(b, c)
  PROVE  Less128(a, c)
BY DEF Less128

LEMMA ListedIsSearchable ==
  ASSUME NEW t, ListedV6(t), \A i \in 1..(t.nV6 - 1) : Less128(Start6(t, i - 1), Start6(t, i))
  PROVE  SearchableV6(t)
<1> DEFINE n == t.nV6 - 1
           R == {p \in (0..n) \X (0..n) : Less128(Start6(t, p[1]), Start6(t, p[2]))}
<1>1. n \in Int /\ \A e \in 0..n : Start6(t, e) \in Nat \X Nat
  BY Start6Is DEF ListedV6
<1>2. ASSUME NEW m \in 0..(n - 1) PROVE <<m, m + 1>> \in R
  <2>1. m \in 0..n /\ m + 1 \in 0..n /\ m + 1 \in 1..(t.nV6 - 1) /\ (m + 1) - 1 = m
    BY <1>1
  <2>2. Less128(Start6(t, (m + 1) - 1), Start6(t, m + 1))
    BY <2>1
  <2>3. Less128(Start6(t, m), Start6(t, m + 1))
    BY <2>1, <2>2
  <2> HIDE DEF n
  <2>. QED  BY <2>1, <2>3
<1>3. ASSUME NEW a \in 0..n, NEW b \in 0..n, NEW c \in 0..n, <<a, b>> \in R, <<b, c>> \in R PROVE <<a, c>> \in R
  <2>1. Less128(Start6(t, a), Start6(t, b)) /\ Less128(Start6(t, b), Start6(t, c))
    BY <1>3
  <2>2. Start6(t, a) \in Nat \X Nat /\ Start6(t, b) \in Nat \X Nat /\ Start6(t, c) \in Nat \X Nat
    BY <1>1
  <2>3. Less128(Start6(t, a), Start6(t, c))
    BY <2>1, <2>2, Less128Transitive
  <2> HIDE DEF n
  <2>. QED  BY <2>3
<1>4. \A a, b \in 0..n : a < b => <<a, b>> \in R
  <2> HIDE DEF R, n
  <2>. QED  BY <1>1, <1>2, <1>3, Chain
<1>5. \A i, j \in 0..(t.nV6 - 1) : i < j => Less128(Start6(t, i), Start6(t, j))
  BY <1>4
<1>. QED  BY <1>5, ExceptionsRise DEF SearchableV6, ListedV6


-----------------------------------------------------------------------------
(* What the values of a GEO2 input are, and the counts taken from them.    *)
GEO2Input == IsInput(file) /\ file.magic = "GEO2"

LEMMA Values2 ==
  ASSUME GEO2Input
  PROVE  /\ file.size \in Nat
         /\ \A i \in Int : /\ StrIdx(i) \in Nat /\ V4Idx(i) \in Nat /\ ExcIdx(i) \in Nat /\ ExcLo(i) \in Nat
                           /\ Lang(i) \in Nat /\ At(file.v4ids, i) \in Nat /\ At(file.v6ids, i) \in Nat
                           /\ At(file.v6starts, i) \in Nat
         /\ \A i \in Int : V4Start(i) \in 0..(BucketSize - 1)
         /\ hdr.count \in Nat /\ hdr.profile \in Nat /\ hdr.idWidth \in Nat
         /\ file.meta.ids \subseteq Nat /\ file.meta.language \in file.meta.ids
<1>1. IsGEO2(file) /\ file.size \in Nat
  BY DEF GEO2Input, IsInput
<1>2. \A s \in Seq(Nat) : \A i \in Int : At(s, i) \in Nat
  BY AtIs
<1>3. ASSUME NEW i \in Int
      PROVE  /\ StrIdx(i) \in Nat /\ V4Idx(i) \in Nat /\ ExcIdx(i) \in Nat /\ ExcLo(i) \in Nat
             /\ Lang(i) \in Nat /\ At(file.v4ids, i) \in Nat /\ At(file.v6ids, i) \in Nat
             /\ At(file.v6starts, i) \in Nat
  <2>1. /\ file.stridx \in Seq(Nat) /\ file.v4idx \in Seq(Nat) /\ file.v6excIdx \in Seq(Nat)
        /\ file.v6excLo \in Seq(Nat) /\ file.langs \in Seq(Nat) /\ file.v4ids \in Seq(Nat)
        /\ file.v6ids \in Seq(Nat) /\ file.v6starts \in Seq(Nat)
    BY <1>1 DEF IsGEO2
  <2>. QED  BY <1>2, <2>1 DEF StrIdx, V4Idx, ExcIdx, ExcLo, Lang
<1>4. ASSUME NEW i \in Int PROVE V4Start(i) \in 0..(BucketSize - 1)
  <2>1. file.v4starts \in Seq(0..(BucketSize - 1)) /\ 0 \in 0..(BucketSize - 1)
    BY <1>1, NaturalSizes DEF IsGEO2
  <2>2. DOMAIN file.v4starts = 1..Len(file.v4starts)
    BY <2>1
  <2>3. \A k \in DOMAIN file.v4starts : file.v4starts[k] \in 0..(BucketSize - 1)
    BY <2>1, <2>2, Element
  <2>. QED  BY <2>1, <2>3 DEF V4Start, At, Elt
<1>5. hdr.count \in Nat /\ hdr.profile \in Nat /\ hdr.idWidth \in Nat
  BY <1>1 DEF IsGEO2, hdr
<1>. QED  BY <1>1, <1>3, <1>4, <1>5 DEF IsGEO2

LEMMA Lengths2 ==
  ASSUME GEO2Input
  PROVE  /\ \A k \in Int : Dir(k) \in [id : Nat, off : Words64, len : Words64, crcOK : BOOLEAN]
         /\ \A id : N(id) \in Nat
         /\ \A id : N(id) = 0 \/ \E k \in Entries : N(id) = Dir(k).len
         /\ \A id : ~Has(id) => N(id) = 0
<1> DEFINE D == [id : Nat, off : Words64, len : Words64, crcOK : BOOLEAN]
<1>1. /\ file.dir \in Seq(D) /\ hdr.count \in Nat
      /\ [id |-> 0, off |-> 0, len |-> 0, crcOK |-> FALSE] \in D
  BY NaturalSizes, Values2 DEF GEO2Input, IsInput, IsGEO2, Words64
<1>2. DOMAIN file.dir = 1..Len(file.dir) /\ \A k \in DOMAIN file.dir : file.dir[k] \in D
  <2>1. DOMAIN file.dir = 1..Len(file.dir)
    BY <1>1
  <2> HIDE DEF D
  <2>. QED  BY <1>1, <2>1, Element
<1>3. ASSUME NEW k \in Int PROVE Dir(k) \in D
  <2>1. (k - 1) + 1 = k
    OBVIOUS
  <2> HIDE DEF D
  <2>. QED  BY <1>1, <1>2, <2>1 DEF Dir, Elt
<1>4. ASSUME NEW id, Has(id) PROVE N(id) \in Nat /\ \E k \in Entries : N(id) = Dir(k).len
  <2> DEFINE c == CHOOSE k \in DOMAIN file.dir : k <= hdr.count /\ file.dir[k].id = id
  <2>1. c \in DOMAIN file.dir /\ c <= hdr.count
    BY <1>4 DEF Has
  <2>2. N(id) = file.dir[c].len
    BY <1>4 DEF N, Span
  <2> HIDE DEF c
  <2>3. c \in Int /\ (c - 1) + 1 = c /\ c \in Entries
    BY <1>1, <1>2, <2>1 DEF Entries
  <2>4. Dir(c) = file.dir[c]
    BY <2>1, <2>3 DEF Dir, Elt
  <2>5. N(id) \in Nat
    BY <1>2, <2>1, <2>2 DEF Words64
  <2>. QED  BY <2>2, <2>3, <2>4, <2>5
<1>5. ASSUME NEW id, ~Has(id) PROVE N(id) = 0
  BY <1>5 DEF N, Span
<1>. QED  BY <1>3, <1>4, <1>5

LEMMA DivIs ==
  ASSUME NEW a \in Nat, NEW d \in Nat \ {0}
  PROVE  /\ a \div d \in Nat
         /\ (a \div d) * d <= a
         /\ a % d = 0 => (a \div d) * d = a
<1>1. /\ a \div d \in Int /\ a % d \in Int /\ a = d * (a \div d) + (a % d) /\ 0 <= a % d /\ a % d < d
  BY DivMod
<1> DEFINE q == a \div d
           r == a % d
           z == q * d
<1>2. q \in Int /\ r \in Int /\ z \in Int /\ a = z + r /\ 0 <= r /\ r < d
  BY <1>1
<1>3. q <= -1 => z <= -d
  <2>1. q <= -1 => z <= (-1) * d
    BY <1>1, MulMono
  <2>. QED  BY <2>1
<1> HIDE DEF q, r, z
<1>4. q \in Nat /\ z <= a /\ (r = 0 => z = a)
  BY <1>2, <1>3
<1>. QED  BY <1>4 DEF q, r, z

(* Word k of a section of n is in it.                                      *)
LEMMA WordFits ==
  ASSUME NEW n \in Nat, NEW w \in Nat, NEW k \in 0..(n - 1)
  PROVE  /\ k * w \in Nat /\ k * w <= k * w + w /\ k * w + w <= n * w /\ n * w \in Nat
<1>1. k \in Nat /\ n \in Nat /\ w \in Nat /\ k + 1 <= n /\ k + 1 \in Int
  OBVIOUS
<1>2. (k + 1) * w <= n * w
  BY <1>1, MulMono
<1>3. (k + 1) * w = k * w + w /\ k * w \in Nat /\ n * w \in Nat
  BY <1>1
<1>. QED  BY <1>1, <1>2, <1>3


LEMMA RecordWidthIs ==
  ASSUME NEW p \in Profiles
  PROVE  RecordWidth(p) \in Nat \ {0} /\ (p # ASN => RecordWidth(p) >= 10)
<1>1. p = 0 \/ p = 1 \/ p = 2 \/ p = 3
  BY DEF Profiles
<1>. QED  BY <1>1 DEF RecordWidth, ASN

LEMMA Counts2 ==
  ASSUME GEO2Input, HeaderOK, LengthsOK
  PROVE  /\ nStrings \in Nat /\ (nStrings + 1) * 4 = N(SecStrIdx)
         /\ nRecords \in Nat /\ nRecords * RecordWidth(hdr.profile) = N(SecRecords)
         /\ nV4 \in Nat /\ nV4 * 2 = N(SecV4Starts) /\ nV4 * hdr.idWidth = N(SecV4IDs)
         /\ nV6 \in Nat /\ nV6 * 8 = N(SecV6Starts) /\ nV6 * hdr.idWidth = N(SecV6IDs)
         /\ nExc \in Nat /\ nExc * 4 = N(SecV6ExcIdx) /\ nExc * 8 = N(SecV6ExcLo)
         /\ (Buckets + 1) * 4 = N(SecV4Idx)
         /\ RecordWidth(hdr.profile) \in Nat \ {0} /\ hdr.idWidth \in Nat
<1>1. \A id : N(id) \in Nat
  BY Lengths2
<1>2. RecordWidth(hdr.profile) \in Nat \ {0} /\ hdr.idWidth \in Nat
  BY RecordWidthIs, Values2 DEF HeaderOK
<1>3. /\ N(SecStrIdx) \in Nat /\ N(SecRecords) \in Nat /\ N(SecV4Starts) \in Nat
      /\ N(SecV6Starts) \in Nat /\ N(SecV6ExcIdx) \in Nat
  BY <1>1
<1>4. nStrings \in Nat /\ (nStrings + 1) * 4 = N(SecStrIdx)
  <2> DEFINE q == N(SecStrIdx) \div 4
  <2>1. q \in Nat /\ q * 4 = N(SecStrIdx) /\ N(SecStrIdx) >= 4
    BY <1>3, DivIs DEF LengthsOK
  <2>2. nStrings = q - 1
    BY DEF nStrings
  <2> HIDE DEF q
  <2>. QED  BY <2>1, <2>2
<1>5. nRecords \in Nat /\ nRecords * RecordWidth(hdr.profile) = N(SecRecords)
  BY <1>2, <1>3, DivIs DEF LengthsOK, nRecords
<1>6. nV4 \in Nat /\ nV4 * 2 = N(SecV4Starts)
  BY <1>3, DivIs DEF LengthsOK, nV4
<1>7. nV6 \in Nat /\ nV6 * 8 = N(SecV6Starts)
  BY <1>3, DivIs DEF LengthsOK, nV6
<1>8. nExc \in Nat /\ nExc * 4 = N(SecV6ExcIdx)
  BY <1>3, DivIs DEF LengthsOK, nExc
<1>9. /\ nV4 * hdr.idWidth = N(SecV4IDs) /\ nV6 * hdr.idWidth = N(SecV6IDs) /\ nExc * 8 = N(SecV6ExcLo)
      /\ (Buckets + 1) * 4 = N(SecV4Idx)
  BY DEF LengthsOK
<1>. QED  BY <1>2, <1>4, <1>5, <1>6, <1>7, <1>8, <1>9

LEMMA Tables2 ==
  /\ GEO2Tables.v4idx = file.v4idx /\ GEO2Tables.v4starts = file.v4starts /\ GEO2Tables.v4ids = file.v4ids
  /\ GEO2Tables.v6starts = file.v6starts /\ GEO2Tables.v6ids = file.v6ids
  /\ GEO2Tables.v6excIdx = file.v6excIdx /\ GEO2Tables.v6excLo = file.v6excLo
  /\ GEO2Tables.nStrings = nStrings /\ GEO2Tables.nRecords = nRecords
  /\ GEO2Tables.nV4 = nV4 /\ GEO2Tables.nV6 = nV6 /\ GEO2Tables.nExc = nExc
  /\ \A i \in 0..(nRecords - 1) :
       GEO2Tables.stringsOf[i] = NarrowIds(i) \union WideIds(i) \union (IF hasF THEN XIds(i) ELSE {})
BY DEF GEO2Tables

LEMMA Searchable2 ==
  ASSUME GEO2Input, HeaderOK, LengthsOK, IPv4OK, IPv6OK
  PROVE  SplitV4(GEO2Tables) /\ SearchableV4(GEO2Tables) /\ ListedV6(GEO2Tables) /\ SearchableV6(GEO2Tables)
<1> DEFINE t == GEO2Tables
<1>1. /\ t.nV4 = nV4 /\ t.nV6 = nV6 /\ t.nExc = nExc
      /\ \A g : At(t.v4idx, g) = V4Idx(g)
      /\ \A i : At(t.v4starts, i) = V4Start(i) /\ At(t.v6starts, i) = At(file.v6starts, i)
      /\ \A e : At(t.v6excIdx, e) = ExcIdx(e) /\ At(t.v6excLo, e) = ExcLo(e)
  BY Tables2 DEF V4Idx, V4Start, ExcIdx, ExcLo
<1> HIDE DEF t
<1>2. nV4 \in Nat /\ nV6 \in Nat /\ nExc \in Nat /\ Buckets \in Nat
  BY Counts2, NaturalSizes
<1>3. SplitV4(t)
  <2>1. /\ \A g \in 0..Buckets : V4Idx(g) \in Nat
        /\ \A i \in 0..(nV4 - 1) : V4Start(i) \in 0..(BucketSize - 1)
    <3>1. \A i \in Int : V4Idx(i) \in Nat /\ V4Start(i) \in 0..(BucketSize - 1)
      BY Values2
    <3>. QED  BY <1>2, <3>1
  <2>2. V4Idx(0) = 0 /\ V4Idx(Buckets) = nV4
    BY DEF IPv4OK, EndsOK
  <2>3. /\ \A g \in 0..(Buckets - 1) : V4Idx(g) <= V4Idx(g + 1)
        /\ \A g \in 0..(Buckets - 1) : \A i \in (V4Idx(g) + 1)..(V4Idx(g + 1) - 1) : V4Start(i - 1) < V4Start(i)
    BY DEF IPv4OK, BucketOK, BoundsOK
  <2>. QED  BY <1>1, <1>2, <2>1, <2>2, <2>3 DEF SplitV4
<1>4. ListedV6(t)
  <2>1. /\ \A i \in 0..(nV6 - 1) : At(file.v6starts, i) \in Nat
        /\ \A e \in 0..(nExc - 1) : ExcIdx(e) \in Nat /\ ExcLo(e) \in Nat
    <3>1. \A i \in Int : At(file.v6starts, i) \in Nat /\ ExcIdx(i) \in Nat /\ ExcLo(i) \in Nat
      BY Values2
    <3>. QED  BY <1>2, <3>1
  <2>2. \A e \in 0..(nExc - 1) : ExcIdx(e) < nV6 /\ ExcLo(e) # 0
    BY DEF IPv6OK, ExceptionOK
  <2>3. \A e \in 1..(nExc - 1) : ExcIdx(e - 1) < ExcIdx(e)
    <3>1. \A e \in 1..(nExc - 1) : e \in 0..(nExc - 1) /\ e > 0
      BY <1>2
    <3>. QED  BY <3>1 DEF IPv6OK, ExceptionOK
  <2>. QED  BY <1>1, <1>2, <2>1, <2>2, <2>3 DEF ListedV6
<1>5. ASSUME NEW i \in 0..(nV6 - 1) PROVE Start6(t, i) = Start128(i)
  <2>1. CASE \E e \in 0..(nExc - 1) : ExcIdx(e) = i
    <3> DEFINE e == CHOOSE j \in 0..(nExc - 1) : ExcIdx(j) = i
    <3>1. e \in 0..(nExc - 1) /\ ExcIdx(e) = i
      BY <2>1
    <3>2. Start128(i) = <<At(file.v6starts, i), ExcLo(e)>>
      BY <2>1 DEF Start128
    <3> HIDE DEF e
    <3>3. Start6(t, i) = <<At(t.v6starts, i), At(t.v6excLo, e)>>
      BY <1>1, <1>4, <3>1, OneLowHalf
    <3>. QED  BY <1>1, <3>2, <3>3
  <2>2. CASE ~(\E e \in 0..(nExc - 1) : ExcIdx(e) = i)
    <3>1. Start6(t, i) = <<At(t.v6starts, i), 0>>
      BY <1>1, <1>4, <2>2, OneLowHalf
    <3>. QED  BY <1>1, <2>2, <3>1 DEF Start128
  <2>. QED  BY <2>1, <2>2
<1>6. \A i \in 1..(t.nV6 - 1) : Less128(Start6(t, i - 1), Start6(t, i))
  <2>1. ASSUME NEW i \in 1..(nV6 - 1) PROVE Less128(Start6(t, i - 1), Start6(t, i))
    <3>1. i - 1 \in 0..(nV6 - 1) /\ i \in 0..(nV6 - 1)
      BY <1>2
    <3>2. Less128(Start128(i - 1), Start128(i))
      BY DEF IPv6OK
    <3>. QED  BY <1>5, <3>1, <3>2
  <2>. QED  BY <1>1, <2>1
<1>7. SearchableV4(t) /\ SearchableV6(t)
  BY <1>3, <1>4, <1>6, SplitIsSearchable, ListedIsSearchable
<1>. QED  BY <1>3, <1>4, <1>7 DEF t


-----------------------------------------------------------------------------
(* The layout of an entry.                                                 *)
LEMMA BlockWidthIs ==
  /\ BlockWidth(0) = 1 /\ BlockWidth(1) = 7 /\ BlockWidth(2) = 24 /\ BlockWidth(3) = 14
  /\ BlockWidth(4) = 3 /\ BlockWidth(5) = 2 /\ BlockWidth(6) = 1 /\ BlockWidth(7) = 1
  /\ \A b \in 0..7 : BlockWidth(b) \in Nat \ {0}
<1>1. /\ BlockWidth(0) = 1 /\ BlockWidth(1) = 7 /\ BlockWidth(2) = 24 /\ BlockWidth(3) = 14
      /\ BlockWidth(4) = 3 /\ BlockWidth(5) = 2 /\ BlockWidth(6) = 1 /\ BlockWidth(7) = 1
  BY DEF BlockWidth
<1>2. \A b \in 0..7 : b = 0 \/ b = 1 \/ b = 2 \/ b = 3 \/ b = 4 \/ b = 5 \/ b = 6 \/ b = 7
  OBVIOUS
<1>. QED  BY <1>1, <1>2

LEMMA FieldOffIs ==
  ASSUME NEW F
  PROVE  /\ FieldOff(F, 0) = 0
         /\ \A b \in 0..8 : FieldOff(F, b) \in Nat
         /\ \A b \in 0..7 : FieldOff(F, b + 1) = FieldOff(F, b) + (IF b \in F THEN BlockWidth(b) ELSE 0)
<1> DEFINE W(b) == IF b \in F THEN BlockWidth(b) ELSE 0
           step == [q \in (1..8) \X Nat |-> q[2] + W(q[1] - 1)]
           Off == CHOOSE f : f = [c \in 0..8 |-> IF c = 0 THEN 0 ELSE f[c - 1] + W(c - 1)]
<1>1. \A b \in 0..7 : W(b) \in Nat
  BY BlockWidthIs
<1>2. step \in [(1..8) \X Nat -> Nat]
  <2>1. ASSUME NEW q \in (1..8) \X Nat PROVE q[2] + W(q[1] - 1) \in Nat
    <3>1. q[2] \in Nat /\ q[1] - 1 \in 0..7
      OBVIOUS
    <3>2. W(q[1] - 1) \in Nat
      BY <1>1, <3>1
    <3> HIDE DEF W
    <3>. QED  BY <3>1, <3>2
  <2> HIDE DEF W
  <2>. QED  BY <2>1
<1>3. PICK G \in [0..8 -> Nat] : Recurses(G, 0, step, 8)
  <2> HIDE DEF step
  <2>. QED  BY <1>2, Recursion
<1>4. G = [c \in 0..8 |-> IF c = 0 THEN 0 ELSE G[c - 1] + W(c - 1)]
  <2>1. ASSUME NEW c \in 0..8, c # 0 PROVE step[<<c, G[c - 1]>>] = G[c - 1] + W(c - 1)
    <3>1. c \in 1..8 /\ G[c - 1] \in Nat
      BY <2>1
    <3> HIDE DEF W
    <3>. QED  BY <3>1
  <2>2. \A c \in 0..8 : G[c] = IF c = 0 THEN 0 ELSE G[c - 1] + W(c - 1)
    <3> HIDE DEF W
    <3>. QED  BY <1>3, <2>1 DEF Recurses
  <2> HIDE DEF step, W
  <2>. QED  BY <2>2
<1>5. Off = [c \in 0..8 |-> IF c = 0 THEN 0 ELSE Off[c - 1] + W(c - 1)]
  <2> HIDE DEF W
  <2>. QED  BY <1>4
<1>6. \A b : FieldOff(F, b) = Off[b]
  BY DEF FieldOff, NumFields
<1> HIDE DEF Off
<1>7. Off[0] = 0 /\ \A b \in 0..7 : Off[b + 1] = Off[b] + W(b)
  <2>1. 0 \in 0..8 /\ \A b \in 0..7 : b + 1 \in 0..8 /\ b + 1 # 0 /\ (b + 1) - 1 = b
    OBVIOUS
  <2> HIDE DEF W
  <2>. QED  BY <1>5, <2>1
<1>8. \A b \in 0..8 : Off[b] \in Nat
  <2> DEFINE T == {b \in 0..8 : Off[b] \in Nat}
  <2>1. 0 \in T
    BY <1>7
  <2>2. ASSUME NEW b \in 0..(8 - 1), b \in T PROVE b + 1 \in T
    <3>1. Off[b + 1] = Off[b] + W(b) /\ W(b) \in Nat /\ b + 1 \in 0..8
      BY <1>1, <1>7
    <3> HIDE DEF W
    <3>. QED  BY <2>2, <3>1
  <2>3. 0..8 \subseteq T
    <3> HIDE DEF T
    <3>. QED  BY <2>1, <2>2, UpTo
  <2>. QED  BY <2>3
<1>. QED  BY <1>6, <1>7, <1>8

LEMMA BlockFits ==
  ASSUME NEW F
  PROVE  /\ LangOff(F) \in Nat /\ LangOff(F) <= 53
         /\ \A b \in 0..7 : b \in F => FieldOff(F, b) + BlockWidth(b) <= LangOff(F)
         /\ F \subseteq KnownFields /\ LangOff(F) = 0 => F = {}
<1> DEFINE O == [b \in 0..8 |-> FieldOff(F, b)]
<1>1. \A b \in 0..8 : O[b] \in Nat /\ O[b] = FieldOff(F, b)
  BY FieldOffIs
<1>2. O[0] = 0 /\ \A b \in 0..7 : O[b + 1] = O[b] + (IF b \in F THEN BlockWidth(b) ELSE 0)
  BY FieldOffIs
<1>3. O[8] = LangOff(F)
  BY DEF LangOff, NumFields
<1> HIDE DEF O
<1>4. \A b \in 0..7 : BlockWidth(b) \in Nat \ {0}
  BY BlockWidthIs
<1>5. \A a, b \in 0..8 : a <= b => O[a] <= O[b]
  <2>1. \A b \in 0..(8 - 1) : O[b] <= O[b + 1]
    <3>1. ASSUME NEW b \in 0..7 PROVE O[b] <= O[b + 1]
      <4>1. O[b] \in Nat /\ BlockWidth(b) \in Nat /\ O[b + 1] = O[b] + (IF b \in F THEN BlockWidth(b) ELSE 0)
        BY <1>1, <1>2, <1>4
      <4>. QED  BY <4>1
    <3>. QED  BY <3>1
  <2>. QED  BY <1>1, <2>1, Rises
<1>6. ASSUME NEW b \in 0..7, b \in F PROVE O[b] + BlockWidth(b) <= O[8]
  <2>1. O[b + 1] = O[b] + BlockWidth(b)
    BY <1>2, <1>6
  <2>2. O[b + 1] <= O[8]
    BY <1>5
  <2>. QED  BY <2>1, <2>2
<1>7. O[8] <= 53
  <2>1. /\ O[1] = O[0] + (IF 0 \in F THEN BlockWidth(0) ELSE 0)
        /\ O[2] = O[1] + (IF 1 \in F THEN BlockWidth(1) ELSE 0)
        /\ O[3] = O[2] + (IF 2 \in F THEN BlockWidth(2) ELSE 0)
        /\ O[4] = O[3] + (IF 3 \in F THEN BlockWidth(3) ELSE 0)
    <3>1. O[0 + 1] = O[1] /\ O[1 + 1] = O[2] /\ O[2 + 1] = O[3] /\ O[3 + 1] = O[4]
      OBVIOUS
    <3>. QED  BY <1>2, <3>1
  <2>2. /\ O[5] = O[4] + (IF 4 \in F THEN BlockWidth(4) ELSE 0)
        /\ O[6] = O[5] + (IF 5 \in F THEN BlockWidth(5) ELSE 0)
        /\ O[7] = O[6] + (IF 6 \in F THEN BlockWidth(6) ELSE 0)
        /\ O[8] = O[7] + (IF 7 \in F THEN BlockWidth(7) ELSE 0)
    <3>1. O[4 + 1] = O[5] /\ O[5 + 1] = O[6] /\ O[6 + 1] = O[7] /\ O[7 + 1] = O[8]
      OBVIOUS
    <3>. QED  BY <1>2, <3>1
  <2>3. /\ O[0] \in Nat /\ O[1] \in Nat /\ O[2] \in Nat /\ O[3] \in Nat /\ O[4] \in Nat
        /\ O[5] \in Nat /\ O[6] \in Nat /\ O[7] \in Nat /\ O[8] \in Nat
    BY <1>1
  <2>4. O[1] <= 1 /\ O[2] <= 8 /\ O[3] <= 32 /\ O[4] <= 46
    BY <1>2, <2>1, <2>3, BlockWidthIs
  <2>. QED  BY <2>2, <2>3, <2>4, BlockWidthIs
<1>8. F \subseteq KnownFields /\ O[8] = 0 => F = {}
  <2>1. ASSUME F \subseteq KnownFields, O[8] = 0, NEW b \in F PROVE FALSE
    <3>1. b \in 0..7
      BY <2>1 DEF KnownFields, NumFields
    <3>2. O[b] + BlockWidth(b) <= O[8] /\ O[b] \in Nat /\ BlockWidth(b) \in Nat \ {0}
      BY <1>1, <1>4, <1>6, <3>1
    <3>. QED  BY <2>1, <3>2
  <2>. QED  BY <2>1
<1>9. 8 \in 0..8 /\ \A b \in 0..7 : b \in 0..8
  OBVIOUS
<1>. QED  BY <1>1, <1>3, <1>6, <1>7, <1>8, <1>9

LEMMA KindsFew ==
  ASSUME NEW p, NEW F
  PROVE  Len(Kinds(p, F)) \in 0..7
<1> DEFINE K(k) == IF HasKind(p, F, k) THEN <<k>> ELSE <<>>
           Names == {"country", "region", "city", "continent", "region2", "registered", "represented"}
<1>0. /\ "country" \in Names /\ "region" \in Names /\ "city" \in Names /\ "continent" \in Names
      /\ "region2" \in Names /\ "registered" \in Names /\ "represented" \in Names
  OBVIOUS
<1> HIDE DEF Names
<1>1. ASSUME NEW k \in Names PROVE K(k) \in Seq(Names) /\ Len(K(k)) <= 1 /\ Len(K(k)) \in Nat
  <2>1. CASE HasKind(p, F, k)
    <3>1. K(k) = <<k>>
      BY <2>1
    <3> HIDE DEF K
    <3>2. <<k>> \in Seq(Names) /\ Len(<<k>>) = 1
      OBVIOUS
    <3>. QED  BY <3>1, <3>2
  <2>2. CASE ~HasKind(p, F, k)
    <3>1. K(k) = <<>>
      BY <2>2
    <3> HIDE DEF K
    <3>2. <<>> \in Seq(Names) /\ Len(<<>>) = 0
      OBVIOUS
    <3>. QED  BY <3>1, <3>2
  <2>. QED  BY <2>1, <2>2
<1>2. \A s, t \in Seq(Names) : s \o t \in Seq(Names) /\ Len(s \o t) = Len(s) + Len(t)
  OBVIOUS
<1> HIDE DEF K
<1>3. ASSUME NEW s \in Seq(Names), NEW k \in Names, NEW n \in Nat, Len(s) <= n
      PROVE  s \o K(k) \in Seq(Names) /\ Len(s \o K(k)) <= n + 1
  <2>1. K(k) \in Seq(Names) /\ Len(K(k)) <= 1 /\ Len(K(k)) \in Nat /\ Len(s) \in Nat
    BY <1>1
  <2>2. s \o K(k) \in Seq(Names) /\ Len(s \o K(k)) = Len(s) + Len(K(k))
    BY <1>2, <2>1
  <2>. QED  BY <1>3, <2>1, <2>2
<1> DEFINE S1 == K("country")
           S2 == S1 \o K("region")
           S3 == S2 \o K("city")
           S4 == S3 \o K("continent")
           S5 == S4 \o K("region2")
           S6 == S5 \o K("registered")
           S7 == S6 \o K("represented")
<1>4. S1 \in Seq(Names) /\ Len(S1) <= 1
  BY <1>0, <1>1
<1>5. S2 \in Seq(Names) /\ Len(S2) <= 1 + 1
  <2> HIDE DEF S1
  <2>. QED  BY <1>0, <1>3, <1>4
<1>6. S3 \in Seq(Names) /\ Len(S3) <= 2 + 1
  <2> HIDE DEF S2
  <2>. QED  BY <1>0, <1>3, <1>5
<1>7. S4 \in Seq(Names) /\ Len(S4) <= 3 + 1
  <2> HIDE DEF S3
  <2>. QED  BY <1>0, <1>3, <1>6
<1>8. S5 \in Seq(Names) /\ Len(S5) <= 4 + 1
  <2> HIDE DEF S4
  <2>. QED  BY <1>0, <1>3, <1>7
<1>9. S6 \in Seq(Names) /\ Len(S6) <= 5 + 1
  <2> HIDE DEF S5
  <2>. QED  BY <1>0, <1>3, <1>8
<1>10. S7 \in Seq(Names) /\ Len(S7) <= 6 + 1
  <2> HIDE DEF S6
  <2>. QED  BY <1>0, <1>3, <1>9
<1>11. Kinds(p, F) = <<>> \/ Kinds(p, F) = S7
  BY DEF Kinds, K
<1>12. Len(S7) \in 0..7
  <2> HIDE DEF S7
  <2>1. Len(S7) \in Nat /\ Len(S7) <= 6 + 1
    BY <1>10
  <2>2. \A l \in Nat : l <= 6 + 1 => l \in 0..7
    OBVIOUS
  <2>. QED  BY <2>1, <2>2, Zenon
<1>13. Len(<<>>) \in 0..7
  OBVIOUS
<1> HIDE DEF S7
<1>. QED  BY <1>11, <1>12, <1>13


LEMMA DivBound ==
  ASSUME NEW a \in Nat, NEW d \in Nat \ {0}, NEW m \in Nat, a * d <= m
  PROVE  a <= m \div d
<1> DEFINE q == m \div d
           y == (q + 1) * d
           z == a * d
<1>1. q \in Int /\ y \in Int /\ z \in Int /\ m < y /\ z <= m
  <2>1. m \div d \in Int /\ m % d \in Int /\ m = d * (m \div d) + (m % d) /\ m % d < d
    BY DivMod
  <2>2. y = d * q + d
    BY <2>1
  <2>. QED  BY <2>1, <2>2
<1>2. q + 1 <= a => y <= z
  BY <1>1, MulMono
<1> HIDE DEF q, y, z
<1>3. a <= q
  BY <1>1, <1>2
<1>. QED  BY <1>3 DEF q

LEMMA FitsWidth ==
  ASSUME NEW a \in Nat, NEW b \in Nat, NEW c \in Nat, NEW d \in Nat, a <= c, b <= d
  PROVE  a * b <= c * d /\ a * b \in Nat /\ c * d \in Nat
<1>1. a * b <= c * b
  BY MulMono
<1>2. b * c <= d * c
  BY MulMono
<1>. QED  BY <1>1, <1>2

LEMMA SectionsFit ==
  ASSUME GEO2Input, DirectoryOK, file.size <= MaxFileSize
  PROVE  \A id : N(id) \in Nat /\ N(id) <= MaxFileSize
<1>1. SUFFICES ASSUME NEW id PROVE N(id) \in Nat /\ N(id) <= MaxFileSize
  OBVIOUS
<1>2. N(id) \in Nat /\ MaxFileSize \in Nat /\ file.size \in Nat
  BY Lengths2, NaturalSizes, Values2
<1>3. ASSUME NEW k \in Entries PROVE Dir(k).len <= file.size
  BY DEF DirectoryOK, EntryOK, Fits
<1>4. N(id) = 0 \/ \E k \in Entries : N(id) = Dir(k).len
  BY Lengths2
<1>. QED  BY <1>2, <1>3, <1>4

LEMMA Layout2 ==
  ASSUME GEO2Input, HeaderOK, DirectoryOK, LengthsOK, ExtensionsOK, hasF, file.size <= MaxFileSize
  PROVE  /\ fields \subseteq KnownFields
         /\ nLangs \in Nat \ {0} /\ (Has(SecLangs) => nLangs * 4 = N(SecLangs))
         /\ entryWidth = LangOff(fields) + 3 * ((nLangs - 1) * Len(Kinds(hdr.profile, fields)))
         /\ entryWidth \in Nat /\ N(SecXRecords) = entryWidth * nRecords
<1> DEFINE K == Len(Kinds(hdr.profile, fields))
           L == LangOff(fields)
           A == MaxFileSize \div 4
           B == MaxFileSize \div 10
<1>1. /\ fields \subseteq KnownFields /\ hdr.profile # ASN /\ hdr.profile \in Profiles
      /\ (Has(SecLangs) => N(SecLangs) % 4 = 0 /\ nLangs >= 2)
      /\ N(SecXRecords) = (XRecordsWidth * nRecords) % Word64
  BY DEF ExtensionsOK, PresenceOK, CountsOK, CheckFields, HeaderOK
<1>2. K \in Nat /\ K <= 7 /\ L \in Nat /\ L <= 53
  <2>1. K \in 0..7
    BY KindsFew
  <2>2. L \in Nat /\ L <= 53
    BY BlockFits
  <2> HIDE DEF K
  <2>. QED  BY <2>1, <2>2
<1>3. MaxFileSize \in Nat /\ A \in Nat /\ B \in Nat /\ Word64 \in Nat \ {0} /\ B >= 1
  <2>1. MaxFileSize \in Nat /\ Word64 \in Nat \ {0} /\ 1 * 10 <= MaxFileSize
    BY NaturalSizes
  <2>. QED  BY <2>1, DivIs, DivBound
<1>4. \A id : N(id) \in Nat /\ N(id) <= MaxFileSize
  BY SectionsFit
<1>5. nLangs \in Nat \ {0} /\ nLangs - 1 <= A /\ (Has(SecLangs) => nLangs * 4 = N(SecLangs))
  <2>1. CASE Has(SecLangs)
    <3>1. nLangs = N(SecLangs) \div 4 /\ N(SecLangs) \in Nat /\ N(SecLangs) <= MaxFileSize
      BY <1>4, <2>1 DEF nLangs
    <3>2. nLangs \in Nat /\ nLangs * 4 = N(SecLangs) /\ nLangs >= 2
      BY <1>1, <2>1, <3>1, DivIs
    <3>3. nLangs <= A
      BY <1>3, <3>1, <3>2, DivBound
    <3> HIDE DEF A
    <3>. QED  BY <1>3, <3>2, <3>3
  <2>2. CASE ~Has(SecLangs)
    <3>1. nLangs = 1
      BY <2>2 DEF nLangs
    <3> HIDE DEF A
    <3>. QED  BY <1>3, <2>2, <3>1
  <2>. QED  BY <2>1, <2>2
<1>6. nRecords \in Nat /\ nRecords <= B
  <2> DEFINE w == RecordWidth(hdr.profile)
  <2>1. nRecords \in Nat /\ nRecords * w = N(SecRecords) /\ w \in Nat \ {0} /\ w >= 10
    BY <1>1, Counts2, RecordWidthIs
  <2> HIDE DEF w
  <2>2. N(SecRecords) \in Nat /\ N(SecRecords) <= MaxFileSize
    BY <1>4
  <2>3. nRecords * 10 <= nRecords * w /\ nRecords * 10 \in Nat /\ nRecords * w \in Nat
    BY <2>1, FitsWidth
  <2>4. nRecords * 10 <= MaxFileSize
    <3> DEFINE y == nRecords * 10
               z == nRecords * w
    <3>1. y \in Nat /\ z \in Nat /\ y <= z /\ z <= MaxFileSize
      BY <2>1, <2>2, <2>3
    <3> HIDE DEF y, z
    <3>2. y <= MaxFileSize
      BY <1>3, <3>1
    <3>. QED  BY <3>2 DEF y
  <2>. QED  BY <1>3, <2>1, <2>4, DivBound
<1> DEFINE M == (nLangs - 1) * K
           W == L + 3 * M
<1>7. M \in Nat /\ M <= A * 7 /\ A * 7 \in Nat
  <2>1. nLangs - 1 \in Nat
    BY <1>5
  <2> HIDE DEF K, A
  <2>. QED  BY <1>2, <1>3, <1>5, <2>1, FitsWidth
<1>8. (nLangs - 1) * 3 * K = 3 * M
  <2> HIDE DEF K
  <2>. QED  BY <1>2, <1>5
<1>9. entryWidth = W /\ W \in Nat
  <2>1. entryWidth = L + (nLangs - 1) * 3 * K
    BY DEF entryWidth, Width
  <2> HIDE DEF M, K, L
  <2>. QED  BY <1>2, <1>7, <1>8, <2>1
<1>10. W <= 53 + 21 * A /\ 53 + 21 * A \in Nat
  <2> HIDE DEF M, K, L, A
  <2>. QED  BY <1>2, <1>3, <1>7
<1>11. W < Word64 /\ W * nRecords < Word64 /\ W * nRecords \in Nat
  <2> DEFINE C == 53 + 21 * A
  <2>1. C * B < Word64
    BY InputAssumption
  <2>2. C \in Nat /\ W \in Nat /\ W <= C
    BY <1>9, <1>10
  <2> HIDE DEF C, W, A, B
  <2>3. W * nRecords <= C * B /\ W * nRecords \in Nat /\ C * B \in Nat
    BY <1>3, <1>6, <2>2, FitsWidth
  <2>4. W * 1 <= C * B
    BY <1>3, <2>2, FitsWidth
  <2>5. W <= C * B
    BY <2>2, <2>4
  <2> DEFINE y == C * B
             z == W * nRecords
  <2>6. y \in Nat /\ y < Word64 /\ z <= y /\ W <= y /\ z \in Nat
    BY <2>1, <2>3, <2>5
  <2> HIDE DEF y, z
  <2>7. W < Word64 /\ z < Word64
    BY <1>3, <2>2, <2>6
  <2>. QED  BY <2>6, <2>7 DEF z
<1>12. XRecordsWidth = W
  <2>1. Width(hdr.profile, fields, 1) = L + (1 - 1) * 3 * K
    BY DEF Width
  <2>2. (1 - 1) * 3 * K = 0
    <3> HIDE DEF K
    <3>. QED  BY <1>2
  <2>3. Width(hdr.profile, fields, 1) = L
    <3> HIDE DEF L, K
    <3>. QED  BY <1>2, <2>1, <2>2
  <2>4. XRecordsWidth = (L + (nLangs - 1) * 3 * K) % Word64
    BY <2>3 DEF XRecordsWidth
  <2>5. L + (nLangs - 1) * 3 * K = W
    BY <1>8
  <2> HIDE DEF W
  <2>6. W % Word64 = W
    BY <1>3, <1>9, <1>11
  <2>. QED  BY <2>4, <2>5, <2>6
<1>13. N(SecXRecords) = W * nRecords
  <2> DEFINE z == W * nRecords
  <2>1. N(SecXRecords) = z % Word64
    BY <1>1, <1>12
  <2>2. z \in Nat /\ z < Word64
    BY <1>11
  <2> HIDE DEF z
  <2>3. z % Word64 = z
    BY <1>3, <2>2
  <2>. QED  BY <2>1, <2>3 DEF z
<1>. QED  BY <1>1, <1>5, <1>9, <1>13


(* Every id and every byte of flags of an entry is inside it.              *)
LEMMA OffsetsFit ==
  ASSUME GEO2Input, HeaderOK, DirectoryOK, LengthsOK, ExtensionsOK, hasF, file.size <= MaxFileSize
  PROVE  /\ \A o \in IdOffsets : o \in Nat /\ o + 3 <= entryWidth
         /\ \A o \in FlagOffsets : o \in Nat /\ o + 1 <= entryWidth
         /\ entryWidth = 0 => IdOffsets = {}
<1> DEFINE K == Len(Kinds(hdr.profile, fields))
           L == LangOff(fields)
           M == (nLangs - 1) * K
           Langs == {o \in L..(entryWidth - 1) : (o - L) % 3 = 0}
           Blocks == UNION {{FieldOff(fields, b) + o : o \in StringsIn(b)} : b \in fields}
<1>1. fields \subseteq 0..7 /\ entryWidth = L + 3 * M /\ entryWidth \in Nat
  BY Layout2 DEF KnownFields, NumFields
<1>2. /\ L \in Nat
      /\ \A b \in fields : FieldOff(fields, b) + BlockWidth(b) <= L /\ FieldOff(fields, b) \in Nat
      /\ L = 0 => fields = {}
  <2>1. \A b \in fields : b \in 0..7 /\ b \in 0..8
    BY <1>1
  <2>2. /\ L \in Nat /\ (fields \subseteq KnownFields /\ L = 0 => fields = {})
        /\ \A b \in 0..7 : b \in fields => FieldOff(fields, b) + BlockWidth(b) <= L
    BY BlockFits
  <2>3. \A b \in 0..8 : FieldOff(fields, b) \in Nat
    BY FieldOffIs
  <2>4. fields \subseteq KnownFields
    BY <1>1 DEF KnownFields, NumFields
  <2> HIDE DEF L
  <2>5. \A b \in fields : FieldOff(fields, b) + BlockWidth(b) <= L /\ FieldOff(fields, b) \in Nat
    BY <2>1, <2>2, <2>3
  <2>. QED  BY <2>2, <2>4, <2>5
<1>3. M \in Nat /\ L <= entryWidth
  <2>1. K \in 0..7 /\ nLangs \in Nat \ {0}
    BY KindsFew, Layout2
  <2>2. K \in Nat /\ nLangs - 1 \in Nat
    <3> HIDE DEF K
    <3>. QED  BY <2>1
  <2>3. M \in Nat
    <3> HIDE DEF K
    <3>. QED  BY <2>2
  <2> HIDE DEF M, L
  <2>. QED  BY <1>1, <1>2, <2>3
<1>4. ASSUME NEW b \in fields, NEW o \in StringsIn(b) PROVE o \in Nat /\ o + 3 <= BlockWidth(b)
  <2>1. b = 0 \/ b = 1 \/ b = 2 \/ b = 3 \/ b = 4 \/ b = 5 \/ b = 6 \/ b = 7
    BY <1>1
  <2>2. CASE b = 1
    <3>1. o = 0
      BY <2>2 DEF StringsIn, FieldContinent, FieldRegistered, FieldSubdivisions, FieldPostal, XContinent
    <3>. QED  BY <2>2, <3>1, BlockWidthIs
  <2>3. CASE b = 2
    <3>1. StringsIn(b) = {XRegistered[c] : c \in {"iso", "name", "repISO", "repName", "repType"}}
      BY <2>3 DEF StringsIn, FieldContinent, FieldRegistered, FieldSubdivisions, FieldPostal
    <3>2. o = 0 \/ o = 3 \/ o = 10 \/ o = 13 \/ o = 20
      BY <3>1 DEF XRegistered
    <3>. QED  BY <2>3, <3>2, BlockWidthIs
  <2>4. CASE b = 3
    <3>1. StringsIn(b) = {XRegions.iso2, XRegions.name2}
      BY <2>4 DEF StringsIn, FieldContinent, FieldRegistered, FieldSubdivisions, FieldPostal
    <3>2. o = 4 \/ o = 7
      BY <3>1 DEF XRegions
    <3>. QED  BY <2>4, <3>2, BlockWidthIs
  <2>5. CASE b = 4
    <3>1. o = 0
      BY <2>5 DEF StringsIn, FieldContinent, FieldRegistered, FieldSubdivisions, FieldPostal
    <3>. QED  BY <2>5, <3>1, BlockWidthIs
  <2>6. CASE b = 0 \/ b = 5 \/ b = 6 \/ b = 7
    BY <2>6 DEF StringsIn, FieldContinent, FieldRegistered, FieldSubdivisions, FieldPostal
  <2>. QED  BY <2>1, <2>2, <2>3, <2>4, <2>5, <2>6
<1>5. ASSUME NEW b \in fields, NEW o \in FlagByteIn(b) PROVE o \in Nat /\ o + 1 <= BlockWidth(b)
  <2>1. b = 0 \/ b = 1 \/ b = 2 \/ b = 3 \/ b = 4 \/ b = 5 \/ b = 6 \/ b = 7
    BY <1>1
  <2>2. CASE b = 0 \/ b = 6 \/ b = 7
    <3>1. o = 0
      BY <2>2 DEF FlagByteIn, FieldEU, FieldTraits, FieldLocation, FieldRegistered
    <3>. QED  BY <2>2, <3>1, BlockWidthIs
  <2>3. CASE b = 2
    <3>1. o = 23
      BY <2>3 DEF FlagByteIn, FieldEU, FieldTraits, FieldLocation, FieldRegistered, XRegistered
    <3>. QED  BY <2>3, <3>1, BlockWidthIs
  <2>4. CASE b = 1 \/ b = 3 \/ b = 4 \/ b = 5
    BY <2>4 DEF FlagByteIn, FieldEU, FieldTraits, FieldLocation, FieldRegistered
  <2>. QED  BY <2>1, <2>2, <2>3, <2>4
<1>6. ASSUME NEW b \in fields, NEW o \in Nat, NEW k \in Nat, o + k <= BlockWidth(b)
      PROVE  FieldOff(fields, b) + o \in Nat /\ FieldOff(fields, b) + o + k <= entryWidth
  <2>1. FieldOff(fields, b) + BlockWidth(b) <= L /\ FieldOff(fields, b) \in Nat
    BY <1>2
  <2>2. BlockWidth(b) \in Nat
    BY <1>1, BlockWidthIs
  <2> HIDE DEF L
  <2>. QED  BY <1>1, <1>2, <1>3, <1>6, <2>1, <2>2, SMTT(30)
<1>7. ASSUME NEW o \in Blocks PROVE o \in Nat /\ o + 3 <= entryWidth
  <2>0. PICK b \in fields : \E s \in StringsIn(b) : o = FieldOff(fields, b) + s
    OBVIOUS
  <2>1. PICK s \in StringsIn(b) : o = FieldOff(fields, b) + s
    BY <2>0
  <2>2. s \in Nat /\ s + 3 <= BlockWidth(b)
    BY <1>4
  <2>. QED  BY <1>6, <2>1, <2>2
<1>8. ASSUME NEW o \in Langs PROVE o \in Nat /\ o + 3 <= entryWidth
  <2> DEFINE d == o - L
             q == d \div 3
  <2>1. o \in L..(entryWidth - 1) /\ d % 3 = 0
    OBVIOUS
  <2> HIDE DEF L, M
  <2>2. o \in Nat /\ L <= o /\ o < entryWidth /\ d \in Int
    BY <1>1, <1>2, <2>1
  <2>3. q \in Int /\ d = 3 * q
    <3>1. d \div 3 \in Int /\ d = 3 * (d \div 3) + (d % 3) /\ d % 3 \in Int
      BY <2>2, DivMod
    <3>. QED  BY <2>1, <3>1
  <2>4. d < 3 * M /\ o = L + d
    BY <1>1, <1>2, <1>3, <2>2
  <2> HIDE DEF d, q
  <2>5. d + 3 <= 3 * M
    BY <1>3, <2>2, <2>3, <2>4
  <2>. QED  BY <1>1, <1>2, <1>3, <2>2, <2>4, <2>5
<1>9. \A o \in FlagOffsets : o \in Nat /\ o + 1 <= entryWidth
  <2>1. ASSUME NEW o \in FlagOffsets PROVE o \in Nat /\ o + 1 <= entryWidth
    <3>0. PICK b \in fields : \E s \in FlagByteIn(b) : o = FieldOff(fields, b) + s
      BY DEF FlagOffsets
    <3>1. PICK s \in FlagByteIn(b) : o = FieldOff(fields, b) + s
      BY <3>0
    <3>2. s \in Nat /\ s + 1 <= BlockWidth(b)
      BY <1>5
    <3>. QED  BY <1>6, <3>1, <3>2
  <2>. QED  BY <2>1
<1>10. IdOffsets = Blocks \union Langs
  BY DEF IdOffsets
<1>11. ASSUME entryWidth = 0 PROVE IdOffsets = {}
  <2>1. \A o \in IdOffsets : o \in Nat /\ o + 3 <= 0
    <3> HIDE DEF Blocks, Langs
    <3>. QED  BY <1>7, <1>8, <1>10, <1>11
  <2>. QED  BY <2>1
<1> HIDE DEF Blocks, Langs
<1>. QED  BY <1>7, <1>8, <1>9, <1>10, <1>11


(* The values of a record and of an entry are natural numbers, and 0 where *)
(* a record or an entry is zero.                                           *)
LEMMA RecordIs ==
  ASSUME GEO2Input, NEW i \in Int
  PROVE  /\ Rec(i).narrow \in Seq(Nat) /\ Rec(i).wide \in Nat
         /\ NarrowIds(i) \subseteq 0..MaxUint16 /\ WideIds(i) \subseteq Nat
         /\ AllZero(Rec(i)) => NarrowIds(i) \subseteq {0} /\ WideIds(i) \subseteq {0}
<1>1. file.recs \in Seq([narrow : Seq(Nat), wide : Nat, rest : Nat])
  BY DEF GEO2Input, IsInput, IsGEO2
<1>2. Rec(i).narrow \in Seq(Nat) /\ Rec(i).wide \in Nat
  <2>1. CASE i + 1 \in DOMAIN file.recs
    <3> DEFINE R == [narrow : Seq(Nat), wide : Nat, rest : Nat]
    <3>1. file.recs[i + 1] \in R
      <4>1. DOMAIN file.recs = 1..Len(file.recs)
        BY <1>1
      <4> HIDE DEF R
      <4>. QED  BY <1>1, <2>1, <4>1, Element DEF R
    <3>2. Rec(i) = file.recs[i + 1]
      BY <2>1 DEF Rec, Elt
    <3>. QED  BY <3>1, <3>2
  <2>2. CASE i + 1 \notin DOMAIN file.recs
    <3>1. Rec(i) = ZeroRecord
      BY <2>2 DEF Rec, Elt
    <3>2. <<>> \in Seq(Nat)
      OBVIOUS
    <3>. QED  BY <3>1, <3>2 DEF ZeroRecord
  <2>. QED  BY <2>1, <2>2
<1>3. ASSUME NEW f \in Int
      PROVE  /\ At(Rec(i).narrow, f) \in Nat
             /\ At(Rec(i).narrow, f) % (MaxUint16 + 1) \in 0..MaxUint16
             /\ AllZero(Rec(i)) => At(Rec(i).narrow, f) % (MaxUint16 + 1) = 0
  <2> DEFINE x == At(Rec(i).narrow, f)
             m == MaxUint16 + 1
  <2>1. x \in Nat
    BY <1>2, AtIs
  <2>2. m \in Nat \ {0}
    BY NaturalSizes
  <2>3. x % m \in Int /\ 0 <= x % m /\ x % m < m
    <3> HIDE DEF x, m
    <3>. QED  BY <2>1, <2>2, DivMod
  <2>4. x % m \in 0..MaxUint16
    BY <2>3, NaturalSizes
  <2>5. ASSUME AllZero(Rec(i)) PROVE x % m = 0
    <3>1. x = 0
      BY <2>5 DEF AllZero, At, Elt, Range
    <3> HIDE DEF x, m
    <3>. QED  BY <2>2, <3>1
  <2>. QED  BY <2>1, <2>4, <2>5
<1>4. ASSUME NEW id \in NarrowIds(i)
      PROVE  id \in 0..MaxUint16 /\ (AllZero(Rec(i)) => id = 0)
  <2>1. hdr.profile \in Nat
    BY Values2
  <2>2. PICK f \in 0..(NarrowCount(hdr.profile) - 1) : id = At(Rec(i).narrow, f) % (MaxUint16 + 1)
    BY DEF NarrowIds
  <2>3. f \in Int
    OBVIOUS
  <2>. QED  BY <1>3, <2>2, <2>3
<1>5. WideIds(i) \subseteq Nat /\ (AllZero(Rec(i)) => WideIds(i) \subseteq {0})
  BY <1>2 DEF WideIds, AllZero
<1>. QED  BY <1>2, <1>4, <1>5

LEMMA EntryIs ==
  ASSUME GEO2Input, NEW i \in Int
  PROVE  /\ XIds(i) \subseteq Nat
         /\ EntryIsZero(XEntry(i)) => XIds(i) \subseteq {0}
         /\ IdOffsets = {} => XIds(i) = {}
<1>1. \A e \in Range(file.xrecs) : Range(e.ids) \subseteq Nat
  BY DEF GEO2Input, IsInput, IsGEO2
<1>2. ASSUME NEW o PROVE IdAt(XEntry(i), o) \in Nat
  <2>1. CASE i + 1 \in DOMAIN file.xrecs
    <3>1. XEntry(i) \in Range(file.xrecs)
      BY <2>1 DEF XEntry, Elt, Range
    <3>. QED  BY <1>1, <3>1 DEF IdAt, Range
  <2>2. CASE i + 1 \notin DOMAIN file.xrecs
    <3>1. XEntry(i) = ZeroEntry
      BY <2>2 DEF XEntry, Elt
    <3>. QED  BY <3>1 DEF IdAt, ZeroEntry
  <2>. QED  BY <2>1, <2>2
<1>3. ASSUME EntryIsZero(XEntry(i)), NEW o PROVE IdAt(XEntry(i), o) = 0
  BY <1>3 DEF EntryIsZero, IdAt, Range
<1>. QED  BY <1>2, <1>3 DEF XIds

(* Every id a lookup in what opened may decode is in its table.            *)
LEMMA Decodable2 ==
  ASSUME GEO2Input, HeaderOK, DirectoryOK, LengthsOK, StringsOK, RecordsOK, ExtensionsOK,
         hasF => XRecordsOK, file.size <= MaxFileSize
  PROVE  Decodable(GEO2Tables)
<1> DEFINE t == GEO2Tables
           below == 0..(nStrings - 1)
<1>1. nStrings \in Nat /\ nRecords \in Nat
  BY Counts2
<1>2. 0 \in below /\ nStrings > 0
  <2>1. file.meta.language \in file.meta.ids /\ file.meta.ids \subseteq Nat
    BY Values2
  <2>2. \A m \in file.meta.ids : m < nStrings
    BY DEF StringsOK
  <2> DEFINE m == file.meta.language
  <2>3. m \in Nat /\ m < nStrings
    BY <2>1, <2>2
  <2> HIDE DEF m
  <2>. QED  BY <1>1, <2>3
<1>3. ASSUME NEW i \in 0..(nRecords - 1) PROVE NarrowIds(i) \subseteq below /\ WideIds(i) \subseteq below
  <2>1. i \in Int
    OBVIOUS
  <2>2. CASE i = 0
    <3>1. AllZero(Rec(i))
      BY <2>2 DEF RecordsOK
    <3>. QED  BY <1>2, <2>1, <3>1, RecordIs
  <2>3. CASE i # 0
    <3>1. i \in 1..(nRecords - 1)
      BY <1>1, <2>3
    <3>2. IdsInRecord(i)
      BY <3>1 DEF RecordsOK
    <3>3. NarrowIds(i) \subseteq 0..MaxUint16 /\ WideIds(i) \subseteq Nat
      BY <2>1, RecordIs
    <3>4. \A id \in WideIds(i) : id < nStrings
      BY <3>2 DEF IdsInRecord
    <3>5. \A id \in NarrowIds(i) : id < nStrings
      BY <1>1, <3>2, <3>3, NaturalSizes DEF IdsInRecord, EveryUint16
    <3>6. \A id \in NarrowIds(i) : id \in Nat
      BY <3>3, NaturalSizes
    <3>. QED  BY <1>1, <3>3, <3>4, <3>5, <3>6
  <2>. QED  BY <2>2, <2>3
<1>4. ASSUME hasF, NEW i \in 0..(nRecords - 1) PROVE XIds(i) \subseteq below
  <2>1. /\ i \in Int /\ entryWidth \in Nat /\ (entryWidth = 0 => IdOffsets = {})
    BY <1>4, Layout2, OffsetsFit
  <2>2. CASE entryWidth = 0
    BY <2>1, <2>2, EntryIs
  <2>3. CASE entryWidth # 0
    <3>1. entryWidth > 0
      BY <2>1, <2>3
    <3>2. XRecordsOK
      BY <1>4
    <3>3. CASE i = 0
      <4>1. EntryIsZero(XEntry(i))
        BY <3>1, <3>2, <3>3 DEF XRecordsOK
      <4>. QED  BY <1>2, <2>1, <4>1, EntryIs
    <3>4. CASE i # 0
      <4>1. i \in 1..(nRecords - 1)
        BY <1>1, <3>4
      <4>2. \A id \in XIds(i) : id < nStrings
        BY <3>1, <3>2, <4>1 DEF XRecordsOK
      <4>3. XIds(i) \subseteq Nat
        BY <2>1, EntryIs
      <4>. QED  BY <1>1, <4>2, <4>3
    <3>. QED  BY <3>3, <3>4
  <2>. QED  BY <2>2, <2>3
<1>5. \A i \in 0..(nRecords - 1) : t.stringsOf[i] \subseteq below
  <2>1. \A i \in 0..(nRecords - 1) :
          t.stringsOf[i] = NarrowIds(i) \union WideIds(i) \union (IF hasF THEN XIds(i) ELSE {})
    BY Tables2
  <2> HIDE DEF t, below
  <2>. QED  BY <1>3, <1>4, <2>1
<1>6. /\ t.v4ids = file.v4ids /\ t.v6ids = file.v6ids /\ t.nStrings = nStrings
      /\ t.nRecords = nRecords /\ t.nV4 = nV4 /\ t.nV6 = nV6
  BY Tables2
<1>7. /\ \A i \in 0..(nV4 - 1) : At(file.v4ids, i) < nRecords
      /\ \A i \in 0..(nV6 - 1) : At(file.v6ids, i) < nRecords
  BY DEF RecordsOK
<1> HIDE DEF t
<1>. QED  BY <1>5, <1>6, <1>7 DEF Decodable, t


-----------------------------------------------------------------------------
(* transcode's tables.  V4IDX splits the starts where the bucket changes.  *)
GEO1Input == IsInput(file) /\ file.magic = "GEO1"

LEMMA Values1 ==
  ASSUME GEO1Input
  PROVE  /\ ns \in Nat /\ rc \in Nat /\ n4 \in Nat /\ n6 \in Nat
         /\ \A i \in Int : At(file.starts4, i) \in 0..(Buckets * BucketSize - 1)
         /\ \A i \in Int : Start1(i) \in Nat \X Nat
         /\ \A i \in Int : At(file.ids4, i) \in Nat /\ At(file.ids6, i) \in Nat
         /\ \A i, f \in Int : Field(i, f) \in Nat
<1>1. /\ ns \in Nat /\ rc \in Nat /\ n4 \in Nat /\ n6 \in Nat
      /\ file.starts4 \in Seq(0..(Buckets * BucketSize - 1)) /\ file.starts6 \in Seq(Nat \X Nat)
      /\ file.ids4 \in Seq(Nat) /\ file.ids6 \in Seq(Nat) /\ file.recs \in Seq(Seq(Nat))
  BY DEF GEO1Input, IsInput, IsGEO1, ns, rc, n4, n6
<1>2. ASSUME NEW i \in Int PROVE At(file.starts4, i) \in 0..(Buckets * BucketSize - 1)
  <2> DEFINE A == Buckets * BucketSize
             S == 0..(A - 1)
  <2>1. A \in Nat \ {0}
    <3>1. 1 * 1 <= Buckets * BucketSize /\ Buckets * BucketSize \in Nat
      BY NaturalSizes, FitsWidth
    <3>. QED  BY <3>1
  <2>2. 0 \in S
    <3> HIDE DEF A
    <3>. QED  BY <2>1
  <2>3. file.starts4 \in Seq(S)
    BY <1>1
  <2> HIDE DEF S
  <2>4. DOMAIN file.starts4 = 1..Len(file.starts4)
    BY <2>3
  <2>5. \A x \in 1..Len(file.starts4) : file.starts4[x] \in S
    BY <2>3, Element
  <2>6. At(file.starts4, i) \in S
    BY <2>2, <2>4, <2>5 DEF At, Elt
  <2>. QED  BY <2>6 DEF S
<1>3. ASSUME NEW i \in Int PROVE Start1(i) \in Nat \X Nat
  <2> DEFINE S == Nat \X Nat
  <2>1. <<0, 0>> \in S
    OBVIOUS
  <2> HIDE DEF S
  <2>2. file.starts6 \in Seq(S)
    BY <1>1 DEF S
  <2>3. DOMAIN file.starts6 = 1..Len(file.starts6)
    BY <2>2
  <2>4. \A x \in 1..Len(file.starts6) : file.starts6[x] \in S
    BY <2>2, Element
  <2>5. Start1(i) \in S
    BY <2>1, <2>3, <2>4 DEF Start1, Elt
  <2>. QED  BY <2>5 DEF S
<1>4. \A i \in Int : At(file.ids4, i) \in Nat /\ At(file.ids6, i) \in Nat
  BY <1>1, AtIs
<1>5. ASSUME NEW i \in Int, NEW f \in Int PROVE Field(i, f) \in Nat
  <2> DEFINE S == Seq(Nat)
             r == Elt(file.recs, i, <<>>)
  <2>1. <<>> \in S
    OBVIOUS
  <2>2. file.recs \in Seq(S)
    BY <1>1
  <2> HIDE DEF S
  <2>3. DOMAIN file.recs = 1..Len(file.recs)
    BY <2>2
  <2>4. \A x \in 1..Len(file.recs) : file.recs[x] \in S
    BY <2>2, Element
  <2>5. r \in S
    BY <2>1, <2>3, <2>4 DEF Elt
  <2>6. r \in Seq(Nat)
    BY <2>5 DEF S
  <2> HIDE DEF r
  <2>7. At(r, f) \in Nat
    BY <2>6, AtIs
  <2>. QED  BY <2>7 DEF Field, r
<1>. QED  BY <1>1, <1>2, <1>3, <1>4, <1>5

BucketAt == [i \in Int |-> At(file.starts4, i) \div BucketSize]

LEMMA BucketAtIs ==
  ASSUME GEO1Input, NEW i \in Int
  PROVE  /\ BucketAt[i] \in 0..(Buckets - 1)
         /\ At(file.starts4, i) % BucketSize \in 0..(BucketSize - 1)
         /\ At(file.starts4, i) = BucketAt[i] * BucketSize + (At(file.starts4, i) % BucketSize)
<1> DEFINE x == At(file.starts4, i)
           q == x \div BucketSize
           r == x % BucketSize
           A == Buckets * BucketSize
<1>1. x \in 0..(A - 1) /\ BucketAt[i] = q
  BY Values1 DEF BucketAt
<1>2. A \in Int
  BY NaturalSizes
<1>3. x \in Int /\ 0 <= x /\ x < A
  <2> HIDE DEF x, A
  <2>. QED  BY <1>1, <1>2
<1>4. q \in Int /\ r \in Int /\ x = BucketSize * q + r /\ 0 <= r /\ r < BucketSize
  <2> HIDE DEF x
  <2>. QED  BY <1>3, NaturalSizes, DivMod
<1> HIDE DEF x, q, r
<1>5. BucketSize * q = q * BucketSize /\ q * BucketSize \in Int
  BY <1>4, NaturalSizes
<1>6. 0 <= q
  <2>1. CASE q <= -1
    <3>1. q * BucketSize <= (-1) * BucketSize
      BY <1>4, <2>1, NaturalSizes, MulMono
    <3>2. (-1) * BucketSize = -BucketSize
      BY NaturalSizes
    <3> DEFINE z == q * BucketSize
    <3>3. z <= -BucketSize /\ z \in Int /\ x = z + r
      BY <1>4, <1>5, <3>1, <3>2
    <3> HIDE DEF z
    <3>. QED  BY <1>3, <1>4, <3>3, NaturalSizes
  <2>. QED  BY <1>4, <2>1
<1>7. q < Buckets
  <2>1. CASE Buckets <= q
    <3>1. Buckets * BucketSize <= q * BucketSize
      BY <1>4, <2>1, NaturalSizes, MulMono
    <3> DEFINE z == q * BucketSize
    <3>2. A <= z /\ z \in Int /\ x = z + r
      BY <1>4, <1>5, <3>1
    <3> HIDE DEF z, A
    <3>. QED  BY <1>2, <1>3, <1>4, <3>2
  <2>. QED  BY <1>4, <2>1, NaturalSizes
<1>8. q \in 0..(Buckets - 1) /\ r \in 0..(BucketSize - 1)
  BY <1>4, <1>6, <1>7, NaturalSizes
<1>9. x = q * BucketSize + r
  BY <1>4, <1>5
<1>. QED  BY <1>1, <1>8, <1>9 DEF x, q, r

LEMMA StartsRise ==
  ASSUME GEO1Input, Ascending4
  PROVE  /\ \A i, j \in 0..(n4 - 1) : i < j => At(file.starts4, i) < At(file.starts4, j)
         /\ \A i, j \in 0..(n4 - 1) : i <= j => BucketAt[i] <= BucketAt[j]
<1> DEFINE n == n4 - 1
           R == {p \in (0..n) \X (0..n) : At(file.starts4, p[1]) < At(file.starts4, p[2])}
<1>1. n \in Int /\ \A i \in Int : At(file.starts4, i) \in Int
  <2> DEFINE A == Buckets * BucketSize - 1
  <2>1. n4 \in Nat /\ \A i \in Int : At(file.starts4, i) \in 0..A
    BY Values1
  <2>2. A \in Int
    BY NaturalSizes
  <2> HIDE DEF A
  <2>. QED  BY <2>1, <2>2
<1>2. \A m \in 0..(n - 1) : <<m, m + 1>> \in R
  <2>1. ASSUME NEW m \in 0..(n - 1) PROVE At(file.starts4, m) < At(file.starts4, m + 1)
    <3>1. m + 1 \in 1..(n4 - 1) /\ (m + 1) - 1 = m
      BY Values1
    <3>. QED  BY <3>1 DEF Ascending4
  <2>2. \A m \in 0..(n - 1) : m \in 0..n /\ m + 1 \in 0..n
    BY <1>1
  <2> HIDE DEF n
  <2>. QED  BY <2>1, <2>2
<1>3. \A a, b, c \in 0..n : <<a, b>> \in R /\ <<b, c>> \in R => <<a, c>> \in R
  <2>1. ASSUME NEW a \in 0..n, NEW b \in 0..n, NEW c \in 0..n,
               At(file.starts4, a) < At(file.starts4, b), At(file.starts4, b) < At(file.starts4, c)
        PROVE  At(file.starts4, a) < At(file.starts4, c)
    BY <1>1, <2>1
  <2> HIDE DEF n
  <2>. QED  BY <2>1
<1>4. \A a, b \in 0..n : a < b => <<a, b>> \in R
  <2> HIDE DEF n, R
  <2>. QED  BY <1>1, <1>2, <1>3, Chain
<1>5. \A a, b \in 0..n : a < b => At(file.starts4, a) < At(file.starts4, b)
  <2> HIDE DEF n
  <2>. QED  BY <1>4
<1>6. ASSUME NEW i \in 0..n, NEW j \in 0..n, i <= j PROVE BucketAt[i] <= BucketAt[j]
  <2> DEFINE x == At(file.starts4, i)
             y == At(file.starts4, j)
             p == BucketAt[i]
             q == BucketAt[j]
             r == x % BucketSize
             s == y % BucketSize
  <2>1. /\ p \in 0..(Buckets - 1) /\ r \in 0..(BucketSize - 1) /\ x = p * BucketSize + r
        /\ q \in 0..(Buckets - 1) /\ s \in 0..(BucketSize - 1) /\ y = q * BucketSize + s
    <3>1. i \in Int /\ j \in Int
      BY <1>1
    <3>. QED  BY <3>1, BucketAtIs
  <2>2. x <= y /\ x \in Int /\ y \in Int
    <3>1. i = j \/ i < j
      BY <1>1, <1>6
    <3>. QED  BY <1>1, <1>5, <3>1
  <2> HIDE DEF p, q, r, s, x, y
  <2>3. CASE q + 1 <= p
    <3>1. p \in Int /\ q \in Int
      BY <2>1, NaturalSizes
    <3>2. (q + 1) * BucketSize <= p * BucketSize
      BY <2>3, <3>1, NaturalSizes, MulMono
    <3>3. (q + 1) * BucketSize = q * BucketSize + BucketSize
      BY <3>1, NaturalSizes
    <3> DEFINE u == p * BucketSize
               v == q * BucketSize
    <3>4. u \in Int /\ v \in Int /\ v + BucketSize <= u /\ x = u + r /\ y = v + s
      BY <2>1, <3>1, <3>2, <3>3, NaturalSizes
    <3> HIDE DEF u, v
    <3>. QED  BY <2>1, <2>2, <3>4, NaturalSizes
  <2>4. CASE ~(q + 1 <= p)
    <3>1. p <= q
      BY <2>1, <2>4, NaturalSizes
    <3>. QED  BY <3>1 DEF p, q
  <2>. QED  BY <2>3, <2>4
<1>. QED  BY <1>5, <1>6

(* A start is at or after the first of bucket b when its bucket is b or a  *)
(* later one.                                                              *)
LEMMA FirstIs ==
  ASSUME GEO1Input, Ascending4, NEW b \in Nat
  PROVE  /\ FirstAtOrAbove(b) \in 0..n4
         /\ \A i \in 0..(n4 - 1) : FirstAtOrAbove(b) <= i <=> b <= BucketAt[i]
<1> DEFINE S == {i \in 0..(n4 - 1) : At(file.starts4, i) \div BucketSize >= b} \union {n4}
           m == Min(S)
<1>1. n4 \in Nat /\ S \subseteq Nat /\ S # {}
  <2>1. n4 \in Nat
    BY Values1
  <2>. QED  BY <2>1
<1>2. \E x \in S : \A y \in S : x <= y
  <2> HIDE DEF S
  <2>. QED  BY <1>1, LeastNumber
<1>3. m \in S /\ \A y \in S : m <= y
  <2> HIDE DEF S
  <2>. QED  BY <1>2 DEF Min
<1>4. FirstAtOrAbove(b) = m
  BY DEF FirstAtOrAbove
<1>5. \A i \in 0..(n4 - 1) : i \in S <=> b <= BucketAt[i]
  <2>1. ASSUME NEW i \in 0..(n4 - 1) PROVE i \in S <=> b <= BucketAt[i]
    <3>1. i \in Int /\ i # n4
      BY <1>1
    <3>2. BucketAt[i] = At(file.starts4, i) \div BucketSize /\ BucketAt[i] \in Int
      BY <3>1, BucketAtIs, NaturalSizes DEF BucketAt
    <3> DEFINE q == At(file.starts4, i) \div BucketSize
    <3>3. i \in S <=> q >= b
      BY <3>1
    <3>4. q = BucketAt[i]
      BY <3>2
    <3> HIDE DEF q, S
    <3>. QED  BY <3>2, <3>3, <3>4
  <2>. QED  BY <2>1
<1>6. S \subseteq 0..n4
  BY <1>1
<1>7. \A i, j \in 0..(n4 - 1) : i <= j => BucketAt[i] <= BucketAt[j]
  BY StartsRise
<1>8. \A i \in 0..(n4 - 1) : BucketAt[i] \in Int
  BY <1>1, BucketAtIs, NaturalSizes
<1> HIDE DEF S, m
<1>9. ASSUME NEW i \in 0..(n4 - 1), m <= i PROVE b <= BucketAt[i]
  <2>1. m \in 0..(n4 - 1)
    BY <1>1, <1>3, <1>6, <1>9
  <2>2. b <= BucketAt[m] /\ BucketAt[m] <= BucketAt[i]
    BY <1>3, <1>5, <1>7, <1>9, <2>1
  <2>. QED  BY <1>8, <2>1, <2>2
<1>10. ASSUME NEW i \in 0..(n4 - 1), b <= BucketAt[i] PROVE m <= i
  BY <1>3, <1>5, <1>10
<1>. QED  BY <1>3, <1>4, <1>6, <1>9, <1>10


LEMMA Tables1 ==
  ASSUME GEO1Input
  PROVE  /\ GEO1Tables.nV4 = n4 /\ GEO1Tables.nV6 = n6 /\ GEO1Tables.nExc = Len(WithLow)
         /\ GEO1Tables.nRecords = rc /\ GEO1Tables.nStrings = Len(UsedStrings) + 1
         /\ GEO1Tables.v6excIdx = WithLow
         /\ \A g \in 0..Buckets : At(GEO1Tables.v4idx, g) = FirstAtOrAbove(g)
         /\ \A i \in 0..(n4 - 1) : /\ At(GEO1Tables.v4starts, i) = At(file.starts4, i) % BucketSize
                                   /\ At(GEO1Tables.v4ids, i) = At(file.ids4, i)
         /\ \A i \in 0..(n6 - 1) : /\ At(GEO1Tables.v6starts, i) = Start1(i)[1]
                                   /\ At(GEO1Tables.v6ids, i) = At(file.ids6, i)
         /\ \A e \in Int : e + 1 \in DOMAIN WithLow => At(GEO1Tables.v6excLo, e) = Low6(WithLow[e + 1])
         /\ \A r \in 0..(rc - 1) :
              GEO1Tables.stringsOf[r] =
                IF r = 0 THEN {0} ELSE {Packed1(r, f) : f \in StringFields(Profile1)}
<1>1. n4 \in Nat /\ n6 \in Nat /\ Buckets \in Nat
  BY Values1, NaturalSizes
<1>2. ASSUME NEW g \in 0..Buckets PROVE At(GEO1Tables.v4idx, g) = FirstAtOrAbove(g)
  <2> DEFINE v == [b \in 1..(Buckets + 1) |-> FirstAtOrAbove(b - 1)]
  <2>1. GEO1Tables.v4idx = v
    BY DEF GEO1Tables
  <2>2. g + 1 \in 1..(Buckets + 1) /\ (g + 1) - 1 = g
    BY <1>1
  <2>3. g + 1 \in DOMAIN v /\ v[g + 1] = FirstAtOrAbove(g)
    BY <2>2
  <2> HIDE DEF v
  <2>. QED  BY <2>1, <2>3 DEF At, Elt
<1>3. ASSUME NEW i \in 0..(n4 - 1)
      PROVE  /\ At(GEO1Tables.v4starts, i) = At(file.starts4, i) % BucketSize
             /\ At(GEO1Tables.v4ids, i) = At(file.ids4, i)
  <2> DEFINE v == [j \in 1..n4 |-> At(file.starts4, j - 1) % BucketSize]
             w == [j \in 1..n4 |-> At(file.ids4, j - 1)]
  <2>1. GEO1Tables.v4starts = v /\ GEO1Tables.v4ids = w
    BY DEF GEO1Tables
  <2>2. i + 1 \in 1..n4 /\ (i + 1) - 1 = i
    BY <1>1
  <2>3. /\ i + 1 \in DOMAIN v /\ v[i + 1] = At(file.starts4, i) % BucketSize
        /\ i + 1 \in DOMAIN w /\ w[i + 1] = At(file.ids4, i)
    BY <2>2
  <2> HIDE DEF v, w
  <2>4. At(v, i) = v[i + 1] /\ At(w, i) = w[i + 1]
    BY <2>3 DEF At, Elt
  <2>. QED  BY <2>1, <2>3, <2>4
<1>4. ASSUME NEW i \in 0..(n6 - 1)
      PROVE  /\ At(GEO1Tables.v6starts, i) = Start1(i)[1]
             /\ At(GEO1Tables.v6ids, i) = At(file.ids6, i)
  <2> DEFINE v == [j \in 1..n6 |-> Start1(j - 1)[1]]
             w == [j \in 1..n6 |-> At(file.ids6, j - 1)]
  <2>1. GEO1Tables.v6starts = v /\ GEO1Tables.v6ids = w
    BY DEF GEO1Tables
  <2>2. i + 1 \in 1..n6 /\ (i + 1) - 1 = i
    BY <1>1
  <2>3. /\ i + 1 \in DOMAIN v /\ v[i + 1] = Start1(i)[1]
        /\ i + 1 \in DOMAIN w /\ w[i + 1] = At(file.ids6, i)
    BY <2>2
  <2> HIDE DEF v, w
  <2>4. At(v, i) = v[i + 1] /\ At(w, i) = w[i + 1]
    BY <2>3 DEF At, Elt
  <2>. QED  BY <2>1, <2>3, <2>4
<1>5. ASSUME NEW e \in Int, e + 1 \in DOMAIN WithLow PROVE At(GEO1Tables.v6excLo, e) = Low6(WithLow[e + 1])
  BY <1>5 DEF GEO1Tables, At, Elt
<1>6. /\ GEO1Tables.nV4 = n4 /\ GEO1Tables.nV6 = n6 /\ GEO1Tables.nExc = Len(WithLow)
      /\ GEO1Tables.nRecords = rc /\ GEO1Tables.nStrings = Len(UsedStrings) + 1
      /\ GEO1Tables.v6excIdx = WithLow
  BY DEF GEO1Tables
<1>7. \A r \in 0..(rc - 1) :
        GEO1Tables.stringsOf[r] = IF r = 0 THEN {0} ELSE {Packed1(r, f) : f \in StringFields(Profile1)}
  BY DEF GEO1Tables
<1>. QED  BY <1>2, <1>3, <1>4, <1>5, <1>6, <1>7

LEMMA SplitOf1 ==
  ASSUME GEO1Input, Ascending4
  PROVE  /\ SplitV4(GEO1Tables)
         /\ \A i \in 0..(n4 - 1) : Start4(GEO1Tables, i) = At(file.starts4, i)
<1> DEFINE t == GEO1Tables
           First(g) == FirstAtOrAbove(g)
<1>1. n4 \in Nat /\ Buckets \in Nat \ {0}
  BY Values1, NaturalSizes
<1>2. /\ t.nV4 = n4 /\ \A g \in 0..Buckets : At(t.v4idx, g) = First(g)
      /\ \A i \in 0..(n4 - 1) : At(t.v4starts, i) = At(file.starts4, i) % BucketSize
  BY Tables1
<1>3. \A g \in 0..Buckets :
        /\ First(g) \in 0..n4
        /\ \A i \in 0..(n4 - 1) : First(g) <= i <=> g <= BucketAt[i]
  <2>1. \A g \in 0..Buckets : g \in Nat
    BY <1>1
  <2>. QED  BY <2>1, FirstIs
<1>4. \A i \in 0..(n4 - 1) :
        /\ BucketAt[i] \in 0..(Buckets - 1)
        /\ At(file.starts4, i) % BucketSize \in 0..(BucketSize - 1)
        /\ At(file.starts4, i) = BucketAt[i] * BucketSize + (At(file.starts4, i) % BucketSize)
  <2>1. \A i \in 0..(n4 - 1) : i \in Int
    OBVIOUS
  <2>. QED  BY <2>1, BucketAtIs
<1>5. \A i, j \in 0..(n4 - 1) : i < j => At(file.starts4, i) < At(file.starts4, j)
  BY StartsRise
<1> HIDE DEF t, First
<1>6. First(0) = 0
  <2>1. CASE n4 = 0
    BY <1>1, <1>3, <2>1
  <2>2. CASE n4 # 0
    <3>1. 0 \in 0..(n4 - 1) /\ 0 \in 0..Buckets
      BY <1>1, <2>2
    <3>2. 0 <= BucketAt[0]
      BY <1>4, <3>1
    <3>. QED  BY <1>1, <1>3, <3>1, <3>2
  <2>. QED  BY <2>1, <2>2
<1>7. First(Buckets) = n4
  <2>1. Buckets \in 0..Buckets
    BY <1>1
  <2>2. CASE First(Buckets) \in 0..(n4 - 1)
    <3> DEFINE i == First(Buckets)
    <3>1. Buckets <= BucketAt[i] /\ BucketAt[i] \in 0..(Buckets - 1)
      BY <1>1, <1>3, <1>4, <2>1, <2>2
    <3> HIDE DEF i
    <3>. QED  BY <1>1, <3>1
  <2>. QED  BY <1>1, <1>3, <2>1, <2>2
<1>8. \A g \in 0..(Buckets - 1) : g \in 0..Buckets /\ g + 1 \in 0..Buckets
  BY <1>1
<1>9. ASSUME NEW g \in 0..(Buckets - 1) PROVE First(g) <= First(g + 1)
  <2>1. First(g) \in 0..n4 /\ First(g + 1) \in 0..n4
    BY <1>3, <1>8
  <2>2. CASE First(g + 1) \in 0..(n4 - 1)
    <3> DEFINE i == First(g + 1)
    <3>1. i \in 0..(n4 - 1) /\ g + 1 <= BucketAt[i]
      BY <1>1, <1>3, <1>8, <2>2
    <3>2. g <= BucketAt[i]
      BY <1>1, <1>4, <3>1
    <3>3. First(g) <= i
      BY <1>3, <1>8, <3>1, <3>2
    <3>. QED  BY <3>3
  <2>. QED  BY <1>1, <2>1, <2>2
<1>10. ASSUME NEW g \in 0..(Buckets - 1), NEW i \in 0..(n4 - 1), First(g) <= i, i < First(g + 1)
       PROVE  BucketAt[i] = g
  <2>1. g <= BucketAt[i] /\ ~(g + 1 <= BucketAt[i])
    <3>1. First(g + 1) \in 0..n4
      BY <1>3, <1>8
    <3>. QED  BY <1>1, <1>3, <1>8, <1>10, <3>1
  <2>. QED  BY <1>1, <1>4, <2>1
<1>11. ASSUME NEW g \in 0..(Buckets - 1), NEW i \in (First(g) + 1)..(First(g + 1) - 1)
       PROVE  At(file.starts4, i - 1) % BucketSize < At(file.starts4, i) % BucketSize
  <2>1. First(g) \in 0..n4 /\ First(g + 1) \in 0..n4
    BY <1>3, <1>8
  <2>2. /\ i \in 0..(n4 - 1) /\ i - 1 \in 0..(n4 - 1) /\ i - 1 < i
        /\ First(g) <= i - 1 /\ i - 1 < First(g + 1) /\ First(g) <= i /\ i < First(g + 1)
    BY <1>1, <2>1
  <2> DEFINE j == i - 1
             x == At(file.starts4, i) % BucketSize
             y == At(file.starts4, j) % BucketSize
             a == At(file.starts4, i)
             b == At(file.starts4, j)
             u == g * BucketSize
  <2>3. BucketAt[i] = g /\ BucketAt[j] = g
    BY <1>10, <2>2
  <2>4. a = u + x /\ b = u + y /\ b < a /\ x \in 0..(BucketSize - 1) /\ y \in 0..(BucketSize - 1)
    BY <1>4, <1>5, <2>2, <2>3
  <2>5. u \in Int
    BY <1>1, NaturalSizes
  <2>6. j = i - 1
    OBVIOUS
  <2> HIDE DEF j, x, y, a, b, u
  <2>7. y < x
    BY <2>4, <2>5, NaturalSizes
  <2>. QED  BY <2>7 DEF x, y, j
<1>12. SplitV4(t)
  <2>1. \A g \in 0..Buckets : At(t.v4idx, g) \in Nat
    BY <1>1, <1>2, <1>3
  <2>2. At(t.v4idx, 0) = 0 /\ At(t.v4idx, Buckets) = n4
    <3>1. 0 \in 0..Buckets /\ Buckets \in 0..Buckets
      BY <1>1
    <3>. QED  BY <1>2, <1>6, <1>7, <3>1
  <2>3. \A g \in 0..(Buckets - 1) : At(t.v4idx, g) <= At(t.v4idx, g + 1)
    BY <1>2, <1>8, <1>9
  <2>4. \A i \in 0..(n4 - 1) : At(t.v4starts, i) \in 0..(BucketSize - 1)
    BY <1>2, <1>4
  <2>5. ASSUME NEW g \in 0..(Buckets - 1), NEW i \in (At(t.v4idx, g) + 1)..(At(t.v4idx, g + 1) - 1)
        PROVE  At(t.v4starts, i - 1) < At(t.v4starts, i)
    <3>1. i \in (First(g) + 1)..(First(g + 1) - 1)
      BY <1>2, <1>8, <2>5
    <3>2. First(g) \in 0..n4 /\ First(g + 1) \in 0..n4
      BY <1>3, <1>8
    <3>3. i \in 0..(n4 - 1) /\ i - 1 \in 0..(n4 - 1)
      BY <1>1, <3>1, <3>2
    <3>4. /\ At(t.v4starts, i) = At(file.starts4, i) % BucketSize
          /\ At(t.v4starts, i - 1) = At(file.starts4, i - 1) % BucketSize
      BY <1>2, <3>3
    <3>5. At(file.starts4, i - 1) % BucketSize < At(file.starts4, i) % BucketSize
      BY <1>11, <3>1
    <3>. QED  BY <3>4, <3>5
  <2>. QED  BY <1>1, <1>2, <2>1, <2>2, <2>3, <2>4, <2>5 DEF SplitV4
<1>13. ASSUME NEW i \in 0..(n4 - 1) PROVE Start4(t, i) = At(file.starts4, i)
  <2>1. i \in 0..(t.nV4 - 1)
    BY <1>2
  <2>2. PICK g \in 0..(Buckets - 1) :
          /\ At(t.v4idx, g) <= i /\ i < At(t.v4idx, g + 1)
          /\ Start4(t, i) = g * BucketSize + At(t.v4starts, i)
    BY <1>12, <2>1, OneBucket
  <2>3. First(g) <= i /\ i < First(g + 1)
    BY <1>2, <1>8, <2>2
  <2>4. BucketAt[i] = g
    BY <1>10, <2>3
  <2>5. At(t.v4starts, i) = At(file.starts4, i) % BucketSize
    BY <1>2
  <2>6. At(file.starts4, i) = BucketAt[i] * BucketSize + (At(file.starts4, i) % BucketSize)
    BY <1>4
  <2>. QED  BY <2>2, <2>4, <2>5, <2>6
<1>. QED  BY <1>12, <1>13 DEF t

LEMMA WithLowIs ==
  ASSUME GEO1Input
  PROVE  /\ WithLow \in Seq(0..(n6 - 1))
         /\ \A c, d \in 1..Len(WithLow) : c < d => WithLow[c] < WithLow[d]
         /\ \A i \in 0..(n6 - 1) : Low6(i) # 0 <=> \E e \in 1..Len(WithLow) : WithLow[e] = i
<1> DEFINE low == [i \in 1..n6 |-> Low6(i - 1)]
<1>1. n6 \in Nat
  BY Values1
<1>2. low \in Seq(Nat) /\ Len(low) = n6 /\ \A i \in 0..(n6 - 1) : low[i + 1] = Low6(i)
  <2>1. \A i \in 1..n6 : Low6(i - 1) \in Nat
    <3>1. \A i \in Int : Start1(i) \in Nat \X Nat
      BY Values1
    <3>. QED  BY <3>1 DEF Low6
  <2>2. \A i \in 0..(n6 - 1) : i + 1 \in 1..n6 /\ (i + 1) - 1 = i
    BY <1>1
  <2>. QED  BY <1>1, <2>1, <2>2
<1>3. WithLow = ExceptionsOf(low)
  BY DEF WithLow
<1> HIDE DEF low
<1>4. WithLow \in Seq(0..(n6 - 1))
  BY <1>2, <1>3, ExceptionFacts
<1>5. DOMAIN WithLow = 1..Len(WithLow)
  BY <1>4
<1>6. \A c, d \in DOMAIN WithLow : c < d => WithLow[c] < WithLow[d]
  BY <1>2, <1>3, ExceptionFacts
<1>7. \A b \in 0..(n6 - 1) : low[b + 1] # 0 <=> \E e \in DOMAIN WithLow : WithLow[e] = b
  BY <1>2, <1>3, ExceptionFacts
<1>. QED  BY <1>2, <1>4, <1>5, <1>6, <1>7

LEMMA ListedOf1 ==
  ASSUME GEO1Input
  PROVE  /\ ListedV6(GEO1Tables)
         /\ \A i \in 0..(n6 - 1) : Start6(GEO1Tables, i) = Start1(i)
<1> DEFINE t == GEO1Tables
<1>1. n6 \in Nat /\ \A i \in Int : Start1(i) \in Nat \X Nat
  BY Values1
<1>8. \A i \in 0..(n6 - 1) : Start1(i)[1] \in Nat /\ Low6(i) \in Nat
  <2>1. ASSUME NEW i \in 0..(n6 - 1) PROVE Start1(i)[1] \in Nat /\ Start1(i)[2] \in Nat
    BY <1>1
  <2>. QED  BY <2>1 DEF Low6
<1>2. /\ t.nV6 = n6 /\ t.nExc = Len(WithLow) /\ t.v6excIdx = WithLow
      /\ \A i \in 0..(n6 - 1) : At(t.v6starts, i) = Start1(i)[1]
      /\ \A e \in Int : e + 1 \in DOMAIN WithLow => At(t.v6excLo, e) = Low6(WithLow[e + 1])
  BY Tables1
<1>3. /\ WithLow \in Seq(0..(n6 - 1))
      /\ \A c, d \in 1..Len(WithLow) : c < d => WithLow[c] < WithLow[d]
      /\ \A i \in 0..(n6 - 1) : Low6(i) # 0 <=> \E e \in 1..Len(WithLow) : WithLow[e] = i
  BY WithLowIs
<1> HIDE DEF t
<1>4. Len(WithLow) \in Nat /\ DOMAIN WithLow = 1..Len(WithLow)
  BY <1>3
<1>5. ASSUME NEW e \in 0..(Len(WithLow) - 1)
      PROVE  /\ e + 1 \in 1..Len(WithLow) /\ WithLow[e + 1] \in 0..(n6 - 1)
             /\ At(t.v6excIdx, e) = WithLow[e + 1] /\ At(t.v6excLo, e) = Low6(WithLow[e + 1])
             /\ Low6(WithLow[e + 1]) # 0 /\ Low6(WithLow[e + 1]) \in Nat
  <2>1. e + 1 \in 1..Len(WithLow) /\ e \in Int
    BY <1>4
  <2>2. WithLow[e + 1] \in 0..(n6 - 1)
    BY <1>3, <2>1, Element
  <2>3. At(t.v6excIdx, e) = WithLow[e + 1]
    BY <1>2, <1>4, <2>1 DEF At, Elt
  <2>4. At(t.v6excLo, e) = Low6(WithLow[e + 1])
    BY <1>2, <1>4, <2>1
  <2>5. Low6(WithLow[e + 1]) # 0
    BY <1>3, <2>1, <2>2
  <2>6. Low6(WithLow[e + 1]) \in Nat
    BY <1>8, <2>2
  <2>. QED  BY <2>1, <2>2, <2>3, <2>4, <2>5, <2>6
<1>6. ListedV6(t)
  <2>1. \A i \in 0..(n6 - 1) : At(t.v6starts, i) \in Nat
    BY <1>2, <1>8
  <2>2. \A e \in 0..(Len(WithLow) - 1) :
          /\ At(t.v6excIdx, e) \in Nat /\ At(t.v6excLo, e) \in Nat
          /\ At(t.v6excIdx, e) < n6 /\ At(t.v6excLo, e) # 0
    <3>1. \A x \in 0..(n6 - 1) : x \in Nat /\ x < n6
      BY <1>1
    <3>. QED  BY <1>5, <3>1
  <2>3. ASSUME NEW e \in 1..(Len(WithLow) - 1) PROVE At(t.v6excIdx, e - 1) < At(t.v6excIdx, e)
    <3> DEFINE d == e - 1
    <3>1. d \in 0..(Len(WithLow) - 1) /\ e \in 0..(Len(WithLow) - 1) /\ d + 1 < e + 1
      BY <1>4
    <3>2. /\ d + 1 \in 1..Len(WithLow) /\ e + 1 \in 1..Len(WithLow)
          /\ At(t.v6excIdx, d) = WithLow[d + 1] /\ At(t.v6excIdx, e) = WithLow[e + 1]
      BY <1>5, <3>1
    <3>3. WithLow[d + 1] < WithLow[e + 1]
      BY <1>3, <3>1, <3>2
    <3>. QED  BY <3>2, <3>3
  <2>. QED  BY <1>1, <1>2, <1>4, <2>1, <2>2, <2>3 DEF ListedV6
<1>7. ASSUME NEW i \in 0..(n6 - 1) PROVE Start6(t, i) = Start1(i)
  <2>1. Start1(i) = <<Start1(i)[1], Low6(i)>> /\ At(t.v6starts, i) = Start1(i)[1]
    BY <1>1, <1>2 DEF Low6
  <2>2. CASE Low6(i) = 0
    <3>1. ~\E e \in 0..(t.nExc - 1) : At(t.v6excIdx, e) = i
      BY <1>2, <1>3, <1>5, <2>2
    <3>. QED  BY <1>6, <2>1, <2>2, <3>1, OneLowHalf
  <2>3. CASE Low6(i) # 0
    <3>1. PICK x \in 1..Len(WithLow) : WithLow[x] = i
      BY <1>3, <2>3
    <3> DEFINE e == x - 1
    <3>2. e \in 0..(Len(WithLow) - 1) /\ e + 1 = x
      BY <1>4
    <3>3. At(t.v6excIdx, e) = i /\ At(t.v6excLo, e) = Low6(i)
      BY <1>5, <3>1, <3>2
    <3>4. e \in 0..(t.nExc - 1)
      BY <1>2, <3>2
    <3> HIDE DEF e
    <3>. QED  BY <1>6, <2>1, <3>3, <3>4, OneLowHalf
  <2>. QED  BY <2>2, <2>3
<1>. QED  BY <1>6, <1>7 DEF t


(* What transcode built is as the searches take for granted.               *)
LEMMA Searchable1 ==
  ASSUME GEO1Input, Table4OK, Table6OK
  PROVE  SearchableV4(GEO1Tables) /\ SearchableV6(GEO1Tables)
<1>1. SplitV4(GEO1Tables)
  BY SplitOf1 DEF Table4OK
<1>2. SearchableV4(GEO1Tables)
  BY <1>1, SplitIsSearchable
<1>3. /\ ListedV6(GEO1Tables)
      /\ \A i \in 0..(n6 - 1) : Start6(GEO1Tables, i) = Start1(i)
  BY ListedOf1
<1>4. n6 \in Nat /\ GEO1Tables.nV6 = n6
  BY Values1, Tables1
<1>5. ASSUME NEW i \in 1..(n6 - 1) PROVE Less128(Start6(GEO1Tables, i - 1), Start6(GEO1Tables, i))
  <2>1. i \in 0..(n6 - 1) /\ i - 1 \in 0..(n6 - 1)
    BY <1>4
  <2>2. Start6(GEO1Tables, i) = Start1(i) /\ Start6(GEO1Tables, i - 1) = Start1(i - 1)
    BY <1>3, <2>1
  <2>3. Less128(Start1(i - 1), Start1(i))
    BY DEF Table6OK, Ascending6
  <2>. QED  BY <2>2, <2>3
<1>6. \A i \in 1..(GEO1Tables.nV6 - 1) : Less128(Start6(GEO1Tables, i - 1), Start6(GEO1Tables, i))
  BY <1>4, <1>5
<1>. QED  BY <1>2, <1>3, <1>6, ListedIsSearchable


-----------------------------------------------------------------------------
(* transcode's strings: a string used gets one id, in the order of columns *)
(* and of records within one, and keeps it.                                *)
Strings1    == 1..(ns - 1)
Elements(s) == {s[c] : c \in 1..Len(s)}
Once        == {s \in Seq(Strings1) : \A c, d \in 1..Len(s) : s[c] = s[d] => c = d}
Extends(s, used) == Len(used) <= Len(s) /\ \A c \in 1..Len(used) : s[c] = used[c]

(* A sequence of strings without repetition in a bounded number of steps.  *)
LEMMA ExtendsIs ==
  ASSUME NEW a \in Once, NEW b \in Once, NEW c \in Once
  PROVE  /\ Len(a) \in Nat /\ Extends(a, a)
         /\ Extends(c, b) /\ Extends(b, a) => Extends(c, a)
<1>1. Len(a) \in Nat /\ Len(b) \in Nat /\ Len(c) \in Nat
  BY DEF Once
<1>2. Extends(a, a)
  BY <1>1 DEF Extends
<1>3. ASSUME Extends(c, b), Extends(b, a) PROVE Extends(c, a)
  <2>1. \A x \in 1..Len(a) : x \in 1..Len(b)
    BY <1>1, <1>3 DEF Extends
  <2>. QED  BY <1>1, <1>3, <2>1 DEF Extends
<1>. QED  BY <1>1, <1>2, <1>3

LEMMA AssignIs ==
  ASSUME GEO1Input, NEW used \in Once, NEW o \in Nat
  PROVE  /\ Assign(used, o) \in Once
         /\ Extends(Assign(used, o), used)
         /\ Elements(Assign(used, o)) = Elements(used) \union ({o} \cap Strings1)
<1>1. ns \in Nat /\ used \in Seq(Strings1) /\ Len(used) \in Nat
  BY Values1 DEF Once
<1>2. Extends(used, used)
  BY ExtendsIs
<1>3. o \in Strings1 <=> ~(o = 0 \/ o >= ns)
  BY <1>1 DEF Strings1
<1>4. CASE o \notin Strings1
  <2>1. Assign(used, o) = used
    BY <1>3, <1>4 DEF Assign
  <2>. QED  BY <1>2, <1>4, <2>1
<1>5. CASE o \in Strings1 /\ Contains(used, o)
  <2>1. Assign(used, o) = used
    BY <1>5 DEF Assign
  <2>2. o \in Elements(used)
    BY <1>5 DEF Contains, Elements
  <2>. QED  BY <1>2, <2>1, <2>2
<1>6. CASE o \in Strings1 /\ ~Contains(used, o)
  <2> DEFINE s == Append(used, o)
  <2>1. Assign(used, o) = s
    BY <1>3, <1>6 DEF Assign
  <2>2. /\ s \in Seq(Strings1) /\ Len(s) = Len(used) + 1 /\ s[Len(used) + 1] = o
        /\ \A x \in 1..Len(used) : s[x] = used[x]
    BY <1>1, <1>6, Appended
  <2> HIDE DEF s
  <2>3. \A x \in 1..Len(used) : used[x] # o
    BY <1>6 DEF Contains
  <2>4. \A x \in 1..Len(s) : x \in 1..Len(used) \/ x = Len(used) + 1
    BY <1>1, <2>2
  <2>5. s \in Once
    <3>1. ASSUME NEW c \in 1..Len(s), NEW d \in 1..Len(s), s[c] = s[d] PROVE c = d
      <4>1. c \in 1..Len(used) /\ d \in 1..Len(used) => c = d
        BY <2>2, <3>1 DEF Once
      <4>. QED  BY <2>2, <2>3, <2>4, <3>1, <4>1
    <3>. QED  BY <2>2, <3>1 DEF Once
  <2>6. Extends(s, used)
    BY <1>1, <2>2 DEF Extends
  <2>7. \A x \in 1..Len(used) : x \in 1..Len(s)
    BY <1>1, <2>2
  <2>8. Len(used) + 1 \in 1..Len(s)
    BY <1>1, <2>2
  <2>9. Elements(s) = Elements(used) \union {o}
    BY <2>2, <2>4, <2>7, <2>8 DEF Elements
  <2>. QED  BY <1>6, <2>1, <2>5, <2>6, <2>9
<1>. QED  BY <1>4, <1>5, <1>6

LEMMA AssignColumnIs ==
  ASSUME GEO1Input, rc > 0, NEW used \in Once, NEW f \in Nat
  PROVE  /\ AssignColumn(used, f) \in Once
         /\ Extends(AssignColumn(used, f), used)
         /\ Elements(AssignColumn(used, f)) = Elements(used) \union Needed({f})
<1> DEFINE n == rc - 1
           step == [q \in (1..n) \X Once |-> Assign(q[2], Field(q[1], f))]
           Col == CHOOSE g : g = [i \in 0..(rc - 1) |-> IF i = 0 THEN used ELSE Assign(g[i - 1], Field(i, f))]
           Met(m) == {Field(i, f) : i \in 1..m} \cap Strings1
<1>1. rc \in Nat /\ n \in Nat /\ \A i \in Int : Field(i, f) \in Nat
  <2>1. rc \in Nat /\ \A i, c \in Int : Field(i, c) \in Nat
    BY Values1
  <2>. QED  BY <2>1
<1>2. step \in [(1..n) \X Once -> Once]
  <2>1. ASSUME NEW q \in (1..n) \X Once PROVE Assign(q[2], Field(q[1], f)) \in Once
    BY <1>1, AssignIs
  <2>. QED  BY <2>1
<1>3. PICK F \in [0..n -> Once] : Recurses(F, used, step, n)
  <2> HIDE DEF step, n
  <2>. QED  BY <1>1, <1>2, Recursion
<1>4. F = [i \in 0..(rc - 1) |-> IF i = 0 THEN used ELSE Assign(F[i - 1], Field(i, f))]
  <2>1. ASSUME NEW j \in 0..n, j # 0 PROVE step[<<j, F[j - 1]>>] = Assign(F[j - 1], Field(j, f))
    <3>1. j \in 1..n /\ F[j - 1] \in Once
      BY <1>1, <2>1
    <3>. QED  BY <3>1
  <2>2. \A j \in 0..n : F[j] = IF j = 0 THEN used ELSE Assign(F[j - 1], Field(j, f))
    <3> HIDE DEF step
    <3>. QED  BY <1>3, <2>1 DEF Recurses
  <2> HIDE DEF step
  <2>. QED  BY <2>2
<1>5. Col = [i \in 0..(rc - 1) |-> IF i = 0 THEN used ELSE Assign(Col[i - 1], Field(i, f))]
  BY <1>4
<1>6. AssignColumn(used, f) = Col[n]
  BY DEF AssignColumn
<1> HIDE DEF step, Col
<1>7. \A m \in 0..n : Col[m] \in Once /\ Extends(Col[m], used) /\ Elements(Col[m]) = Elements(used) \union Met(m)
  <2> DEFINE T == {m \in 0..n : /\ Col[m] \in Once /\ Extends(Col[m], used)
                                /\ Elements(Col[m]) = Elements(used) \union Met(m)}
  <2>1. 0 \in T
    <3>1. 0 \in 0..n
      BY <1>1
    <3>2. Col[0] = used
      BY <1>5, <3>1
    <3>3. Met(0) = {}
      OBVIOUS
    <3>. QED  BY <3>1, <3>2, <3>3, ExtendsIs
  <2>2. ASSUME NEW m \in 0..(n - 1), m \in T PROVE m + 1 \in T
    <3>1. m + 1 \in 0..n /\ m + 1 # 0 /\ (m + 1) - 1 = m /\ m \in 0..n /\ m + 1 \in Int /\ m \in Nat
      BY <1>1
    <3>2. Col[m + 1] = Assign(Col[m], Field(m + 1, f))
      BY <1>5, <3>1
    <3>3. Field(m + 1, f) \in Nat /\ Col[m] \in Once /\ Extends(Col[m], used)
          /\ Elements(Col[m]) = Elements(used) \union Met(m)
      BY <1>1, <2>2, <3>1
    <3>4. /\ Col[m + 1] \in Once /\ Extends(Col[m + 1], Col[m])
          /\ Elements(Col[m + 1]) = Elements(Col[m]) \union ({Field(m + 1, f)} \cap Strings1)
      <4>1. \A c \in Once, o \in Nat :
              /\ Assign(c, o) \in Once /\ Extends(Assign(c, o), c)
              /\ Elements(Assign(c, o)) = Elements(c) \union ({o} \cap Strings1)
        BY AssignIs
      <4>. QED  BY <3>2, <3>3, <4>1, SMTT(30)
    <3>5. Extends(Col[m + 1], used)
      BY <3>3, <3>4, ExtendsIs
    <3>6. 1..(m + 1) = (1..m) \union {m + 1}
      BY <3>1
    <3>7. Met(m + 1) = Met(m) \union ({Field(m + 1, f)} \cap Strings1)
      BY <3>6
    <3>8. Elements(Col[m + 1]) = Elements(used) \union Met(m + 1)
      <4> HIDE DEF Met
      <4>. QED  BY <3>3, <3>4, <3>7
    <3> HIDE DEF Met, n
    <3>. QED  BY <3>1, <3>4, <3>5, <3>8
  <2>3. 0..n \subseteq T
    <3> HIDE DEF T, n
    <3>. QED  BY <1>1, <2>1, <2>2, UpTo
  <2> HIDE DEF Met, n
  <2>. QED  BY <2>3
<1>8. n \in 0..n
  BY <1>1
<1>9. Needed({f}) = Met(n)
  BY DEF Needed, Strings1
<1> HIDE DEF n, Met
<1>. QED  BY <1>6, <1>7, <1>8, <1>9


LEMMA U16FieldsIs ==
  /\ U16Fields(Profile1) \in Seq(Nat) /\ CityField \in Nat
  /\ CityField \notin Range(U16Fields(Profile1))
<1>1. ASSUME NEW S, {0, 1, 2, 4, 5, 11} \subseteq S PROVE U16Fields(Profile1) \in Seq(S)
  <2>1. <<0, 1, 2>> \in Seq(S) /\ <<4, 5>> \in Seq(S) /\ <<11>> \in Seq(S) /\ <<>> \in Seq(S)
    BY <1>1
  <2>2. \A a, b, c \in Seq(S) : a \o b \o c \in Seq(S)
    OBVIOUS
  <2>. QED  BY <2>1, <2>2 DEF U16Fields
<1>2. U16Fields(Profile1) \in Seq(Nat)
  BY <1>1
<1>3. CityField \notin Range(U16Fields(Profile1))
  <2> DEFINE S == Nat \ {6}
             U == U16Fields(Profile1)
  <2>1. U \in Seq(S)
    BY <1>1
  <2> HIDE DEF S, U
  <2>2. DOMAIN U = 1..Len(U) /\ \A x \in 1..Len(U) : U[x] \in S
    BY <2>1, Element
  <2>3. Range(U) \subseteq S
    BY <2>2 DEF Range
  <2>. QED  BY <2>3 DEF S, U, CityField
<1>. QED  BY <1>2, <1>3 DEF CityField

(* The strings of 16-bit fields, and those of all, are what records use.   *)
LEMMA Used16Is ==
  ASSUME GEO1Input, rc > 0
  PROVE  Used16 \in Once /\ Elements(Used16) = Needed(Range(U16Fields(Profile1)))
<1> DEFINE U == U16Fields(Profile1)
           n == Len(U)
           step == [q \in (1..n) \X Once |-> AssignColumn(q[2], U[q[1]])]
           Cols == CHOOSE g : g = [c \in 0..Len(U) |-> IF c = 0 THEN <<>> ELSE AssignColumn(g[c - 1], U[c])]
           Met(m) == Needed({U[c] : c \in 1..m})
<1>1. U \in Seq(Nat) /\ n \in Nat /\ DOMAIN U = 1..n
  <2>1. U \in Seq(Nat)
    BY U16FieldsIs
  <2> HIDE DEF U
  <2>. QED  BY <2>1
<1> HIDE DEF U
<1>2. <<>> \in Once /\ Elements(<<>>) = {}
  BY DEF Once, Elements
<1>3. step \in [(1..n) \X Once -> Once]
  <2>1. ASSUME NEW q \in (1..n) \X Once PROVE AssignColumn(q[2], U[q[1]]) \in Once
    <3>1. q[1] \in 1..n /\ q[2] \in Once
      OBVIOUS
    <3>2. U[q[1]] \in Nat
      BY <1>1, <3>1, Element
    <3>. QED  BY <3>1, <3>2, AssignColumnIs
  <2>. QED  BY <2>1
<1>4. PICK F \in [0..n -> Once] : Recurses(F, <<>>, step, n)
  <2> HIDE DEF step, n
  <2>. QED  BY <1>1, <1>2, <1>3, Recursion
<1>5. F = [c \in 0..Len(U) |-> IF c = 0 THEN <<>> ELSE AssignColumn(F[c - 1], U[c])]
  <2>1. ASSUME NEW j \in 0..n, j # 0 PROVE step[<<j, F[j - 1]>>] = AssignColumn(F[j - 1], U[j])
    <3>1. j \in 1..n /\ F[j - 1] \in Once
      BY <1>1, <2>1
    <3>. QED  BY <3>1
  <2>2. \A j \in 0..n : F[j] = IF j = 0 THEN <<>> ELSE AssignColumn(F[j - 1], U[j])
    <3> HIDE DEF step
    <3>. QED  BY <1>4, <2>1 DEF Recurses
  <2> HIDE DEF step
  <2>. QED  BY <2>2
<1>6. Cols = [c \in 0..Len(U) |-> IF c = 0 THEN <<>> ELSE AssignColumn(Cols[c - 1], U[c])]
  BY <1>5
<1>7. Used16 = Cols[n]
  BY DEF Used16, U
<1> HIDE DEF step, Cols
<1>8. \A m \in 0..n : Cols[m] \in Once /\ Elements(Cols[m]) = Met(m)
  <2> DEFINE T == {m \in 0..n : Cols[m] \in Once /\ Elements(Cols[m]) = Met(m)}
  <2>1. 0 \in T
    <3>1. 0 \in 0..n /\ Cols[0] = <<>>
      BY <1>1, <1>6
    <3>2. {U[c] : c \in 1..0} = {}
      OBVIOUS
    <3>3. Met(0) = {}
      BY <3>2 DEF Needed
    <3>. QED  BY <1>2, <3>1, <3>3
  <2>2. ASSUME NEW m \in 0..(n - 1), m \in T PROVE m + 1 \in T
    <3>1. m + 1 \in 0..n /\ m + 1 # 0 /\ (m + 1) - 1 = m /\ m + 1 \in 1..n /\ m \in Nat
      BY <1>1
    <3>2. Cols[m + 1] = AssignColumn(Cols[m], U[m + 1])
      BY <1>6, <3>1
    <3>3. Cols[m] \in Once /\ Elements(Cols[m]) = Met(m)
      BY <2>2
    <3>4. U[m + 1] \in Nat
      BY <1>1, <3>1, Element
    <3>5. /\ Cols[m + 1] \in Once
          /\ Elements(Cols[m + 1]) = Elements(Cols[m]) \union Needed({U[m + 1]})
      BY <3>2, <3>3, <3>4, AssignColumnIs
    <3>6. 1..(m + 1) = (1..m) \union {m + 1}
      BY <3>1
    <3>7. {U[c] : c \in 1..(m + 1)} = {U[c] : c \in 1..m} \union {U[m + 1]}
      BY <3>6
    <3>8. \A A, B : Needed(A \union B) = Needed(A) \union Needed(B)
      BY DEF Needed
    <3>9. Met(m + 1) = Met(m) \union Needed({U[m + 1]})
      BY <3>7, <3>8
    <3> HIDE DEF Met, n
    <3>. QED  BY <3>1, <3>3, <3>5, <3>9
  <2>3. 0..n \subseteq T
    <3> HIDE DEF T, n
    <3>. QED  BY <1>1, <2>1, <2>2, UpTo
  <2> HIDE DEF Met, n
  <2>. QED  BY <2>3
<1>9. n \in 0..n /\ Range(U) = {U[c] : c \in 1..n}
  BY <1>1 DEF Range
<1>10. Met(n) = Needed(Range(U))
  BY <1>9
<1> HIDE DEF n, Met
<1>. QED  BY <1>7, <1>8, <1>9, <1>10 DEF U

LEMMA UsedStringsIs ==
  ASSUME GEO1Input, rc > 0
  PROVE  /\ UsedStrings \in Once /\ Extends(UsedStrings, Used16)
         /\ Elements(UsedStrings) = Needed(StringFields(Profile1))
<1>1. Used16 \in Once /\ Elements(Used16) = Needed(Range(U16Fields(Profile1)))
  BY Used16Is
<1>2. CASE Profile1 >= City
  <2>1. UsedStrings = AssignColumn(Used16, CityField)
    BY <1>2 DEF UsedStrings
  <2>2. /\ UsedStrings \in Once /\ Extends(UsedStrings, Used16)
        /\ Elements(UsedStrings) = Elements(Used16) \union Needed({CityField})
    BY <1>1, <2>1, U16FieldsIs, AssignColumnIs
  <2>3. StringFields(Profile1) = Range(U16Fields(Profile1)) \union {CityField}
    BY <1>2 DEF StringFields
  <2>4. \A A, B : Needed(A \union B) = Needed(A) \union Needed(B)
    BY DEF Needed
  <2>. QED  BY <1>1, <2>2, <2>3, <2>4
<1>3. CASE ~(Profile1 >= City)
  <2>1. UsedStrings = Used16 /\ StringFields(Profile1) = Range(U16Fields(Profile1))
    BY <1>3 DEF UsedStrings, StringFields
  <2>. QED  BY <1>1, <2>1, ExtendsIs
<1>. QED  BY <1>2, <1>3

LEMMA OnceCounts ==
  ASSUME NEW s \in Once
  PROVE  IsFiniteSet(Elements(s)) /\ Cardinality(Elements(s)) = Len(s)
<1> DEFINE n == Len(s)
           f == [c \in 1..n |-> s[c]]
<1>1. n \in Nat
  BY DEF Once
<1>2. f \in Bijection(1..n, Elements(s))
  <2>1. f \in [1..n -> Elements(s)]
    BY DEF Elements
  <2>2. \A a, b \in 1..n : f[a] = f[b] => a = b
    BY DEF Once
  <2>3. \A t \in Elements(s) : \E a \in 1..n : f[a] = t
    BY DEF Elements
  <2> HIDE DEF f, n
  <2>. QED  BY <2>1, <2>2, <2>3 DEF Bijection, Injection, Surjection, IsInjective
<1>3. ExistsBijection(1..n, Elements(s))
  BY <1>2 DEF ExistsBijection
<1>4. IsFiniteSet(1..n) /\ Cardinality(1..n) = n
  <2> HIDE DEF n
  <2>. QED  BY <1>1, FS_Interval
<1>. QED  BY <1>3, <1>4, FS_Bijection

(* A string has the one id it was given; 0 and what is past the table, 0.  *)
LEMMA MapStrIs ==
  ASSUME GEO1Input, rc > 0, NEW o \in Nat
  PROVE  /\ o \notin Elements(UsedStrings) => MapStr(o) = 0
         /\ \A id \in 1..Len(UsedStrings) : UsedStrings[id] = o => MapStr(o) = id
<1>1. ns \in Nat /\ UsedStrings \in Once
  BY Values1, UsedStringsIs
<1>2. UsedStrings \in Seq(Strings1) /\ DOMAIN UsedStrings = 1..Len(UsedStrings)
  BY <1>1 DEF Once
<1>3. ASSUME o \notin Elements(UsedStrings) PROVE MapStr(o) = 0
  BY <1>2, <1>3 DEF MapStr, Elements
<1>4. ASSUME NEW id \in 1..Len(UsedStrings), UsedStrings[id] = o PROVE MapStr(o) = id
  <2>1. UsedStrings[id] \in Strings1
    BY <1>2, Element
  <2>2. o < ns
    BY <1>1, <1>4, <2>1 DEF Strings1
  <2>3. \A x \in DOMAIN UsedStrings : UsedStrings[x] = o => x = id
    BY <1>1, <1>2, <1>4 DEF Once
  <2>. QED  BY <1>2, <1>4, <2>2, <2>3 DEF MapStr
<1>. QED  BY <1>3, <1>4


(* What every field reads as: the id fits, and is of the string meant.     *)
LEMMA Packed1Is ==
  ASSUME GEO1Input, Header1OK, rc > 0, ~TooManyStrings,
         NEW i \in 1..(rc - 1), NEW f \in StringFields(Profile1)
  PROVE  /\ Packed1(i, f) \in 0..Len(UsedStrings)
         /\ Str1(Packed1(i, f)) = Meant(Field(i, f))
<1> DEFINE o == Field(i, f)
           m == IF f = CityField THEN MaxUint24 + 1 ELSE MaxUint16 + 1
           U == Range(U16Fields(Profile1))
           L == Len(UsedStrings)
<1>1. ns \in Nat /\ rc \in Nat
  BY Values1
<1>2. f \in Nat /\ (f # CityField => f \in U) /\ (f = CityField => Profile1 >= City)
  <2>1. U \subseteq Nat /\ CityField \in Nat /\ CityField \notin U
    <3> DEFINE V == U16Fields(Profile1)
    <3>1. V \in Seq(Nat) /\ CityField \in Nat /\ CityField \notin Range(V)
      BY U16FieldsIs
    <3> HIDE DEF V
    <3>2. DOMAIN V = 1..Len(V) /\ \A x \in 1..Len(V) : V[x] \in Nat
      BY <3>1, Element
    <3>3. Range(V) \subseteq Nat
      BY <3>2 DEF Range
    <3>. QED  BY <3>1, <3>3 DEF V
  <2>. QED  BY <2>1 DEF StringFields
<1>3. o \in Nat
  <2>1. \A a, c \in Int : Field(a, c) \in Nat
    BY Values1
  <2>2. i \in Int /\ f \in Int
    BY <1>1, <1>2
  <2>. QED  BY <2>1, <2>2
<1>4. /\ UsedStrings \in Once /\ Extends(UsedStrings, Used16) /\ Used16 \in Once
      /\ Elements(UsedStrings) = Needed(StringFields(Profile1)) /\ Elements(Used16) = Needed(U)
  BY UsedStringsIs, Used16Is
<1>5. L \in Nat /\ Len(Used16) \in Nat
  BY <1>4 DEF Once
<1>6. Len(Used16) <= MaxUint16 /\ (Profile1 >= City => L <= MaxUint24)
  BY <1>5, NaturalSizes DEF TooManyStrings
<1>7. m \in Nat \ {0} /\ Packed1(i, f) = MapStr(o) % m
  BY NaturalSizes DEF Packed1
<1>8. CASE o = 0 \/ o >= ns
  <2>1. o \notin Elements(UsedStrings)
    BY <1>1, <1>3, <1>4, <1>8 DEF Needed
  <2>2. MapStr(o) = 0
    BY <1>3, <2>1, MapStrIs
  <2>3. 0 % m = 0
    <3> HIDE DEF m
    <3>. QED  BY <1>7
  <2>4. Packed1(i, f) = 0
    BY <1>7, <2>2, <2>3
  <2>5. Meant(o) = ""
    BY <1>8 DEF Meant
  <2>6. 0 \in 0..L
    BY <1>5
  <2>. QED  BY <2>4, <2>5, <2>6 DEF Str1
<1>9. CASE ~(o = 0 \/ o >= ns)
  <2>1. o \in 1..(ns - 1)
    BY <1>1, <1>3, <1>9
  <2>2. \E id \in 1..L : UsedStrings[id] = o /\ id < m
    <3>1. CASE f = CityField
      <4>1. o \in Elements(UsedStrings)
        BY <1>4, <2>1 DEF Needed
      <4>2. PICK id \in 1..L : UsedStrings[id] = o
        BY <4>1 DEF Elements
      <4>3. id < m
        BY <1>2, <1>5, <1>6, <3>1, NaturalSizes
      <4>. QED  BY <4>2, <4>3
    <3>2. CASE f # CityField
      <4>1. o \in Elements(Used16)
        BY <1>2, <1>4, <2>1, <3>2 DEF Needed
      <4>2. PICK id \in 1..Len(Used16) : Used16[id] = o
        BY <4>1 DEF Elements
      <4>3. UsedStrings[id] = o /\ id \in 1..L
        BY <1>4, <1>5, <4>2 DEF Extends
      <4>4. id < m
        BY <1>5, <1>6, <3>2, NaturalSizes
      <4>. QED  BY <4>3, <4>4
    <3>. QED  BY <3>1, <3>2
  <2>3. PICK id \in 1..L : UsedStrings[id] = o /\ id < m
    BY <2>2
  <2>4. MapStr(o) = id
    BY <1>3, <2>3, MapStrIs
  <2>5. id % m = id
    <3> HIDE DEF m, L
    <3>. QED  BY <1>5, <1>7, <2>3
  <2>6. Packed1(i, f) = id
    BY <1>7, <2>4, <2>5
  <2>7. id # 0 /\ id \in 0..L
    BY <1>5
  <2>8. Str1(id) = Str(o).text
    BY <2>3, <2>7 DEF Str1
  <2>9. Meant(o) = Str(o).text
    BY <1>9 DEF Meant
  <2>. QED  BY <2>6, <2>7, <2>8, <2>9
<1>. QED  BY <1>8, <1>9

LEMMA Decodable1 ==
  ASSUME GEO1Input, Header1OK, rc > 0, ~TooManyStrings, Table4OK, Table6OK
  PROVE  Decodable(GEO1Tables)
<1> DEFINE t == GEO1Tables
           L == Len(UsedStrings)
<1>1. n4 \in Nat /\ n6 \in Nat /\ rc \in Nat
  BY Values1
<1>2. /\ t.nV4 = n4 /\ t.nV6 = n6 /\ t.nRecords = rc /\ t.nStrings = L + 1
      /\ \A i \in 0..(n4 - 1) : At(t.v4ids, i) = At(file.ids4, i)
      /\ \A i \in 0..(n6 - 1) : At(t.v6ids, i) = At(file.ids6, i)
      /\ \A r \in 0..(rc - 1) :
           t.stringsOf[r] = IF r = 0 THEN {0} ELSE {Packed1(r, f) : f \in StringFields(Profile1)}
  BY Tables1
<1>3. /\ \A i \in 0..(n4 - 1) : At(file.ids4, i) < rc
      /\ \A i \in 0..(n6 - 1) : At(file.ids6, i) < rc
  BY DEF Table4OK, Table6OK, IdsBelow
<1>4. L \in Nat
  BY UsedStringsIs DEF Once
<1> HIDE DEF t, L
<1>5. ASSUME NEW r \in 0..(rc - 1) PROVE t.stringsOf[r] \subseteq 0..L
  <2>1. CASE r = 0
    <3>1. t.stringsOf[r] = {0}
      BY <1>2, <2>1
    <3>. QED  BY <1>4, <3>1
  <2>2. CASE r # 0
    <3>1. r \in 1..(rc - 1)
      BY <1>1, <2>2
    <3>2. \A f \in StringFields(Profile1) : Packed1(r, f) \in 0..L
      BY <3>1, Packed1Is DEF L
    <3>3. t.stringsOf[r] = {Packed1(r, f) : f \in StringFields(Profile1)}
      BY <1>2, <2>2
    <3>. QED  BY <3>2, <3>3
  <2>. QED  BY <2>1, <2>2
<1>6. (L + 1) - 1 = L
  BY <1>4
<1>. QED  BY <1>2, <1>3, <1>5, <1>6 DEF Decodable, t

-----------------------------------------------------------------------------
(* "Any input that opens is safe to look up in" (format.go), of both       *)
(* formats: see OpenedIsSafe.                                              *)
LEMMA SafeFromOInv == OInv => OpenedIsSafe
<1>1. SUFFICES ASSUME OInv, stage = "open"
      PROVE SearchableV4(TablesOpened) /\ SearchableV6(TablesOpened) /\ Decodable(TablesOpened)
  BY DEF OpenedIsSafe
<1>2. IsInput(file) /\ Known /\ file.size <= MaxFileSize
  BY <1>1 DEF OInv, Begun
<1>3. CASE file.magic = "GEO2"
  <2>1. GEO2Input
    BY <1>2, <1>3 DEF GEO2Input
  <2>2. /\ HeaderOK /\ DirectoryOK /\ LengthsOK /\ StringsOK /\ RecordsOK /\ IPv4OK /\ IPv6OK
        /\ ExtensionsOK /\ (hasF => XRecordsOK)
    BY <1>1, <1>3 DEF OInv, Checked2, PastHeader, PastDirectory, PastLengths, PastCRC, PastMeta, PastStrings,
              PastRecords, PastIPv4, PastIPv6, PastExtensions, PastLangs, PastXRecords
  <2>3. TablesOpened = GEO2Tables
    BY <1>3 DEF TablesOpened
  <2>4. SearchableV4(GEO2Tables) /\ SearchableV6(GEO2Tables)
    BY <2>1, <2>2, Searchable2
  <2>5. Decodable(GEO2Tables)
    BY <1>2, <2>1, <2>2, Decodable2
  <2>. QED  BY <2>3, <2>4, <2>5
<1>4. CASE file.magic # "GEO2"
  <2>1. GEO1Input
    BY <1>2, <1>4 DEF GEO1Input, Known
  <2>2. Header1OK /\ rc > 0 /\ Table4OK /\ Table6OK /\ ~TooManyStrings
    BY <1>1, <2>1 DEF OInv, Checked1, GEO1Input
  <2>3. TablesOpened = GEO1Tables
    BY <1>4 DEF TablesOpened
  <2>. QED  BY <2>1, <2>2, <2>3, Searchable1, Decodable1
<1>. QED  BY <1>3, <1>4

THEOREM InputOpenedIsSafe == OpenSpec => []OpenedIsSafe
<1>. QED  BY OpenInvariance, SafeFromOInv, PTL

(* A GEO1 input keeps its answers, and is refused as too large only for    *)
(* strings its ids cannot tell apart: see GEO1Kept.                        *)
LEMMA KeptFromOInv == OInv => GEO1Kept
<1>1. SUFFICES ASSUME OInv, file.magic = "GEO1" PROVE GEO1Kept
  BY DEF GEO1Kept
<1>2. GEO1Input
  BY <1>1 DEF OInv, Begun, GEO1Input
<1>3. ASSUME stage = "open"
      PROVE  /\ \A i \in 1..(rc - 1), f \in StringFields(Profile1) :
                  Str1(Packed1(i, f)) = Meant(Field(i, f))
             /\ \A i \in 0..(n4 - 1) :
                  /\ Start4(GEO1Tables, i) = At(file.starts4, i)
                  /\ At(GEO1Tables.v4ids, i) = At(file.ids4, i)
             /\ \A i \in 0..(n6 - 1) :
                  /\ Start6(GEO1Tables, i) = Start1(i)
                  /\ At(GEO1Tables.v6ids, i) = At(file.ids6, i)
  <2>1. Header1OK /\ rc > 0 /\ Table4OK /\ Table6OK /\ ~TooManyStrings
    BY <1>1, <1>3 DEF OInv, Checked1
  <2>2. \A i \in 0..(n4 - 1) : Start4(GEO1Tables, i) = At(file.starts4, i)
    BY <1>2, <2>1, SplitOf1 DEF Table4OK
  <2>3. \A i \in 0..(n6 - 1) : Start6(GEO1Tables, i) = Start1(i)
    BY <1>2, <2>1, ListedOf1
  <2>4. /\ \A i \in 0..(n4 - 1) : At(GEO1Tables.v4ids, i) = At(file.ids4, i)
        /\ \A i \in 0..(n6 - 1) : At(GEO1Tables.v6ids, i) = At(file.ids6, i)
    BY <1>2, <2>1, Tables1
  <2>. QED  BY <1>2, <2>1, <2>2, <2>3, <2>4, Packed1Is
<1>4. ASSUME outcome = "ErrTooLarge", file.size <= MaxFileSize
      PROVE  \/ Cardinality(Needed(Range(U16Fields(Profile1)))) > MaxUint16
             \/ Cardinality(Needed(StringFields(Profile1))) > MaxUint24
  <2>1. Header1OK /\ rc > 0 /\ TooManyStrings
    BY <1>1, <1>4 DEF OInv, Checked1
  <2>2. /\ UsedStrings \in Once /\ Used16 \in Once
        /\ Elements(UsedStrings) = Needed(StringFields(Profile1))
        /\ Elements(Used16) = Needed(Range(U16Fields(Profile1)))
    BY <1>2, <2>1, UsedStringsIs, Used16Is
  <2>3. /\ Cardinality(Needed(Range(U16Fields(Profile1)))) = Len(Used16)
        /\ Cardinality(Needed(StringFields(Profile1))) = Len(UsedStrings)
    BY <2>2, OnceCounts
  <2>4. Len(Used16) \in Nat /\ Len(UsedStrings) \in Nat
    BY <2>2 DEF Once
  <2>5. Len(Used16) > MaxUint16 \/ Len(UsedStrings) > MaxUint24
    BY <2>1, <2>4, NaturalSizes DEF TooManyStrings
  <2>. QED  BY <2>3, <2>5
<1>. QED  BY <1>3, <1>4 DEF GEO1Kept

THEOREM InputGEO1Kept == OpenSpec => []GEO1Kept
<1>. QED  BY OpenInvariance, KeptFromOInv, PTL


-----------------------------------------------------------------------------
(* What a GEO2 check reads, by the ways it reads.                          *)
InBounds(r) == r.lo <= r.hi /\ r.hi <= Length(r.sec)

LEMMA WordsIn ==
  ASSUME GEO2Input, NEW id, id # 0, NEW w \in Nat, NEW n \in Nat, n * w <= N(id), NEW K \in SUBSET (0..(n - 1)),
         NEW r \in Words(id, w, K)
  PROVE  InBounds(r)
<1>1. PICK k \in K : r = Piece(id, k * w, k * w + w)
  BY DEF Words
<1> DEFINE a == k * w
           b == n * w
<1>2. k \in 0..(n - 1)
  OBVIOUS
<1>3. a \in Nat /\ a <= a + w /\ a + w <= b /\ b \in Nat
  BY <1>2, WordFits
<1>4. N(id) \in Nat /\ b <= N(id)
  BY Lengths2
<1>5. r.lo = a /\ r.hi = a + w /\ r.sec = id
  BY <1>1 DEF Piece
<1>6. Length(r.sec) = N(id)
  BY <1>5 DEF Length
<1> HIDE DEF a, b
<1>. QED  BY <1>3, <1>4, <1>5, <1>6 DEF InBounds

(* An entry of the directory ends in the input: its sum does not wrap.     *)
LEMMA EntryIn ==
  ASSUME GEO2Input, DirectoryOK, file.size <= MaxFileSize, NEW k \in Entries
  PROVE  InBounds(EntryBytes(k))
<1>1. k \in Int /\ file.size \in Nat
  BY Values2 DEF Entries
<1>2. Dir(k).off \in Nat /\ Dir(k).len \in Nat
  <2>1. Dir(k) \in [id : Nat, off : Words64, len : Words64, crcOK : BOOLEAN]
    BY <1>1, Lengths2
  <2>2. Words64 \subseteq Nat
    BY NaturalSizes DEF Words64
  <2>. QED  BY <2>1, <2>2
<1>3. Dir(k).len <= file.size /\ Dir(k).off <= file.size - Dir(k).len
  BY DEF DirectoryOK, EntryOK, Fits
<1> DEFINE a == Dir(k).off
           b == Dir(k).len
           z == a + b
<1>4. a \in Nat /\ b \in Nat
  BY <1>2
<1>5. z <= file.size /\ z \in Nat /\ a <= z
  BY <1>1, <1>3, <1>4
<1>6. z < Word64
  BY <1>1, <1>5, NaturalSizes
<1>7. z % Word64 = z
  <2> HIDE DEF z
  <2>. QED  BY <1>5, <1>6, NaturalSizes
<1>8. EntryBytes(k) = Piece(0, a, z)
  BY <1>7 DEF EntryBytes
<1> HIDE DEF a, b, z
<1>. QED  BY <1>1, <1>5, <1>8 DEF InBounds, Piece, Length

(* A string is between two offsets that are in STRBLOB. *)
LEMMA StringIn ==
  ASSUME GEO2Input, HeaderOK, LengthsOK, StringsOK, NEW id \in 0..(nStrings - 1), NEW r \in StringRead(id)
  PROVE  InBounds(r)
<1>1. nStrings \in Nat /\ (nStrings + 1) * 4 = N(SecStrIdx) /\ N(SecStrBlob) \in Nat
  BY Counts2, Lengths2
<1>2. \A i \in Int : StrIdx(i) \in Nat
  BY Values2
<1> DEFINE F == [i \in Int |-> StrIdx(i)]
<1>3. \A a, b \in 0..nStrings : a <= b => F[a] <= F[b]
  <2>1. \A m \in 0..nStrings : F[m] \in Int
    BY <1>2
  <2>2. ASSUME NEW m \in 0..(nStrings - 1) PROVE F[m] <= F[m + 1]
    <3>1. m + 1 \in 1..nStrings /\ (m + 1) - 1 = m /\ m \in Int /\ m + 1 \in Int
      BY <1>1
    <3>2. StrIdx(m) <= StrIdx(m + 1)
      BY <3>1 DEF StringsOK
    <3>. QED  BY <3>1, <3>2
  <2> HIDE DEF F
  <2>. QED  BY <1>1, <2>1, <2>2, Rises
<1>4. /\ id \in 0..nStrings /\ id + 1 \in 0..nStrings /\ nStrings \in 0..nStrings
      /\ id <= id + 1 /\ id + 1 <= nStrings /\ id \in Int /\ id + 1 \in Int
  BY <1>1
<1>5. StrIdx(id) <= StrIdx(id + 1) /\ StrIdx(id + 1) <= StrIdx(nStrings)
  <2>1. F[id] = StrIdx(id) /\ F[id + 1] = StrIdx(id + 1) /\ F[nStrings] = StrIdx(nStrings)
    BY <1>1, <1>4
  <2> HIDE DEF F
  <2>. QED  BY <1>3, <1>4, <2>1
<1>6. StrIdx(nStrings) = N(SecStrBlob)
  BY DEF StringsOK
<1>7. CASE r \in Words(SecStrIdx, 4, {id, id + 1})
  <2> DEFINE n == nStrings + 1
             K == {id, id + 1}
  <2>1. n \in Nat /\ K \in SUBSET (0..(n - 1)) /\ n * 4 <= N(SecStrIdx)
    BY <1>1
  <2>2. SecStrIdx # 0 /\ r \in Words(SecStrIdx, 4, K)
    BY <1>7 DEF SecStrIdx
  <2> HIDE DEF n, K
  <2>. QED  BY <2>1, <2>2, WordsIn
<1>8. CASE r = Piece(SecStrBlob, StrIdx(id), StrIdx(id + 1))
  BY <1>5, <1>6, <1>8 DEF InBounds, Piece, Length, SecStrBlob
<1>. QED  BY <1>7, <1>8 DEF StringRead

LEMMA StartsIn ==
  ASSUME GEO2Input, HeaderOK, LengthsOK, NEW g \in 0..(Buckets - 1), BoundsOK(g),
         NEW r \in Words(SecV4Starts, 2, V4Idx(g)..(V4Idx(g + 1) - 1))
  PROVE  InBounds(r)
<1> DEFINE K == V4Idx(g)..(V4Idx(g + 1) - 1)
<1>1. nV4 \in Nat /\ nV4 * 2 = N(SecV4Starts)
  BY Counts2
<1>2. g \in Int /\ g + 1 \in Int
  OBVIOUS
<1>3. V4Idx(g) \in Nat /\ V4Idx(g + 1) \in Nat
  BY <1>2, Values2
<1>4. K \in SUBSET (0..(nV4 - 1))
  BY <1>1, <1>3 DEF BoundsOK
<1>5. SecV4Starts # 0 /\ r \in Words(SecV4Starts, 2, K)
  BY DEF SecV4Starts
<1>6. nV4 * 2 <= N(SecV4Starts)
  BY <1>1
<1> HIDE DEF K
<1>. QED  BY <1>1, <1>4, <1>5, <1>6, WordsIn

(* parseGEO2 works "without reading past b" (geo2.go): see ReadsInBounds.  *)
LEMMA BoundsFromOInv == OInv => ReadsInBounds
<1> USE DEF PastHeader, PastDirectory, PastLengths, PastCRC, PastMeta, PastStrings,
            PastRecords, PastIPv4, PastIPv6, PastExtensions, PastLangs, PastXRecords
<1>1. SUFFICES ASSUME OInv, file.magic = "GEO2", NEW r \in Reads PROVE InBounds(r)
  BY DEF ReadsInBounds, InBounds, OInv, Begun
<1>2. IsInput(file) /\ Checked2 /\ GEO2Input
  BY <1>1 DEF OInv, Begun, GEO2Input
<1>3. ASSUME stage \notin {"Open", "OpenBytes", "refused"} PROVE file.size <= MaxFileSize
  BY <1>1, <1>3 DEF OInv, Begun
<1>4. file.size \in Nat /\ hdr.count \in Nat
  BY <1>2, Values2
<1>5. /\ stage \in PastHeader => HeaderOK
      /\ stage \in PastDirectory => DirectoryOK
      /\ stage \in PastLengths => LengthsOK
      /\ stage \in PastStrings => StringsOK
      /\ stage \in PastIPv4 => IPv4OK
      /\ stage \in PastIPv6 => IPv6OK
      /\ stage \in PastExtensions => ExtensionsOK
      /\ stage \in {"langs", "xrecords"} => hasF
      /\ stage = "langs" => Has(SecLangs)
  BY <1>2 DEF Checked2
<1>6. ASSUME HeaderOK, LengthsOK
      PROVE  /\ nStrings \in Nat /\ nStrings + 1 \in Nat /\ (nStrings + 1) * 4 <= N(SecStrIdx)
             /\ nRecords \in Nat /\ nRecords * RecordWidth(hdr.profile) <= N(SecRecords)
             /\ nV4 \in Nat /\ nV4 * hdr.idWidth <= N(SecV4IDs)
             /\ nV6 \in Nat /\ nV6 * 8 <= N(SecV6Starts) /\ nV6 * hdr.idWidth <= N(SecV6IDs)
             /\ nExc \in Nat /\ nExc * 4 <= N(SecV6ExcIdx) /\ nExc * 8 <= N(SecV6ExcLo)
             /\ Buckets + 1 \in Nat /\ (Buckets + 1) * 4 <= N(SecV4Idx)
             /\ RecordWidth(hdr.profile) \in Nat /\ hdr.idWidth \in Nat
  <2>1. \A id : N(id) \in Nat
    BY <1>2, Lengths2
  <2>2. \A x \in Nat : x <= x
    OBVIOUS
  <2>3. Buckets + 1 \in Nat
    BY NaturalSizes
  <2>4. nStrings \in Nat /\ nRecords \in Nat /\ nV4 \in Nat /\ nV6 \in Nat /\ nExc \in Nat
        /\ RecordWidth(hdr.profile) \in Nat /\ hdr.idWidth \in Nat
    BY <1>2, <1>6, Counts2
  <2>5. nStrings + 1 \in Nat
    BY <2>4
  <2>. QED  BY <1>2, <1>6, <2>1, <2>2, <2>3, <2>4, <2>5, Counts2
<1>18. ASSUME NEW id, id # 0, NEW w \in Nat, NEW n \in Nat, n * w <= N(id), r \in Words(id, w, 0..(n - 1))
       PROVE  InBounds(r)
  <2> DEFINE K == 0..(n - 1)
  <2>1. K \in SUBSET (0..(n - 1)) /\ r \in Words(id, w, K)
    BY <1>18
  <2> HIDE DEF K
  <2>. QED  BY <1>2, <1>18, <2>1, WordsIn
<1>19. /\ SecRecords # 0 /\ SecV4IDs # 0 /\ SecV6IDs # 0 /\ SecV6Starts # 0
       /\ SecV6ExcIdx # 0 /\ SecV6ExcLo # 0
  BY DEF SecRecords, SecV4IDs, SecV6IDs, SecV6Starts, SecV6ExcIdx, SecV6ExcLo
<1>7. CASE stage = "directory"
  <2>1. r = Piece(0, HeaderSize, DirectoryEnd) /\ DirectoryEnd <= file.size
    BY <1>1, <1>7 DEF Reads
  <2>2. HeaderSize <= DirectoryEnd
    BY <1>4 DEF HeaderSize, DirectoryEnd, DirEntrySize
  <2>. QED  BY <2>1, <2>2 DEF InBounds, Piece, Length
<1>8. CASE stage = "crc"
  <2>1. PICK k \in Entries : r = EntryBytes(k)
    BY <1>1, <1>8 DEF Reads
  <2>. QED  BY <1>2, <1>3, <1>5, <1>8, <2>1, EntryIn
<1>9. CASE stage = "meta"
  <2>1. PICK k \in Entries : r = EntryBytes(k)
    BY <1>1, <1>9 DEF Reads, SectionsRead
  <2>. QED  BY <1>2, <1>3, <1>5, <1>9, <2>1, EntryIn
<1>10. CASE stage = "strings"
  <2> DEFINE n == nStrings + 1
  <2>1. r \in Words(SecStrIdx, 4, 0..nStrings)
    BY <1>1, <1>10 DEF Reads
  <2>2. HeaderOK /\ LengthsOK
    BY <1>5, <1>10
  <2>3. n \in Nat /\ n * 4 <= N(SecStrIdx) /\ 0..nStrings \in SUBSET (0..(n - 1)) /\ SecStrIdx # 0
    BY <1>6, <2>2 DEF SecStrIdx
  <2> HIDE DEF n
  <2>. QED  BY <1>2, <2>1, <2>3, WordsIn
<1>11. CASE stage = "records"
  <2>1. HeaderOK /\ LengthsOK
    BY <1>5, <1>11
  <2>2. CASE r \in Words(SecRecords, RecordWidth(hdr.profile), 0..(nRecords - 1))
    BY <1>6, <1>18, <1>19, <2>1, <2>2
  <2>3. CASE r \in IdWords(SecV4IDs, nV4)
    BY <1>6, <1>18, <1>19, <2>1, <2>3 DEF IdWords
  <2>4. CASE r \in IdWords(SecV6IDs, nV6)
    BY <1>6, <1>18, <1>19, <2>1, <2>4 DEF IdWords
  <2>. QED  BY <1>1, <1>11, <2>2, <2>3, <2>4 DEF Reads
<1>12. CASE stage = "ipv4"
  <2>1. HeaderOK /\ LengthsOK
    BY <1>5, <1>12
  <2>2. CASE r \in Words(SecV4Idx, 4, 0..Buckets)
    <3> DEFINE n == Buckets + 1
    <3>1. n \in Nat /\ n * 4 <= N(SecV4Idx) /\ 0..Buckets \in SUBSET (0..(n - 1)) /\ SecV4Idx # 0
      BY <1>6, <2>1, NaturalSizes DEF SecV4Idx
    <3> HIDE DEF n
    <3>. QED  BY <1>2, <2>2, <3>1, WordsIn
  <2>3. CASE r \in StartsRead
    <3>1. PICK g \in 0..(Buckets - 1) :
            BoundsOK(g) /\ r \in Words(SecV4Starts, 2, V4Idx(g)..(V4Idx(g + 1) - 1))
      BY <2>3 DEF StartsRead
    <3>. QED  BY <1>2, <2>1, <3>1, StartsIn
  <2>. QED  BY <1>1, <1>12, <2>2, <2>3 DEF Reads
<1>13. CASE stage = "ipv6"
  <2>1. HeaderOK /\ LengthsOK
    BY <1>5, <1>13
  <2>2. CASE r \in Words(SecV6ExcIdx, 4, 0..(nExc - 1))
    BY <1>6, <1>18, <1>19, <2>1, <2>2
  <2>3. CASE r \in Words(SecV6ExcLo, 8, 0..(nExc - 1))
    BY <1>6, <1>18, <1>19, <2>1, <2>3
  <2>4. CASE r \in Words(SecV6Starts, 8, 0..(nV6 - 1))
    BY <1>6, <1>18, <1>19, <2>1, <2>4
  <2>. QED  BY <1>1, <1>13, <2>2, <2>3, <2>4 DEF Reads
<1>14. CASE stage = "langs"
  <2>1. HeaderOK /\ DirectoryOK /\ LengthsOK /\ StringsOK /\ ExtensionsOK /\ hasF /\ Has(SecLangs)
    BY <1>5, <1>14
  <2>2. file.size <= MaxFileSize
    BY <1>3, <1>14
  <2>3. nLangs \in Nat /\ nLangs * 4 = N(SecLangs) /\ N(SecLangs) \in Nat /\ nStrings \in Nat
    BY <1>2, <1>6, <2>1, <2>2, Layout2, Lengths2
  <2>4. CASE r \in Words(SecLangs, 4, 0..(nLangs - 1))
    <3>1. nLangs * 4 <= N(SecLangs) /\ SecLangs # 0
      BY <2>3 DEF SecLangs
    <3>. QED  BY <1>2, <2>3, <2>4, <3>1, WordsIn
  <2>5. CASE r \in LangsRead
    <3>1. CASE \E j \in 0..(nLangs - 1) : Lang(j) < nStrings /\ r \in StringRead(Lang(j))
      <4>1. PICK j \in 0..(nLangs - 1) : Lang(j) < nStrings /\ r \in StringRead(Lang(j))
        BY <3>1
      <4>2. Lang(j) \in Nat
        BY <1>2, Values2
      <4>3. Lang(j) \in 0..(nStrings - 1)
        BY <2>3, <4>1, <4>2
      <4>. QED  BY <1>2, <2>1, <4>1, <4>3, StringIn
    <3>2. CASE r \in StringRead(file.meta.language)
      <4>1. file.meta.language \in Nat /\ file.meta.language < nStrings
        <5>1. file.meta.language \in file.meta.ids /\ file.meta.ids \subseteq Nat
          BY <1>2, Values2
        <5>2. \A m \in file.meta.ids : m < nStrings
          BY <2>1 DEF StringsOK
        <5>. QED  BY <5>1, <5>2
      <4>2. file.meta.language \in 0..(nStrings - 1)
        BY <2>3, <4>1
      <4>. QED  BY <1>2, <2>1, <3>2, <4>2, StringIn
    <3>. QED  BY <2>5, <3>1, <3>2 DEF LangsRead
  <2>. QED  BY <1>1, <1>14, <2>4, <2>5 DEF Reads
<1>15. CASE stage = "xrecords"
  <2>1. HeaderOK /\ DirectoryOK /\ LengthsOK /\ ExtensionsOK /\ hasF
    BY <1>5, <1>15
  <2>2. file.size <= MaxFileSize
    BY <1>3, <1>15
  <2>3. /\ entryWidth \in Nat /\ N(SecXRecords) = entryWidth * nRecords /\ N(SecXRecords) \in Nat
        /\ nRecords \in Nat
    BY <1>2, <1>6, <2>1, <2>2, Layout2, Lengths2
  <2>4. /\ \A o \in IdOffsets : o \in Nat /\ o + 3 <= entryWidth
        /\ \A o \in FlagOffsets : o \in Nat /\ o + 1 <= entryWidth
    BY <1>2, <2>1, <2>2, OffsetsFit
  <2>5. SecXRecords # 0 /\ Length(SecXRecords) = N(SecXRecords)
    BY DEF SecXRecords, Length
  <2>6. ASSUME nRecords > 0 PROVE entryWidth <= N(SecXRecords)
    <3>1. entryWidth * 1 <= entryWidth * nRecords
      BY <2>3, <2>6, FitsWidth
    <3>. QED  BY <2>3, <3>1
  <2>7. CASE r \in Words(SecXRecords, entryWidth, IF entryWidth = 0 THEN {} ELSE 0..(nRecords - 1))
    <3> DEFINE K == IF entryWidth = 0 THEN {} ELSE 0..(nRecords - 1)
    <3>1. nRecords * entryWidth <= N(SecXRecords)
      BY <2>3
    <3>2. K \in SUBSET (0..(nRecords - 1)) /\ r \in Words(SecXRecords, entryWidth, K)
      BY <2>7
    <3> HIDE DEF K
    <3>. QED  BY <1>2, <2>3, <2>5, <3>1, <3>2, WordsIn
  <2>8. CASE \E o \in IdOffsets : nRecords > 0 /\ r = Piece(SecXRecords, o, o + 3)
    <3>1. PICK o \in IdOffsets : nRecords > 0 /\ r = Piece(SecXRecords, o, o + 3)
      BY <2>8
    <3>2. r.lo = o /\ r.hi = o + 3 /\ Length(r.sec) = N(SecXRecords)
      BY <2>5, <3>1 DEF Piece
    <3>3. o \in Nat /\ o + 3 <= entryWidth /\ entryWidth <= N(SecXRecords)
      BY <2>4, <2>6, <3>1
    <3>. QED  BY <2>3, <3>2, <3>3 DEF InBounds
  <2>9. CASE \E o \in FlagOffsets : nRecords > 0 /\ r = Piece(SecXRecords, o, o + 1)
    <3>1. PICK o \in FlagOffsets : nRecords > 0 /\ r = Piece(SecXRecords, o, o + 1)
      BY <2>9
    <3>2. r.lo = o /\ r.hi = o + 1 /\ Length(r.sec) = N(SecXRecords)
      BY <2>5, <3>1 DEF Piece
    <3>3. o \in Nat /\ o + 1 <= entryWidth /\ entryWidth <= N(SecXRecords)
      BY <2>4, <2>6, <3>1
    <3>. QED  BY <2>3, <3>2, <3>3 DEF InBounds
  <2>. QED  BY <1>1, <1>15, <2>7, <2>8, <2>9 DEF Reads
<1>16. CASE stage = "reader"
  <2>1. HeaderOK /\ LengthsOK /\ StringsOK /\ IPv4OK /\ IPv6OK
    BY <1>5, <1>16
  <2>2. CASE \E i \in 0..(nStrings - 1) : r \in StringRead(i)
    BY <1>2, <2>1, <2>2, StringIn
  <2>3. CASE r \in Words(SecV6Starts, 8, {ExcIdx(j) : j \in 0..(nExc - 1)})
    <3> DEFINE K == {ExcIdx(j) : j \in 0..(nExc - 1)}
    <3>1. \A j \in 0..(nExc - 1) : ExcIdx(j) \in Nat /\ ExcIdx(j) < nV6
      <4>1. \A j \in 0..(nExc - 1) : j \in Int
        OBVIOUS
      <4>2. \A j \in Int : ExcIdx(j) \in Nat
        BY <1>2, Values2
      <4>3. \A j \in 0..(nExc - 1) : ExcIdx(j) < nV6
        BY <2>1 DEF IPv6OK, ExceptionOK
      <4>. QED  BY <4>1, <4>2, <4>3
    <3>2. nV6 \in Nat /\ nV6 * 8 <= N(SecV6Starts) /\ SecV6Starts # 0
      BY <1>6, <2>1 DEF SecV6Starts
    <3>3. K \in SUBSET (0..(nV6 - 1)) /\ r \in Words(SecV6Starts, 8, K)
      BY <2>3, <3>1, <3>2
    <3> HIDE DEF K
    <3>. QED  BY <1>2, <3>2, <3>3, WordsIn
  <2>4. CASE \E g \in 0..(Buckets - 1) : r \in Words(SecV4Starts, 2, V4Idx(g)..(V4Idx(g + 1) - 1))
    <3>1. PICK g \in 0..(Buckets - 1) : r \in Words(SecV4Starts, 2, V4Idx(g)..(V4Idx(g + 1) - 1))
      BY <2>4
    <3>2. BoundsOK(g)
      BY <2>1 DEF IPv4OK, BucketOK
    <3>. QED  BY <1>2, <2>1, <3>1, <3>2, StartsIn
  <2>. QED  BY <1>1, <1>16, <2>2, <2>3, <2>4 DEF Reads
<1>17. CASE stage \notin {"directory", "crc", "meta", "strings", "records", "ipv4", "ipv6", "langs", "xrecords", "reader"}
  BY <1>1, <1>17 DEF Reads
<1>. QED  BY <1>7, <1>8, <1>9, <1>10, <1>11, <1>12, <1>13, <1>14, <1>15, <1>16, <1>17

THEOREM InputReadsInBounds == OpenSpec => []ReadsInBounds
<1>. QED  BY OpenInvariance, BoundsFromOInv, PTL
=============================================================================
