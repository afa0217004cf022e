------------------------ MODULE AtomicReplaceProofs -------------------------
(***************************************************************************)
(* Proofs about AtomicReplace, for any number of builds, of processes that *)
(* map the database and of losses of power: the path names complete files  *)
(* only, with the mode to keep or, once os.Stat has failed, a new file's;  *)
(* no failed build touches it or leaves a file behind, and no file changes *)
(* while it is mapped.                                                     *)
(***************************************************************************)
EXTENDS AtomicReplace, TLAPS

Steps == {"Stat", "CreateTemp", "Write", "Chmod", "Sync", "Close", "Rename",
          "Remove", "ok", "error"}

(* The file e names, if it names one, can be used, and a crash leaves it as *)
(* it is.                                                                   *)
Durable(e) ==
  Resolve(e) \in Regular =>
    /\ content[Resolve(e)] = "complete" /\ mode[Resolve(e)] \in RightModes
    /\ Resolve(e) \in dataSynced /\ Resolve(e) \in modeSynced

(* The path, now or after a crash, is what it was at first or the file of a *)
(* build that has returned, in this life of the machine or an earlier one.  *)
NamesFinished(e) ==
  \/ e = initial
  \/ \E w \in Writers, c \in 0..crashes :
       e = <<w, c>> /\ (c = crashes => pc[w] = "ok")

(* How far a build has come with its file. *)
Progress(w) ==
  /\ pc[w] # "Stat" => perm[w] \in RightModes
  /\ pc[w] \in {"Chmod", "Sync", "Close", "Rename"} => content[Temp(w)] = "complete"
  /\ pc[w] \in {"Sync", "Close", "Rename"} => mode[Temp(w)] = perm[w]
  /\ pc[w] \in {"Close", "Rename"} => Temp(w) \in dataSynced \intersect modeSynced
  /\ pc[w] \in {"Stat", "CreateTemp", "ok", "error"} => Temp(w) \notin temps

IInv ==
  /\ TypeOK
  /\ \A e \in afterCrash : Durable(e) /\ NamesFinished(e)
  /\ \A w \in Writers : Progress(w)
  /\ \A u \in Users : mapped[u] # None => \E e \in afterCrash : mapped[u] = Resolve(e)

-----------------------------------------------------------------------------
(* The names of files are distinct. *)
LEMMA Names ==
  ASSUME NEW f \in TempFiles
  PROVE  /\ f \notin {None, Old, Link, Directory}
         /\ f \in Regular /\ Resolve(f) = f
<1>1. PICK w \in Writers, c \in 0..MaxCrashes : f = <<w, c>>
  BY DEF TempFiles
<1>2. w \notin {"none", "old", "link", "directory"}
  BY WritersAssumption
<1>3. f \notin {None, Old, Link, Directory}
  BY <1>1, <1>2 DEF None, Old, Link, Directory
<1>. QED  BY <1>3 DEF Regular, Resolve

LEMMA OtherNames ==
  /\ Resolve(Old) = Old /\ Resolve(Link) = Old /\ Resolve(None) = None
  /\ Resolve(Directory) = Directory /\ Old \in Regular
  /\ None \notin Regular /\ Directory \notin Regular /\ None # Old
<1>1. None \notin TempFiles /\ Directory \notin TempFiles
  BY Names
<1>. QED  BY <1>1 DEF None, Old, Link, Directory, Resolve, Regular

LEMMA TempName ==
  ASSUME TypeOK, NEW w \in Writers
  PROVE  /\ Temp(w) \in TempFiles /\ Temp(w) \in Regular
         /\ Resolve(Temp(w)) = Temp(w)
         /\ Temp(w) \notin {None, Old, Link, Directory}
         /\ \A v \in Writers : Temp(v) = Temp(w) => v = w
<1>1. Temp(w) \in TempFiles
  BY DEF TypeOK, Temp, TempFiles
<1>2. \A v \in Writers : Temp(v) = Temp(w) => v = w
  BY DEF Temp
<1>. QED  BY <1>1, <1>2, Names

(* Until a build returns nothing names its file. *)
LEMMA Unnamed ==
  ASSUME IInv, NEW w \in Writers, pc[w] # "ok", NEW e \in afterCrash
  PROVE  e # Temp(w) /\ Resolve(e) # Temp(w)
<1>1. /\ NamesFinished(e) /\ TypeOK
      /\ Temp(w) \notin {None, Old, Link, Directory}
      /\ initial \in {None, Old, Link, Directory}
  BY TempName DEF IInv, TypeOK
<1>2. e # Temp(w)
  BY <1>1 DEF NamesFinished, Temp
<1>3. Resolve(e) # Temp(w)
  BY <1>1, <1>2 DEF Resolve
<1>. QED  BY <1>2, <1>3

(* A mode that is right stays so: os.Stat fails once and for all. *)
LEMMA RightModesGrow ==
  ASSUME initial' = initial, statFailed => statFailed'
  PROVE  RightModes \subseteq RightModes'
BY DEF RightModes, KeptMode, Resolve

(* What is durable does not depend on other files. *)
LEMMA DurableStays ==
  ASSUME TypeOK, NEW e, Durable(e), initial' = initial, statFailed => statFailed',
         Resolve(e) \in Regular =>
           /\ content'[Resolve(e)] = content[Resolve(e)]
           /\ mode'[Resolve(e)] = mode[Resolve(e)]
           /\ Resolve(e) \in dataSynced' /\ Resolve(e) \in modeSynced'
  PROVE  Durable(e)'
BY RightModesGrow DEF Durable, Resolve, Regular

(* A step of a build that has not returned, before it renames its file: it  *)
(* changes nothing but that file and what the build knows.                  *)
OwnStep(w) ==
  /\ pc[w] # "ok"
  /\ \E s \in Steps : pc' = [pc EXCEPT ![w] = s]
  /\ statFailed => statFailed'
  /\ UNCHANGED <<initial, path, afterCrash, mapped, crashes>>
  /\ \A f \in Regular \ {Temp(w)} :
       /\ content'[f] = content[f] /\ mode'[f] = mode[f]
       /\ f \in dataSynced' <=> f \in dataSynced
       /\ f \in modeSynced' <=> f \in modeSynced
       /\ f \in temps' <=> f \in temps
  /\ \A v \in Writers \ {w} : perm'[v] = perm[v]

LEMMA OwnStepInv ==
  ASSUME IInv, NEW w \in Writers, OwnStep(w), TypeOK', Progress(w)'
  PROVE  IInv'
<1> USE DEF IInv
<1>1. /\ pc[w] # "ok" /\ crashes' = crashes /\ initial' = initial
      /\ statFailed => statFailed'
      /\ afterCrash' = afterCrash /\ mapped' = mapped
      /\ \A v \in Writers \ {w} : pc'[v] = pc[v] /\ perm'[v] = perm[v]
  BY DEF OwnStep, TypeOK
<1>2. ASSUME NEW e \in afterCrash'
      PROVE  Durable(e)' /\ NamesFinished(e)'
  <2>1. e \in afterCrash /\ Durable(e) /\ NamesFinished(e) /\ Resolve(e) # Temp(w)
    BY <1>1, <1>2, Unnamed
  <2>2. Durable(e)'
    <3>1. Resolve(e) \in Regular =>
            /\ content'[Resolve(e)] = content[Resolve(e)]
            /\ mode'[Resolve(e)] = mode[Resolve(e)]
            /\ Resolve(e) \in dataSynced' /\ Resolve(e) \in modeSynced'
      BY <2>1 DEF OwnStep, Durable
    <3>. QED  BY <1>1, <2>1, <3>1, DurableStays
  <2>3. NamesFinished(e)'
    BY <1>1, <2>1 DEF NamesFinished
  <2>. QED  BY <2>2, <2>3
<1>3. ASSUME NEW v \in Writers PROVE Progress(v)'
  <2>1. CASE v = w
    BY <2>1
  <2>2. CASE v # w
    <3>1. /\ Temp(v) \in Regular \ {Temp(w)} /\ Temp(v)' = Temp(v)
          /\ RightModes \subseteq RightModes'
      BY <1>1, <2>2, TempName, RightModesGrow DEF Temp
    <3>2. /\ content'[Temp(v)] = content[Temp(v)] /\ mode'[Temp(v)] = mode[Temp(v)]
          /\ Temp(v) \in dataSynced' <=> Temp(v) \in dataSynced
          /\ Temp(v) \in modeSynced' <=> Temp(v) \in modeSynced
          /\ Temp(v) \in temps' <=> Temp(v) \in temps
      BY <3>1 DEF OwnStep
    <3>. QED  BY <1>1, <2>2, <3>1, <3>2 DEF Progress
  <2>. QED  BY <2>1, <2>2
<1>4. ASSUME NEW u \in Users, mapped'[u] # None
      PROVE  \E e \in afterCrash' : mapped'[u] = Resolve(e)
  BY <1>1, <1>4
<1>. QED  BY <1>2, <1>3, <1>4 DEF Resolve
-----------------------------------------------------------------------------
(* The invariant holds at first, and every step keeps it. *)
LEMMA InitInv ==
  ASSUME Init
  PROVE  IInv
<1>1. TypeOK
  <2>1. statFailed \in BOOLEAN
    BY DEF Init
  <2>2. initial \in {None, Old, Link, Directory} /\ path = initial
    BY DEF Init
  <2>3. content \in [Regular -> Contents] /\ mode \in [Regular -> Modes]
    BY DEF Init, Contents, Modes, Default
  <2>. QED  BY <2>1, <2>2, <2>3, CrashesAssumption, OtherNames
            DEF Init, TypeOK, Modes, Default, Regular
<1>2. ASSUME NEW e \in afterCrash PROVE Durable(e) /\ NamesFinished(e)
  BY <1>2, OtherNames DEF Init, Durable, RightModes, KeptMode, NamesFinished
<1>3. ASSUME NEW w \in Writers PROVE Progress(w)
  BY DEF Init, Progress
<1>. QED  BY <1>1, <1>2, <1>3 DEF Init, IInv

(* A regular file at path has the mode to keep, and if there is none a new  *)
(* file's mode is the one to give; a failure is no more than the step says. *)
LEMMA StatStep ==
  ASSUME IInv, NEW w \in Writers, Stat(w)
  PROVE  IInv'
<1>1. TypeOK /\ path \in afterCrash /\ Durable(path) /\ NamesFinished(path)
      /\ pc[w] = "Stat" /\ Progress(w)
  BY DEF IInv, TypeOK, Stat, At
<1>0. initial' = initial /\ statFailed' = statFailed
  BY DEF Stat, history
<1>2. perm'[w] \in RightModes
  <2>1. CASE Resolve(path) \in Regular
    BY <1>1, <2>1 DEF Stat, Durable, TypeOK
  <2>2. CASE Resolve(path) \notin Regular
    <3>1. path = initial
      <4>1. ASSUME NEW v \in Writers, NEW c \in 0..crashes, path = <<v, c>>
            PROVE  FALSE
        <5>1. path \in TempFiles
          BY <1>1, <4>1, CrashesAssumption DEF TypeOK, TempFiles
        <5>. QED  BY <2>2, <5>1, Names
      <4>. QED  BY <1>1, <4>1 DEF NamesFinished
    <3>2. KeptMode = Default
      BY <2>2, <3>1, OtherNames DEF KeptMode
    <3>. QED  BY <1>1, <2>2, <3>2 DEF Stat, TypeOK, RightModes
  <2>. QED  BY <2>1, <2>2
<1>3. TypeOK'
  BY <1>0, <1>1, <1>2 DEF Stat, TypeOK, Goto, files, Modes, RightModes, KeptMode
<1>4. OwnStep(w)
  BY <1>0, <1>1, <1>3 DEF Stat, OwnStep, Goto, files, history, Steps, TypeOK
<1>5. Progress(w)'
  <2>1. RightModes \subseteq RightModes'
    BY <1>0, RightModesGrow
  <2>. QED  BY <1>1, <1>2, <2>1 DEF Stat, Progress, Goto, files, TypeOK, Temp
<1>. QED  BY <1>3, <1>4, <1>5, OwnStepInv

(* A failure of os.Stat is on record, and makes a new file's mode right. *)
LEMMA StatFailsStep ==
  ASSUME IInv, NEW w \in Writers, StatFails(w)
  PROVE  IInv'
<1>1. TypeOK /\ pc[w] = "Stat" /\ Progress(w)
  BY DEF IInv, StatFails, At
<1>2. /\ initial' = initial /\ statFailed' = TRUE /\ perm'[w] = Default
      /\ UNCHANGED <<path, afterCrash, content, mode, dataSynced, modeSynced,
                     temps, mapped, crashes>>
      /\ pc' = [pc EXCEPT ![w] = "CreateTemp"] /\ perm' = [perm EXCEPT ![w] = Default]
  BY <1>1 DEF StatFails, Goto, files, TypeOK
<1>3. TypeOK'
  BY <1>1, <1>2 DEF TypeOK, Modes
<1>4. OwnStep(w)
  BY <1>1, <1>2 DEF OwnStep, Steps, TypeOK
<1>5. Progress(w)'
  <2>1. Default \in RightModes'
    BY <1>2 DEF RightModes
  <2>. QED  BY <1>1, <1>2, <2>1 DEF Progress, TypeOK, Temp
<1>. QED  BY <1>3, <1>4, <1>5, OwnStepInv

(* The other steps of a build up to the rename, and after an error. *)
LEMMA WriteStep ==
  ASSUME IInv, NEW w \in Writers,
         \/ CreateTemp(w) \/ CreateTempFails(w) \/ Write(w) \/ Chmod(w)
         \/ Sync(w) \/ Close(w) \/ Fails(w) \/ Remove(w)
  PROVE  IInv'
<1>1. /\ TypeOK /\ Progress(w) /\ Temp(w) \in TempFiles /\ Temp(w) \in Regular
      /\ initial' = initial /\ statFailed' = statFailed
      /\ RightModes' = RightModes /\ Temp(w)' = Temp(w)
  BY TempName DEF IInv, RightModes, KeptMode, Temp, Resolve, history,
                  CreateTemp, CreateTempFails, Write, Chmod, Sync, Close, Fails, Remove
<1>0. SUFFICES TypeOK' /\ OwnStep(w) /\ Progress(w)'
  BY OwnStepInv
<1>2. CASE CreateTemp(w)
  BY <1>1, <1>2 DEF CreateTemp, TypeOK, OwnStep, Progress, At, Goto, files, Steps
<1>3. CASE CreateTempFails(w)
  BY <1>1, <1>3 DEF CreateTempFails, TypeOK, OwnStep, Progress, At, Goto, files, Steps
<1>4. CASE Write(w)
  <2>1. \/ /\ content' = [content EXCEPT ![Temp(w)] = "partial"] /\ pc' = pc
        \/ /\ content' = [content EXCEPT ![Temp(w)] = "complete"]
           /\ pc' = [pc EXCEPT ![w] = "Chmod"]
    BY <1>4 DEF Write, Goto
  <2>2. /\ pc[w] = "Write"
        /\ UNCHANGED <<initial, path, afterCrash, mode, dataSynced, modeSynced,
                       temps, perm, mapped, crashes>>
    BY <1>1, <1>4 DEF Write, At
  <2>3. TypeOK'
    BY <1>1, <2>1, <2>2 DEF TypeOK, Contents
  <2>4. \E s \in Steps : pc' = [pc EXCEPT ![w] = s]
    <3>1. pc = [pc EXCEPT ![w] = pc[w]] /\ pc[w] \in Steps
      BY <1>1 DEF TypeOK, Steps
    <3>2. "Chmod" \in Steps
      BY DEF Steps
    <3>. QED  BY <2>1, <3>1, <3>2
  <2>5. \A f \in Regular \ {Temp(w)} : content'[f] = content[f]
    BY <1>1, <2>1 DEF TypeOK
  <2>6. OwnStep(w)
    BY <1>1, <2>2, <2>4, <2>5 DEF OwnStep
  <2>7. Progress(w)'
    BY <1>1, <2>1, <2>2 DEF Progress, TypeOK
  <2>. QED  BY <2>3, <2>6, <2>7
<1>5. CASE Chmod(w)
  BY <1>1, <1>5 DEF Chmod, TypeOK, OwnStep, Progress, At, Goto, files, Steps
<1>6. CASE Sync(w)
  BY <1>1, <1>6 DEF Sync, TypeOK, OwnStep, Progress, At, Goto, files, Steps
<1>7. CASE Close(w)
  BY <1>1, <1>7 DEF Close, TypeOK, OwnStep, Progress, At, Goto, files, Steps
<1>8. CASE Fails(w)
  BY <1>1, <1>8 DEF Fails, TypeOK, OwnStep, Progress, At, Goto, files, Steps
<1>9. CASE Remove(w)
  BY <1>1, <1>9 DEF Remove, TypeOK, OwnStep, Progress, At, Goto, files, Steps
<1>. QED  BY <1>2, <1>3, <1>4, <1>5, <1>6, <1>7, <1>8, <1>9

(* A file that is renamed has been written, given its mode and synced. *)
LEMMA RenameStep ==
  ASSUME IInv, NEW w \in Writers, Rename(w)
  PROVE  IInv'
<1>1. /\ TypeOK /\ Progress(w) /\ pc[w] = "Rename"
      /\ Temp(w) \in TempFiles /\ Temp(w) \in Regular /\ Resolve(Temp(w)) = Temp(w)
  BY TempName DEF IInv, Rename, At
<1>2. /\ path' = Temp(w) /\ afterCrash' = afterCrash \union {Temp(w)}
      /\ temps' = temps \ {Temp(w)} /\ pc' = [pc EXCEPT ![w] = "ok"]
      /\ UNCHANGED <<initial, statFailed, content, mode, dataSynced, modeSynced, perm,
                     mapped, crashes>>
      /\ RightModes' = RightModes
  BY DEF Rename, Goto, files, history, RightModes, KeptMode, Resolve
<1>3. TypeOK'
  BY <1>1, <1>2 DEF TypeOK
<1>4. ASSUME NEW e \in afterCrash' PROVE Durable(e)' /\ NamesFinished(e)'
  <2>1. CASE e = Temp(w)
    <3>1. Durable(e)
      BY <1>1, <2>1 DEF Durable, Progress
    <3>2. NamesFinished(e)'
      BY <1>1, <1>2, <2>1 DEF NamesFinished, Temp, TypeOK
    <3>. QED  BY <1>2, <3>1, <3>2 DEF Durable, Resolve
  <2>2. CASE e # Temp(w)
    <3>1. Durable(e) /\ NamesFinished(e)
      BY <1>2, <1>4, <2>2 DEF IInv
    <3>2. NamesFinished(e)'
      BY <1>1, <1>2, <3>1 DEF NamesFinished, TypeOK
    <3>. QED  BY <1>2, <3>1, <3>2 DEF Durable, Resolve
  <2>. QED  BY <2>1, <2>2
<1>5. ASSUME NEW v \in Writers PROVE Progress(v)'
  <2>1. Progress(v)
    BY DEF IInv
  <2>. QED  BY <1>1, <1>2, <2>1 DEF Progress, TypeOK, Temp
<1>6. ASSUME NEW u \in Users, mapped'[u] # None
      PROVE  \E e \in afterCrash' : mapped'[u] = Resolve(e)
  BY <1>2, <1>6 DEF IInv
<1>. QED  BY <1>2, <1>3, <1>4, <1>5, <1>6 DEF IInv, Resolve

(* The processes that use the database map what path names. *)
LEMMA UserStep ==
  ASSUME IInv, NEW u \in Users, MapPath(u) \/ Unmap(u)
  PROVE  IInv'
<1>1. /\ TypeOK
      /\ UNCHANGED <<initial, statFailed, path, afterCrash, content, mode, dataSynced,
                     modeSynced, temps, pc, perm, crashes>>
      /\ \E m \in {None, Resolve(path)} :
           m \in Regular \union {None} /\ mapped' = [mapped EXCEPT ![u] = m]
  BY DEF IInv, MapPath, Unmap, files, history
<1>2. TypeOK'
  BY <1>1 DEF TypeOK
<1>3. \A e \in afterCrash' : Durable(e)' /\ NamesFinished(e)'
  BY <1>1 DEF IInv, Durable, NamesFinished, RightModes, KeptMode, Resolve
<1>4. \A w \in Writers : Progress(w)'
  BY <1>1 DEF IInv, Progress, RightModes, KeptMode, Temp, Resolve
<1>5. ASSUME NEW v \in Users, mapped'[v] # None
      PROVE  \E e \in afterCrash' : mapped'[v] = Resolve(e)
  BY <1>1, <1>5 DEF IInv, TypeOK
<1>. QED  BY <1>1, <1>2, <1>3, <1>4, <1>5 DEF IInv, Resolve

(* A loss of power: what the path may name then is as it was synced, and no *)
(* build has a file of this life of the machine yet.                        *)
LEMMA CrashStep ==
  ASSUME IInv, NEW entry \in afterCrash, Crash(entry)
  PROVE  IInv'
<1>1. /\ TypeOK /\ Durable(entry) /\ NamesFinished(entry)
      /\ crashes \in 0..MaxCrashes /\ crashes < MaxCrashes /\ crashes' = crashes + 1
      /\ path' = entry /\ afterCrash' = {entry} /\ temps' = {}
      /\ initial' = initial /\ statFailed' = statFailed
      /\ pc' = [w \in Writers |-> "Stat"] /\ perm' = [w \in Writers |-> Default]
      /\ mapped' = [u \in Users |-> None]
  BY DEF IInv, TypeOK, Crash, history
<1>2. /\ content' = content /\ mode' = mode
      /\ dataSynced' = dataSynced /\ modeSynced' = modeSynced
  <2>1. CASE Resolve(entry) \in Regular
    <3> DEFINE f == Resolve(entry)
    <3>1. Recover(f) /\ f \in dataSynced /\ f \in modeSynced /\ f \in Regular
      BY <1>1, <2>1 DEF Crash, Durable
    <3> HIDE DEF f
    <3>2. ContentsAfter(f) = {content[f]} /\ ModesAfter(f) = {mode[f]}
      BY <3>1 DEF ContentsAfter, ModesAfter
    <3>3. /\ content' = [content EXCEPT ![f] = content[f]]
          /\ mode' = [mode EXCEPT ![f] = mode[f]]
          /\ dataSynced' = dataSynced \union {f} /\ modeSynced' = modeSynced \union {f}
      BY <3>1, <3>2 DEF Recover
    <3>4. content' = content /\ mode' = mode
      BY <1>1, <3>3 DEF TypeOK
    <3>. QED  BY <3>1, <3>3, <3>4
  <2>2. CASE Resolve(entry) \notin Regular
    BY <2>2 DEF Crash, files
  <2>. QED  BY <2>1, <2>2
<1>3. TypeOK'
  BY <1>1, <1>2, CrashesAssumption DEF TypeOK, Modes
<1>4. ASSUME NEW e \in afterCrash' PROVE Durable(e)' /\ NamesFinished(e)'
  <2>1. e = entry
    BY <1>1, <1>4
  <2>2. Durable(e)'
    BY <1>1, <1>2, <2>1 DEF Durable, RightModes, KeptMode, Resolve
  <2>3. NamesFinished(e)'
    <3>1. \A c \in 0..crashes : c \in 0..crashes' /\ c # crashes'
      BY <1>1, CrashesAssumption
    <3>. QED  BY <1>1, <2>1, <3>1 DEF NamesFinished
  <2>. QED  BY <2>2, <2>3
<1>5. \A w \in Writers : Progress(w)'
  BY <1>1 DEF Progress
<1>. QED  BY <1>1, <1>3, <1>4, <1>5 DEF IInv

LEMMA StutterStep ==
  ASSUME IInv, UNCHANGED vars
  PROVE  IInv'
BY DEF IInv, TypeOK, Durable, NamesFinished, Progress, RightModes, KeptMode, Temp,
       Resolve, vars, files, history

LEMMA NextInv ==
  ASSUME IInv, [Next]_vars
  PROVE  IInv'
BY StatStep, StatFailsStep, WriteStep, RenameStep, UserStep, CrashStep, StutterStep DEF Next

(* The invariant, for any number of builds, users and crashes. *)
THEOREM Invariance == Spec => []IInv
<1>1. IInv /\ [Next]_vars => IInv'
  BY NextInv
<1>. QED  BY <1>1, InitInv, PTL DEF Spec

(* Types, of the file system and of the builds (write.go:16-48). *)
THEOREM TypeCorrect == Spec => []TypeOK
<1>1. IInv => TypeOK
  BY DEF IInv
<1>. QED  BY <1>1, Invariance, PTL

(* What path names, whenever it is looked at, is complete (write.go:9). *)
THEOREM NeverTorn == Spec => []PathComplete
<1>1. IInv => PathComplete
  BY DEF IInv, TypeOK, Durable, PathComplete
<1>. QED  BY <1>1, Invariance, PTL

(* ... and has the mode a new or a replaced file is to have (write.go:12), *)
(* or that of a new file after a failure of os.Stat (write.go:16), and     *)
(* never that of a temporary file.                                         *)
THEOREM ModeIsKeptIfRead == Spec => []KeepsModeIfRead
<1>1. IInv => KeepsModeIfRead
  BY DEF IInv, TypeOK, Durable, KeepsModeIfRead
<1>. QED  BY <1>1, Invariance, PTL

(* A build that has not succeeded has not changed path (write.go:11). *)
THEOREM FailureChangesNothing == Spec => []ErrorLeavesPath
<1>1. IInv => ErrorLeavesPath
  BY Unnamed DEF IInv, TypeOK, ErrorLeavesPath
<1>. QED  BY <1>1, Invariance, PTL

(* A build that has returned has left no temporary file (write.go:25-30). *)
THEOREM NothingLeftOver == Spec => []NoTempLeft
<1>1. IInv => NoTempLeft
  BY DEF IInv, Progress, NoTempLeft
<1>. QED  BY <1>1, Invariance, PTL

(* No file is written to while a process has it mapped (README.md:246). *)
THEOREM MappedFilesStay == Spec => MappedUnchanged
<1> DEFINE Same == \A u \in Users :
                     (mapped[u] # None /\ mapped'[u] = mapped[u])
                       => content'[mapped[u]] = content[mapped[u]]
<1>1. ASSUME IInv, Next PROVE Same
  <2>1. SUFFICES ASSUME NEW u \in Users, mapped[u] # None, mapped'[u] = mapped[u]
                 PROVE  content'[mapped[u]] = content[mapped[u]]
    OBVIOUS
  <2>2. PICK e \in afterCrash : mapped[u] = Resolve(e)
    BY <1>1, <2>1 DEF IInv
  <2>3. mapped[u] \in Regular /\ content \in [Regular -> Contents]
    BY <1>1, <2>1 DEF IInv, TypeOK
  <2>4. ASSUME NEW w \in Writers, Write(w)
        PROVE  content'[mapped[u]] = content[mapped[u]]
    <3>1. mapped[u] # Temp(w)
      BY <1>1, <2>2, <2>4, Unnamed DEF Write, At
    <3>. QED  BY <2>3, <2>4, <3>1 DEF Write
  <2>5. ASSUME NEW entry \in afterCrash, Crash(entry) PROVE FALSE
    BY <2>1, <2>5 DEF Crash
  <2>6. (\E w \in Writers : Write(w)) \/ (\E entry \in afterCrash : Crash(entry))
        \/ content' = content
    BY <1>1 DEF Next, Stat, StatFails, CreateTemp, CreateTempFails, Chmod, Sync, Close, Rename,
                Fails, Remove, MapPath, Unmap, files
  <2>. QED  BY <2>4, <2>5, <2>6
<1>2. IInv /\ [Next]_vars => [Same]_vars
  BY <1>1
<1>3. [][Same]_vars => MappedUnchanged
  BY DEF MappedUnchanged
<1>. QED  BY <1>2, <1>3, Invariance, PTL DEF Spec
=============================================================================
