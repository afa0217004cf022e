---------------------------- MODULE AtomicReplace ---------------------------
(***************************************************************************)
(* WriteFileAtomic of internal/build/write.go, with which mmdb.Build and   *)
(* csvdb.Build put a database in place: a temporary file in the same       *)
(* directory is written, given its mode, synced and closed, and then       *)
(* renamed over the path.  Several builds may replace one path at a time,  *)
(* processes that use the database have the file it was mapped from open,  *)
(* and the machine may lose power between any two steps.                   *)
(*                                                                         *)
(* The file system is external.  A rename is atomic, but nothing syncs the *)
(* directory, so that after a crash the path may be any entry it was since *)
(* the last one; data and mode of the file it names survive if they were   *)
(* synced, and may be lost in part if not.  os.Remove is taken to succeed. *)
(* The number of crashes is a bound.                                       *)
(***************************************************************************)
EXTENDS Integers

CONSTANTS Writers, Users, MaxCrashes

ASSUME CrashesAssumption == MaxCrashes \in Nat

(* No build is called as the other files are, below. *)
ASSUME WritersAssumption ==
  {"none", "old", "link", "directory"} \intersect Writers = {}

(* The files: the one there was before, a symbolic link to it, a directory *)
(* and one temporary file per build.  A build dies with a crash.           *)
None      == <<"none", 0>>
Old       == <<"old", 0>>
Link      == <<"link", 0>>
Directory == <<"directory", 0>>
TempFiles == Writers \X (0..MaxCrashes)
Regular   == {Old} \union TempFiles

VARIABLES
  path,         \* the directory entry at path
  afterCrash,   \* the entries it may be after a crash
  content,      \* of each regular file: empty, partial or complete
  mode,         \* its permission bits: 0600, 0644 or those of Old
  dataSynced,   \* the files whose content survives a crash
  modeSynced,   \* ... and whose mode does
  temps,        \* the temporary names of the builds since the last crash
  pc,           \* the next step of each build; ok or error when it returned
  perm,         \* the mode it will give the file
  mapped,       \* the file each user has mapped
  crashes

(* History variables: only properties read them. *)
VARIABLES
  initial,      \* what path was: Old, Link, Directory or None
  statFailed    \* os.Stat has failed on a regular file at path

history == <<initial, statFailed>>
files == <<content, mode, dataSynced, modeSynced>>
vars  == <<history, path, afterCrash, files, temps, pc, perm, mapped, crashes>>

Temp(w)    == <<w, crashes>>
Resolve(e) == IF e = Link THEN Old ELSE e
Default    == "0644"
Contents   == {"empty", "partial", "complete"}
Modes      == {"0600", Default, "old"}

Init ==
  /\ initial \in {None, Old, Link, Directory} /\ statFailed = FALSE
  /\ path = initial /\ afterCrash = {initial}
  /\ content = [f \in Regular |-> IF f = Old THEN "complete" ELSE "empty"]
  /\ mode = [f \in Regular |-> IF f = Old THEN "old" ELSE "0600"]
  /\ dataSynced = {Old} /\ modeSynced = {Old}
  /\ temps = {}
  /\ pc = [w \in Writers |-> "Stat"]
  /\ perm = [w \in Writers |-> Default]
  /\ mapped = [u \in Users |-> None]
  /\ crashes = 0

-----------------------------------------------------------------------------
(* WriteFileAtomic, a step per call it makes *)
At(w, step)   == pc[w] = step
Goto(w, step) == pc' = [pc EXCEPT ![w] = step]

Stat(w) ==
  /\ At(w, "Stat")
  /\ perm' = [perm EXCEPT ![w] =
       IF Resolve(path) \in Regular THEN mode[Resolve(path)] ELSE Default]
  /\ Goto(w, "CreateTemp")
  /\ UNCHANGED <<history, path, afterCrash, files, temps, mapped, crashes>>

(* Any error of os.Stat is taken for a path that names nothing: an input   *)
(* or output error, or a link into a directory that may not be searched.   *)
StatFails(w) ==
  /\ At(w, "Stat")
  /\ Resolve(path) \in Regular
  /\ perm' = [perm EXCEPT ![w] = Default]
  /\ statFailed' = TRUE
  /\ Goto(w, "CreateTemp")
  /\ UNCHANGED <<initial, path, afterCrash, files, temps, mapped, crashes>>

CreateTemp(w) ==
  /\ At(w, "CreateTemp")
  /\ temps' = temps \union {Temp(w)}
  /\ Goto(w, "Write")
  /\ UNCHANGED <<history, path, afterCrash, files, perm, mapped, crashes>>

CreateTempFails(w) ==
  /\ At(w, "CreateTemp")
  /\ Goto(w, "error")
  /\ UNCHANGED <<history, path, afterCrash, files, temps, perm, mapped, crashes>>

(* Mutant: the file at path is written to in place. *)
WriteInPlace(w) ==
  /\ At(w, "Write")
  /\ LET f == IF path \in Regular THEN path ELSE Temp(w) IN
       \/ /\ content[f] # "partial"
          /\ content' = [content EXCEPT ![f] = "partial"]
          /\ UNCHANGED pc
       \/ /\ content[f] = "partial"
          /\ content' = [content EXCEPT ![f] = "complete"]
          /\ Goto(w, "Chmod")
  /\ UNCHANGED <<history, path, afterCrash, mode, dataSynced, modeSynced,
                 temps, perm, mapped, crashes>>

Write(w) ==
  /\ At(w, "Write")
  /\ \/ /\ content[Temp(w)] = "empty"
        /\ content' = [content EXCEPT ![Temp(w)] = "partial"]
        /\ UNCHANGED pc
     \/ /\ content[Temp(w)] = "partial"
        /\ content' = [content EXCEPT ![Temp(w)] = "complete"]
        /\ Goto(w, "Chmod")
  /\ UNCHANGED <<history, path, afterCrash, mode, dataSynced, modeSynced,
                 temps, perm, mapped, crashes>>

Chmod(w) ==
  /\ At(w, "Chmod")
  /\ mode' = [mode EXCEPT ![Temp(w)] = perm[w]]
  /\ modeSynced' = modeSynced \ {Temp(w)}
  /\ Goto(w, "Sync")
  /\ UNCHANGED <<history, path, afterCrash, content, dataSynced, temps, perm,
                 mapped, crashes>>

(* Mutant: the data is synced, but not the mode. *)
SyncDataOnly(w) ==
  /\ At(w, "Sync")
  /\ dataSynced' = dataSynced \union {Temp(w)}
  /\ Goto(w, "Close")
  /\ UNCHANGED <<history, path, afterCrash, content, mode, modeSynced, temps,
                 perm, mapped, crashes>>

(* Mutant: nothing is synced. *)
SyncNothing(w) ==
  /\ At(w, "Sync")
  /\ Goto(w, "Close")
  /\ UNCHANGED <<history, path, afterCrash, files, temps, perm, mapped, crashes>>

Sync(w) ==
  /\ At(w, "Sync")
  /\ dataSynced' = dataSynced \union {Temp(w)}
  /\ modeSynced' = modeSynced \union {Temp(w)}
  /\ Goto(w, "Close")
  /\ UNCHANGED <<history, path, afterCrash, content, mode, temps, perm,
                 mapped, crashes>>

(* Mutant: the file is renamed before it is closed, which may still fail. *)
RenameThenClose(w) ==
  /\ At(w, "Close")
  /\ path # Directory
  /\ path' = Temp(w)
  /\ afterCrash' = afterCrash \union {Temp(w)}
  /\ temps' = temps \ {Temp(w)}
  /\ Goto(w, "Rename")
  /\ UNCHANGED <<history, files, perm, mapped, crashes>>

Close(w) ==
  /\ At(w, "Close")
  /\ Goto(w, "Rename")
  /\ UNCHANGED <<history, path, afterCrash, files, temps, perm, mapped, crashes>>

(* A directory is not replaced by a file. *)
Rename(w) ==
  /\ At(w, "Rename")
  /\ path # Directory
  /\ path' = Temp(w)
  /\ afterCrash' = afterCrash \union {Temp(w)}
  /\ temps' = temps \ {Temp(w)}
  /\ Goto(w, "ok")
  /\ UNCHANGED <<history, files, perm, mapped, crashes>>

(* Each of these calls may fail; the deferred function closes the file and  *)
(* removes it.                                                             *)
Fails(w) ==
  /\ pc[w] \in {"Write", "Chmod", "Sync", "Close", "Rename"}
  /\ Goto(w, "Remove")
  /\ UNCHANGED <<history, path, afterCrash, files, temps, perm, mapped, crashes>>

(* Mutant: the temporary file is closed, but stays. *)
RemoveNothing(w) ==
  /\ At(w, "Remove")
  /\ Goto(w, "error")
  /\ UNCHANGED <<history, path, afterCrash, files, temps, perm, mapped, crashes>>

Remove(w) ==
  /\ At(w, "Remove")
  /\ temps' = temps \ {Temp(w)}
  /\ Goto(w, "error")
  /\ UNCHANGED <<history, path, afterCrash, files, perm, mapped, crashes>>

-----------------------------------------------------------------------------
(* The processes that use the database: Open and mmapFile map the file at  *)
(* path, and the garbage collector unmaps it.                              *)
MapPath(u) ==
  /\ mapped[u] = None
  /\ Resolve(path) \in Regular
  /\ mapped' = [mapped EXCEPT ![u] = Resolve(path)]
  /\ UNCHANGED <<history, path, afterCrash, files, temps, pc, perm, crashes>>

Unmap(u) ==
  /\ mapped[u] # None
  /\ mapped' = [mapped EXCEPT ![u] = None]
  /\ UNCHANGED <<history, path, afterCrash, files, temps, pc, perm, crashes>>

(* Power is lost and comes back; every process is started again.  Only the *)
(* file path names then can be opened again.                               *)
ContentsAfter(f) ==
  IF f \in dataSynced THEN {content[f]} ELSE {"empty", "partial", content[f]}

ModesAfter(f) == IF f \in modeSynced THEN {mode[f]} ELSE {"0600", mode[f]}

Recover(f) ==
  /\ \E c \in ContentsAfter(f) : content' = [content EXCEPT ![f] = c]
  /\ \E m \in ModesAfter(f) : mode' = [mode EXCEPT ![f] = m]
  /\ dataSynced' = dataSynced \union {f}
  /\ modeSynced' = modeSynced \union {f}

Crash(entry) ==
  /\ crashes < MaxCrashes
  /\ crashes' = crashes + 1
  /\ entry \in afterCrash
  /\ path' = entry /\ afterCrash' = {entry}
  /\ IF Resolve(entry) \in Regular
     THEN Recover(Resolve(entry))
     ELSE UNCHANGED files
  /\ pc' = [w \in Writers |-> "Stat"]
  /\ perm' = [w \in Writers |-> Default]
  /\ mapped' = [u \in Users |-> None]
  /\ temps' = {}
  /\ UNCHANGED history

Next ==
  \/ \E w \in Writers :
       \/ Stat(w) \/ StatFails(w) \/ CreateTemp(w) \/ CreateTempFails(w)
       \/ Write(w) \/ Chmod(w) \/ Sync(w) \/ Close(w) \/ Rename(w)
       \/ Fails(w) \/ Remove(w)
  \/ \E u \in Users : MapPath(u) \/ Unmap(u)
  \/ \E entry \in afterCrash : Crash(entry)

Spec == Init /\ [][Next]_vars

-----------------------------------------------------------------------------
(* Properties *)

(* Every variable has its type; the mode a build gives its file is that of *)
(* a regular file or the default, never that of a directory.               *)
TypeOK ==
  /\ initial \in {None, Old, Link, Directory} /\ statFailed \in BOOLEAN
  /\ path \in {None, Link, Directory} \union Regular
  /\ path \in afterCrash
  /\ afterCrash \subseteq {None, Link, Directory} \union Regular
  /\ content \in [Regular -> Contents]
  /\ mode \in [Regular -> Modes]
  /\ dataSynced \subseteq Regular /\ modeSynced \subseteq Regular
  /\ temps \subseteq TempFiles
  /\ pc \in [Writers -> {"Stat", "CreateTemp", "Write", "Chmod", "Sync",
                         "Close", "Rename", "Remove", "ok", "error"}]
  /\ perm \in [Writers -> Modes]
  /\ mapped \in [Users -> Regular \union {None}]
  /\ crashes \in 0..MaxCrashes

(* A file that path names is complete, after a loss of power too: it was   *)
(* "renamed over path only after write, sync and close succeed" (write.go  *)
(* 9), whatever other builds were doing to path.                           *)
PathComplete ==
  Resolve(path) \in Regular => content[Resolve(path)] = "complete"

(* The mode of a new file, or of the file that is replaced.                *)
KeptMode == IF Resolve(initial) = Old THEN "old" ELSE Default

(* ... and, once os.Stat has failed, that of a new file in any case.        *)
RightModes == {KeptMode} \union {m \in {Default} : statFailed}

(* "A new file gets mode 0644; a replaced file keeps its permission bits"  *)
(* (write.go 12), through any number of replacements, concurrent ones and  *)
(* crashes included, and never the 0600 of the temporary file.  That is    *)
(* not so once os.Stat has failed on the file that is replaced: the code   *)
(* takes any error of it for no file (write.go 16) and gives 0644.         *)
KeepsModeIfRead ==
  Resolve(path) \in Regular => mode[Resolve(path)] \in RightModes

(* "On any error ... an existing path is left untouched" (write.go 11):    *)
(* path never names the file of a build that failed or may still fail.     *)
ErrorLeavesPath == \A w \in Writers : pc[w] # "ok" => path # Temp(w)

(* "On any error the temporary file is removed" (write.go 11); nor is it   *)
(* left when the build succeeds.                                           *)
NoTempLeft == \A w \in Writers : pc[w] \in {"ok", "error"} => Temp(w) \notin temps

(* The file a process has mapped does not change under it ("Never rewrite  *)
(* a mapped file in place", README.md): it answers from one build, however *)
(* often path is replaced meanwhile.                                       *)
MappedUnchanged ==
  [][\A u \in Users :
       (mapped[u] # None /\ mapped'[u] = mapped[u])
         => content'[mapped[u]] = content[mapped[u]]]_vars
=============================================================================
