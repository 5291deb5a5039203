---------------------------- MODULE BundleWriter ----------------------------
(***************************************************************************)
(* write_bundle (src/bundle/writer.rs): a bundle is staged in a temporary  *)
(* sibling of its destination and renamed into place; an existing bundle   *)
(* is moved to a backup first and dropped last.  One step is one call into *)
(* the file system, so that another writer of the same run id, a crash or  *)
(* an I/O failure can come between any two of them.                        *)
(*                                                                         *)
(* All the calls modelled name one run id: the three directories belong to *)
(* it alone.  A directory is known by the call that made it, and is the    *)
(* same directory under whatever name it is moved to.                      *)
(***************************************************************************)
EXTENDS Naturals

CONSTANTS
  Writers,      \* threads or processes that may call write_bundle
  NumFiles,     \* files of a bundle, the last being the manifest
  MaxCalls,     \* bound on the number of calls
  Overwrites,   \* values of config.overwrite the callers use
  Faults,       \* steps at which the file system may report a failure
  Crashes       \* may a writer be killed between two steps?

Removing == {"rmTemp", "clean", "rmStale", "drop"}

Steps == {"stat", "statTemp", "mkTemp", "create", "write", "statStale",
          "aside", "install", "restore", "publish"} \cup Removing

ASSUME WriterAssumption ==
  /\ NumFiles \in Nat \ {0}
  /\ MaxCalls \in Nat \ {0}
  /\ Overwrites \subseteq BOOLEAN
  /\ Faults \subseteq Steps
  /\ Crashes \in BOOLEAN

Files == 1..NumFiles
Names == {"temp", "dest", "backup"}
Results == {"none", "ok", "collision", "io", "crashed"}

\* A file: the last call that created it (0: no such file), and whether that
\* call has written it to the end.
Entries == [by : 0..MaxCalls, whole : BOOLEAN]
Absent == [by |-> 0, whole |-> FALSE]

\* A directory: the call that made it (0: no such directory), and its files.
Dirs == [by : 0..MaxCalls, files : [Files -> Entries]]
NoDir == [by |-> 0, files |-> [f \in Files |-> Absent]]

Exists(d) == d.by # 0
Empty(d) == \A f \in Files : d.files[f] = Absent
Whole(d) == Exists(d) /\ \A f \in Files : d.files[f].whole

VARIABLES
  fs,        \* what each of the three names refers to
  pc,        \* the step each writer's call is at
  local,     \* the locals of its current or last call
  victim,    \* the directory its remove_dir_all holds open, 0 for none
  result,    \* ghost: what its last call returned
  faulted,   \* ghost: did the file system refuse a step of that call?
  calls,     \* calls made so far
  published  \* ghost: has some call put a bundle in place?

vars == <<fs, pc, local, victim, result, faulted, calls, published>>

\* The number of the call, config.overwrite, dest_exists, the file it writes.
Locals == [call : 0..MaxCalls, overwrite : BOOLEAN, existed : BOOLEAN, file : Files]

Init ==
  /\ fs = [n \in Names |-> NoDir]
  /\ pc = [w \in Writers |-> "idle"]
  /\ local = [w \in Writers |->
                [call |-> 0, overwrite |-> FALSE, existed |-> FALSE, file |-> 1]]
  /\ victim = [w \in Writers |-> 0]
  /\ result = [w \in Writers |-> "none"]
  /\ faulted = [w \in Writers |-> FALSE]
  /\ calls = 0
  /\ published = FALSE

\* Control moves to step p, or out of the function.
MoveTo(w, p) ==
  /\ pc' = [pc EXCEPT ![w] = p]
  /\ victim' = [victim EXCEPT ![w] = 0]

Goto(w, p) == MoveTo(w, p) /\ UNCHANGED result

Return(w, r) == MoveTo(w, "idle") /\ result' = [result EXCEPT ![w] = r]

\* Mutants: a failed final rename drops the old bundle instead of restoring
\* it; the cleaning is repeated until it succeeds.
MutDropOnError(p) ==
  CASE p \in {"create", "write", "aside", "restore", "publish"} -> "clean"
    [] p = "install" -> "drop"
    [] OTHER -> "idle"
MutRetryClean(p) ==
  CASE p \in {"create", "write", "aside", "restore", "publish", "clean"} -> "clean"
    [] p = "install" -> "restore"
    [] OTHER -> "idle"

\* Where a failed step leads: up to the staging directory's creation, and
\* while a stale backup is removed, straight out of the function; from the
\* building and the renames to remove_dir_all(temp), after an attempt to
\* restore the old bundle when the new one could not take its place.
OnError(p) ==
  CASE p \in {"create", "write", "aside", "restore", "publish"} -> "clean"
    [] p = "install" -> "restore"
    [] OTHER -> "idle"

\* Mutants: the error is forgotten once the staging directory is cleaned; a
\* failed removal of the backup is an error.
MutErrorForgotten(p) == IF p \in {"drop", "clean"} THEN "ok" ELSE "io"
MutDropFatal(p) == "io"

\* The errors of remove_dir_all(temp) are ignored, the call has failed
\* already; one of remove_dir_all(backup) at the end is only logged.
Outcome(p) == IF p = "drop" THEN "ok" ELSE "io"

\* The step the writer is at fails.
Fail(w) ==
  LET p == pc[w]
  IN  IF OnError(p) = "idle" THEN Return(w, Outcome(p)) ELSE Goto(w, OnError(p))

----------------------------------------------------------------------------
(* The file system.                                                        *)

\* rename(2) moves a directory that exists onto a free name or an empty
\* directory, and fails otherwise.
Renamable(a, b) == Exists(fs[a]) /\ (~Exists(fs[b]) \/ Empty(fs[b]))

Moved(a, b) == [fs EXCEPT ![b] = fs[a], ![a] = NoDir]

\* A file created by path: truncated if it is there.
Created(f, c) == [fs EXCEPT !["temp"].files[f] = [by |-> c, whole |-> FALSE]]

\* A file written to its end: the descriptor follows the file wherever its
\* directory has been moved.
Written(f, c) ==
  [n \in Names |->
     IF fs[n].files[f].by = c
     THEN [fs[n] EXCEPT !.files[f] = [by |-> c, whole |-> TRUE]] ELSE fs[n]]

\* remove_dir_all unlinks through the directory it opened.
Unlinked(d, f) ==
  [n \in Names |->
     IF fs[n].by = d THEN [fs[n] EXCEPT !.files[f] = Absent] ELSE fs[n]]

----------------------------------------------------------------------------
(* The steps of a call.                                                    *)

Call(w) ==
  /\ pc[w] = "idle"
  /\ calls < MaxCalls
  /\ calls' = calls + 1
  /\ \E o \in Overwrites :
       local' = [local EXCEPT ![w] =
                   [call |-> calls + 1, overwrite |-> o, existed |-> FALSE, file |-> 1]]
  /\ MoveTo(w, "stat")
  /\ result' = [result EXCEPT ![w] = "none"]
  /\ faulted' = [faulted EXCEPT ![w] = FALSE]
  /\ UNCHANGED <<fs, published>>

\* Mutant: the collision check is dropped.
MutNeverCollides(w) == FALSE

\* A bundle that is there stops a call that may not replace it.
Collides(w) == Exists(fs["dest"]) /\ ~local[w].overwrite

StatDest(w) ==
  /\ pc[w] = "stat"
  /\ IF Collides(w)
     THEN Return(w, "collision") /\ UNCHANGED local
     ELSE /\ local' = [local EXCEPT ![w].existed = Exists(fs["dest"])]
          /\ Goto(w, "statTemp")
  /\ UNCHANGED <<fs, faulted, calls, published>>

\* Mutant: only the backup is looked for.
MutStagingKept(n) == n = "backup" /\ Exists(fs[n])

\* try_exists on a sibling an earlier call may have left.
Leftover(n) == Exists(fs[n])

\* The staging directory a crashed call left is removed first.
StatTemp(w) ==
  /\ pc[w] = "statTemp"
  /\ Goto(w, IF Leftover("temp") THEN "rmTemp" ELSE "mkTemp")
  /\ UNCHANGED <<fs, local, faulted, calls, published>>

MakeTemp(w) ==
  /\ pc[w] = "mkTemp"
  /\ IF Exists(fs["temp"])
     THEN Fail(w) /\ UNCHANGED fs
     ELSE fs' = [fs EXCEPT !["temp"].by = local[w].call] /\ Goto(w, "create")
  /\ UNCHANGED <<local, faulted, calls, published>>

CreateFile(w) ==
  /\ pc[w] = "create"
  /\ IF Exists(fs["temp"])
     THEN fs' = Created(local[w].file, local[w].call) /\ Goto(w, "write")
     ELSE Fail(w) /\ UNCHANGED fs
  /\ UNCHANGED <<local, faulted, calls, published>>

\* Mutants: the manifest is forgotten; one file too many.
MutWithoutManifest(w) == local[w].file + 1 >= NumFiles
MutOneMoreFile(w) == local[w].file > NumFiles

\* The tables in their order, the manifest last, and then the publication.
LastFile(w) == local[w].file = NumFiles

\* Mutant: the publication looks at the destination again.
MutLooksAgain(w) == Exists(fs["dest"])

\* The publication goes by dest_exists, as it was when the call began.
Replaces(w) == local[w].existed

FinishFile(w) ==
  /\ pc[w] = "write"
  /\ fs' = Written(local[w].file, local[w].call)
  /\ IF LastFile(w)
     THEN Goto(w, IF Replaces(w) THEN "statStale" ELSE "publish") /\ UNCHANGED local
     ELSE Goto(w, "create") /\ local' = [local EXCEPT ![w].file = @ + 1]
  /\ UNCHANGED <<faulted, calls, published>>

\* The backup a crashed overwrite left is removed first.
StatStale(w) ==
  /\ pc[w] = "statStale"
  /\ Goto(w, IF Leftover("backup") THEN "rmStale" ELSE "aside")
  /\ UNCHANGED <<fs, local, faulted, calls, published>>

\* A rename that, when it succeeds, leads to step p.
RenameThen(w, a, b, p) ==
  /\ IF Renamable(a, b)
     THEN fs' = Moved(a, b) /\ Goto(w, p)
     ELSE Fail(w) /\ UNCHANGED fs
  /\ UNCHANGED <<local, faulted, calls>>

MoveAside(w) ==
  /\ pc[w] = "aside"
  /\ RenameThen(w, "dest", "backup", "install")
  /\ UNCHANGED published

Install(w) ==
  /\ pc[w] = "install"
  /\ RenameThen(w, "temp", "dest", "drop")
  /\ published' = (published \/ Renamable("temp", "dest"))

\* The result of the restoring rename is ignored.
Restore(w) ==
  /\ pc[w] = "restore"
  /\ RenameThen(w, "backup", "dest", "clean")
  /\ UNCHANGED published

\* A fresh destination takes a single rename.
Publish(w) ==
  /\ pc[w] = "publish"
  /\ IF Renamable("temp", "dest")
     THEN fs' = Moved("temp", "dest") /\ Return(w, "ok")
     ELSE Fail(w) /\ UNCHANGED fs
  /\ published' = (published \/ Renamable("temp", "dest"))
  /\ UNCHANGED <<local, faulted, calls>>

----------------------------------------------------------------------------
(* remove_dir_all, a file a step.                                          *)

\* Mutant: the stale backup's removal is given the destination.
MutTargetDest(p) == IF p \in {"rmTemp", "clean"} THEN "temp" ELSE "dest"

Target(p) == IF p \in {"rmTemp", "clean"} THEN "temp" ELSE "backup"

\* What follows the removal.
Removed(w) ==
  CASE pc[w] = "rmTemp" -> Goto(w, "mkTemp")
    [] pc[w] = "rmStale" -> Goto(w, "aside")
    [] OTHER -> Return(w, Outcome(pc[w]))

OpenDir(w) ==
  /\ pc[w] \in Removing
  /\ victim[w] = 0
  /\ LET d == fs[Target(pc[w])]
     IN  IF Exists(d)
         THEN victim' = [victim EXCEPT ![w] = d.by] /\ UNCHANGED <<pc, result>>
         ELSE Fail(w)
  /\ UNCHANGED <<fs, local, faulted, calls, published>>

UnlinkFile(w) ==
  /\ pc[w] \in Removing
  /\ victim[w] # 0
  /\ \E n \in Names, f \in Files :
       /\ fs[n].by = victim[w]
       /\ fs[n].files[f] # Absent
       /\ fs' = Unlinked(victim[w], f)
  /\ UNCHANGED <<pc, local, victim, result, faulted, calls, published>>

\* The directory that has the name now may not be the one that was emptied.
RemoveDir(w) ==
  /\ pc[w] \in Removing
  /\ victim[w] # 0
  /\ \A n \in Names : fs[n].by = victim[w] => Empty(fs[n])
  /\ LET n == Target(pc[w])
     IN  IF Exists(fs[n]) /\ Empty(fs[n])
         THEN fs' = [fs EXCEPT ![n] = NoDir] /\ Removed(w)
         ELSE Fail(w) /\ UNCHANGED fs
  /\ UNCHANGED <<local, faulted, calls, published>>

----------------------------------------------------------------------------
(* The environment.                                                        *)

\* The file system refuses the step, a full disk, a permission; or a row of
\* the table at hand does not fit its column.
Fault(w) ==
  /\ pc[w] \in Faults
  /\ Fail(w)
  /\ faulted' = [faulted EXCEPT ![w] = TRUE]
  /\ UNCHANGED <<fs, local, calls, published>>

\* The process is killed; its descriptors close, the directories stay.
Crash(w) ==
  /\ Crashes
  /\ pc[w] # "idle"
  /\ Return(w, "crashed")
  /\ UNCHANGED <<fs, local, faulted, calls, published>>

\* One step of a call by its own writer.
Step(w) ==
  \/ StatDest(w) \/ StatTemp(w) \/ MakeTemp(w) \/ CreateFile(w) \/ FinishFile(w)
  \/ StatStale(w) \/ MoveAside(w) \/ Install(w) \/ Restore(w) \/ Publish(w)
  \/ OpenDir(w) \/ UnlinkFile(w) \/ RemoveDir(w)

\* Every call the bound allows has been made and has returned.
AllDone ==
  /\ calls = MaxCalls
  /\ \A w \in Writers : pc[w] = "idle"
  /\ UNCHANGED vars

Next == (\E w \in Writers : Call(w) \/ Step(w) \/ Fault(w) \/ Crash(w)) \/ AllDone

Spec == Init /\ [][Next]_vars

\* A writer is a thread that waits for nothing: it takes its next step.
LiveSpec == Spec /\ \A w \in Writers : WF_vars(Step(w))

----------------------------------------------------------------------------
(* Properties.                                                             *)

TypeOK ==
  /\ fs \in [Names -> Dirs]
  /\ pc \in [Writers -> Steps \cup {"idle"}]
  /\ local \in [Writers -> Locals]
  /\ victim \in [Writers -> 0..MaxCalls]
  /\ result \in [Writers -> Results]
  /\ faulted \in [Writers -> BOOLEAN]
  /\ calls \in 0..MaxCalls
  /\ published \in BOOLEAN

\* "A reader sees a complete bundle or none" (writer.rs:69): whatever was
\* interrupted or failed, all that the run's name ever refers to is a
\* directory with every table and the manifest written to the end.
DestWhole == Exists(fs["dest"]) => Whole(fs["dest"])

\* Once a bundle was published a complete one remains, at the destination or
\* in the backup, through every failure of an overwrite and of its undoing.
BundleSurvives == published => Whole(fs["dest"]) \/ Whole(fs["backup"])

\* The answer of a call is true.  Ok: its own bundle is at the destination,
\* whatever earlier crashed calls had left behind, and nothing is in the staging
\* directory.  An error: the bundle seen is not its.  And what a crash or a
\* failed call leaves behind never makes a later call fail: without a failure
\* of its own a call alone errs only on a collision.
AnswersTrue ==
  \A w \in Writers :
    /\ pc[w] = "idle" /\ result[w] = "ok" =>
         fs["dest"].by = local[w].call /\ ~Exists(fs["temp"])
    /\ result[w] \in {"io", "collision"} => fs["dest"].by # local[w].call
    /\ result[w] = "io" => faulted[w]

\* A complete bundle gives up the destination only to a call that may overwrite
\* it, though another writer may have put it there after that call looked.
OverwriteAuthorised ==
  [][\A w \in Writers :
       Whole(fs["dest"]) /\ fs'["dest"].by # fs["dest"].by /\ pc'[w] # pc[w]
         => local[w].overwrite]_vars

Store == INSTANCE BundleStore
           WITH visible <- IF Whole(fs["dest"]) THEN fs["dest"].by ELSE 0,
                kept <- IF Whole(fs["backup"]) THEN fs["backup"].by ELSE 0

\* The directories, file by file, implement the store of complete versions.
ImplementsStore == Store!StoreSpec

\* Writers of one run id may spoil each other's directories but none of them
\* waits or retries for ever: every call returns.
CallsReturn == \A w \in Writers : pc[w] # "idle" ~> pc[w] = "idle"
=============================================================================
