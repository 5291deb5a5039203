----------------------------- MODULE BundleProofs -----------------------------
(***************************************************************************)
(* The bundle writer, proved for every number of files, of calls and of    *)
(* faults: for any writers, types, and that a bundle gives way only to a   *)
(* call that may overwrite; for a writer alone, that the destination       *)
(* only ever names complete bundles, that a bundle once published survives *)
(* every failure and crash, that the directories implement the store of    *)
(* complete versions, that the answers of the calls are true, and that a   *)
(* reader who got past the manifest reads one complete bundle.             *)
(*                                                                         *)
(* None of these is inductive.  Apart has removal and renames never touch  *)
(* a directory but the one they mean; Sealed says that what left the       *)
(* staging directory is not written any more; Phase says what the code has *)
(* established when it reaches each step, the fact dest_exists read at the *)
(* beginning included, which stays true because the writer is alone.       *)
(***************************************************************************)
EXTENDS BundleReader, FiniteSetTheorems, TLAPS

\* One process, one thread: what the batch and the comments of the code assume.
OneWriter == \A v, w \in Writers : v = w

\* The three names never refer to one directory, nor to one of a later call.
Apart ==
  /\ \A n \in Names : fs[n].by <= calls
  /\ \A m, n \in Names : m # n /\ fs[m].by = fs[n].by => fs[m].by = 0

\* No file of the destination or the backup is still being written.
Sealed ==
  \A n \in {"dest", "backup"}, f \in Files :
    fs[n].files[f].by # 0 => fs[n].files[f].whole

\* Published means seen, or complete in the backup.
SeenOrKept == published => Exists(fs["dest"]) \/ Whole(fs["backup"])

\* The call has made no directory yet.
Fresh(w) ==
  pc[w] \in {"stat", "statTemp", "rmTemp", "mkTemp"} =>
    /\ local[w].file = 1
    /\ \A n \in Names : fs[n].by < local[w].call

\* dest_exists is still what it was.
Remembered(w) ==
  /\ pc[w] \in {"statTemp", "rmTemp", "mkTemp", "create", "write"} =>
       local[w].existed = Exists(fs["dest"])
  /\ pc[w] \in {"statStale", "rmStale", "aside", "drop"} => Exists(fs["dest"])
  /\ pc[w] \in {"install", "restore", "publish"} => ~Exists(fs["dest"])
  /\ pc[w] \in {"install", "restore"} => Whole(fs["backup"])

\* How far the staging directory is built.
Staged(w) ==
  /\ pc[w] \in {"create", "write"} =>
       /\ Exists(fs["temp"])
       /\ \A f \in 1..(local[w].file - 1) : fs["temp"].files[f].whole
  /\ pc[w] = "write" => fs["temp"].files[local[w].file].by = local[w].call
  /\ pc[w] \in {"statStale", "rmStale", "aside", "install", "publish"} =>
       Whole(fs["temp"])

\* remove_dir_all holds the directory its path still names.
Held(w) ==
  victim[w] # 0 =>
    /\ pc[w] \in Removing
    /\ victim[w] = fs[Target(pc[w])].by

Phase(w) ==
  /\ pc[w] # "idle" => local[w].call \in 1..calls
  /\ Fresh(w) /\ Remembered(w) /\ Staged(w) /\ Held(w)

\* The inductive invariant.
BundleInv ==
  /\ TypeOK
  /\ Apart
  /\ Sealed
  /\ DestWhole
  /\ SeenOrKept
  /\ \A w \in Writers : Phase(w)

USE WriterAssumption DEF WriterAssumption

----------------------------------------------------------------------------
(* Types, for any number of writers.                                       *)

\* What a step of the control leaves typed.
ControlOK ==
  /\ pc \in [Writers -> Steps \cup {"idle"}]
  /\ victim \in [Writers -> 0..MaxCalls]
  /\ result \in [Writers -> Results]

LEMMA GotoTyped ==
  ASSUME TypeOK, NEW w \in Writers, NEW p \in Steps, Goto(w, p)
  PROVE  ControlOK'
BY DEF TypeOK, Goto, MoveTo, ControlOK

LEMMA ReturnTyped ==
  ASSUME TypeOK, NEW w \in Writers, NEW r \in Results, Return(w, r)
  PROVE  ControlOK'
BY DEF TypeOK, Return, MoveTo, ControlOK

LEMMA OnErrorTyped == \A p : OnError(p) \in {"clean", "restore", "idle"}
BY DEF OnError

LEMMA FailTyped ==
  ASSUME TypeOK, NEW w \in Writers, Fail(w)
  PROVE  ControlOK'
<1> DEFINE p == pc[w]
<1>1. CASE OnError(p) = "idle"
  <2>1. Outcome(p) \in Results
    BY DEF Outcome, Results
  <2>2. Return(w, Outcome(p))
    BY <1>1 DEF Fail
  <2>3. QED
    BY <2>1, <2>2, ReturnTyped
<1>2. CASE OnError(p) # "idle"
  <2>1. OnError(p) \in Steps
    BY <1>2, OnErrorTyped DEF Steps, Removing
  <2>2. Goto(w, OnError(p))
    BY <1>2 DEF Fail
  <2>3. QED
    BY <2>1, <2>2, GotoTyped
<1>3. QED
  BY <1>1, <1>2

\* What remove_dir_all leads to once it has removed its directory.
LEMMA RemovedTyped ==
  ASSUME TypeOK, NEW w \in Writers, Removed(w)
  PROVE  ControlOK'
<1>1. CASE pc[w] = "rmTemp"
  BY <1>1, GotoTyped DEF Removed, Steps
<1>2. CASE pc[w] = "rmStale"
  BY <1>2, GotoTyped DEF Removed, Steps
<1>3. CASE pc[w] \notin {"rmTemp", "rmStale"}
  <2>1. Outcome(pc[w]) \in Results
    BY DEF Outcome, Results
  <2>2. QED
    BY <1>3, <2>1, ReturnTyped DEF Removed
<1>4. QED
  BY <1>1, <1>2, <1>3

LEMMA NoDirTyped == NoDir \in Dirs /\ Absent \in Entries
BY DEF NoDir, Absent, Dirs, Entries

\* Replacing one file of one directory keeps the directories typed.
LEMMA FileTyped ==
  ASSUME NEW d \in Dirs, NEW f \in Files, NEW e \in Entries
  PROVE  [d EXCEPT !.files[f] = e] \in Dirs
BY DEF Dirs

LEMMA RenameTyped ==
  ASSUME TypeOK, NEW w \in Writers, NEW a \in Names, NEW b \in Names,
         NEW p \in Steps, RenameThen(w, a, b, p)
  PROVE  fs' \in [Names -> Dirs] /\ ControlOK'
<1>1. CASE Renamable(a, b)
  BY <1>1, NoDirTyped, GotoTyped DEF RenameThen, Moved, TypeOK
<1>2. CASE ~Renamable(a, b)
  BY <1>2, FailTyped DEF RenameThen, TypeOK
<1>3. QED
  BY <1>1, <1>2

LEMMA StepTyped ==
  ASSUME TypeOK, NEW w \in Writers, Step(w)
  PROVE  TypeOK'
<1> USE DEF Names
<1>0. local[w] \in Locals
  BY DEF TypeOK
<1>1. CASE StatDest(w)
  <2>1. CASE Collides(w)
    BY <1>1, <2>1, ReturnTyped DEF StatDest, TypeOK, ControlOK, Results
  <2>2. CASE ~Collides(w)
    <3> DEFINE e == Exists(fs["dest"])
    <3>0. e \in BOOLEAN /\ local' = [local EXCEPT ![w].existed = e]
      BY <1>1, <2>2 DEF StatDest, Exists
    <3>1. local' \in [Writers -> Locals]
      <4> HIDE DEF e
      <4> QED
        BY <1>0, <3>0 DEF TypeOK, Locals
    <3>2. QED
      BY <1>1, <2>2, <3>1, GotoTyped DEF StatDest, TypeOK, ControlOK, Steps
  <2>3. QED
    BY <2>1, <2>2
<1>2. CASE StatTemp(w)
  <2>1. PICK p \in Steps : Goto(w, p)
    BY <1>2 DEF StatTemp, Steps, Removing
  <2>2. QED
    BY <1>2, <2>1, GotoTyped DEF StatTemp, TypeOK, ControlOK
<1>3. CASE MakeTemp(w)
  <2>1. CASE Exists(fs["temp"])
    BY <1>3, <2>1, FailTyped DEF MakeTemp, TypeOK, ControlOK
  <2>2. CASE ~Exists(fs["temp"])
    <3>1. fs' \in [Names -> Dirs]
      BY <1>0, <1>3, <2>2 DEF MakeTemp, TypeOK, Dirs, Locals
    <3>2. QED
      BY <1>3, <2>2, <3>1, GotoTyped DEF MakeTemp, TypeOK, ControlOK, Steps
  <2>3. QED
    BY <2>1, <2>2
<1>4. CASE CreateFile(w)
  <2>1. CASE ~Exists(fs["temp"])
    BY <1>4, <2>1, FailTyped DEF CreateFile, TypeOK, ControlOK
  <2>2. CASE Exists(fs["temp"])
    <3> DEFINE e == [by |-> local[w].call, whole |-> FALSE]
    <3>0. e \in Entries /\ local[w].file \in Files
      BY <1>0 DEF Entries, Locals
    <3>a. fs' = [fs EXCEPT !["temp"].files[local[w].file] = e]
      BY <1>4, <2>2 DEF CreateFile, Created
    <3>1. fs' \in [Names -> Dirs]
      <4> HIDE DEF e
      <4>1. [fs["temp"] EXCEPT !.files[local[w].file] = e] \in Dirs
        BY <3>0, FileTyped DEF TypeOK
      <4>2. QED
        BY <3>a, <4>1 DEF TypeOK
    <3>2. QED
      BY <1>4, <2>2, <3>1, GotoTyped DEF CreateFile, TypeOK, ControlOK, Steps
  <2>3. QED
    BY <2>1, <2>2
<1>5. CASE FinishFile(w)
  <2>1. fs' \in [Names -> Dirs]
    <3> DEFINE e == [by |-> local[w].call, whole |-> TRUE]
    <3>0. e \in Entries /\ local[w].file \in Files
      BY <1>0 DEF Entries, Locals
    <3>1. ASSUME NEW n \in Names
          PROVE  [fs[n] EXCEPT !.files[local[w].file] = e] \in Dirs
      <4> HIDE DEF e
      <4> QED
        BY <3>0, FileTyped DEF TypeOK
    <3>2. QED
      BY <1>5, <3>1 DEF FinishFile, Written, TypeOK
  <2>2. CASE LastFile(w)
    <3>1. PICK p \in Steps : Goto(w, p)
      BY <1>5, <2>2 DEF FinishFile, Steps
    <3>2. QED
      BY <1>5, <2>1, <2>2, <3>1, GotoTyped DEF FinishFile, TypeOK, ControlOK
  <2>3. CASE ~LastFile(w)
    <3>1. local[w].file + 1 \in Files
      BY <1>0, <2>3 DEF LastFile, Files, Locals
    <3>2. local' \in [Writers -> Locals]
      BY <1>5, <2>3, <3>1 DEF FinishFile, TypeOK, Locals
    <3>3. QED
      BY <1>5, <2>1, <2>3, <3>2, GotoTyped DEF FinishFile, TypeOK, ControlOK, Steps
  <2>4. QED
    BY <2>2, <2>3
<1>6. CASE StatStale(w)
  <2>1. PICK p \in Steps : Goto(w, p)
    BY <1>6 DEF StatStale, Steps, Removing
  <2>2. QED
    BY <1>6, <2>1, GotoTyped DEF StatStale, TypeOK, ControlOK
<1>7. CASE MoveAside(w)
  <2>1. fs' \in [Names -> Dirs] /\ ControlOK'
    BY <1>7, RenameTyped DEF MoveAside, Steps
  <2>2. QED
    BY <1>7, <2>1 DEF MoveAside, RenameThen, TypeOK, ControlOK
<1>8. CASE Install(w)
  <2>1. fs' \in [Names -> Dirs] /\ ControlOK'
    BY <1>8, RenameTyped DEF Install, Steps, Removing
  <2>2. published' \in BOOLEAN
    BY <1>8 DEF Install, Renamable, Exists, TypeOK
  <2>3. QED
    BY <1>8, <2>1, <2>2 DEF Install, RenameThen, TypeOK, ControlOK
<1>9. CASE Restore(w)
  <2>1. fs' \in [Names -> Dirs] /\ ControlOK'
    BY <1>9, RenameTyped DEF Restore, Steps, Removing
  <2>2. QED
    BY <1>9, <2>1 DEF Restore, RenameThen, TypeOK, ControlOK
<1>10. CASE Publish(w)
  <2>1. fs' \in [Names -> Dirs] /\ ControlOK'
    <3>1. CASE Renamable("temp", "dest")
      BY <1>10, <3>1, NoDirTyped, ReturnTyped DEF Publish, Moved, TypeOK, Results
    <3>2. CASE ~Renamable("temp", "dest")
      BY <1>10, <3>2, FailTyped DEF Publish, TypeOK
    <3>3. QED
      BY <3>1, <3>2
  <2>2. published' \in BOOLEAN
    BY <1>10 DEF Publish, Renamable, Exists, TypeOK
  <2>3. QED
    BY <1>10, <2>1, <2>2 DEF Publish, TypeOK, ControlOK
<1>11. CASE OpenDir(w)
  <2> DEFINE d == fs[Target(pc[w])]
  <2>1. CASE ~Exists(d)
    BY <1>11, <2>1, FailTyped DEF OpenDir, TypeOK, ControlOK
  <2>2. CASE Exists(d)
    <3>1. d.by \in 0..MaxCalls
      BY DEF TypeOK, Target, Dirs
    <3>2. QED
      BY <1>11, <2>2, <3>1 DEF OpenDir, TypeOK
  <2>3. QED
    BY <2>1, <2>2
<1>12. CASE UnlinkFile(w)
  <2>1. PICK f \in Files : fs' = Unlinked(victim[w], f)
    BY <1>12 DEF UnlinkFile
  <2>2. fs' \in [Names -> Dirs]
    BY <2>1, NoDirTyped DEF Unlinked, TypeOK, Dirs
  <2>3. QED
    BY <1>12, <2>2 DEF UnlinkFile, TypeOK
<1>13. CASE RemoveDir(w)
  <2> DEFINE n == Target(pc[w])
  <2>1. CASE Exists(fs[n]) /\ Empty(fs[n])
    BY <1>13, <2>1, NoDirTyped, RemovedTyped DEF RemoveDir, TypeOK, ControlOK, Target
  <2>2. CASE ~(Exists(fs[n]) /\ Empty(fs[n]))
    BY <1>13, <2>2, FailTyped DEF RemoveDir, TypeOK, ControlOK
  <2>3. QED
    BY <2>1, <2>2
<1>14. QED
  BY <1>1, <1>2, <1>3, <1>4, <1>5, <1>6, <1>7, <1>8, <1>9, <1>10, <1>11,
     <1>12, <1>13 DEF Step

LEMMA BundleInitTyped == Init => TypeOK
<1> SUFFICES ASSUME Init
             PROVE  TypeOK
  OBVIOUS
<1>1. fs \in [Names -> Dirs]
  BY NoDirTyped DEF Init
<1>2. 1 \in Files /\ 0 \in 0..MaxCalls
  BY DEF Files
<1>3. "none" \in Results
  BY DEF Results
<1>4. [call |-> 0, overwrite |-> FALSE, existed |-> FALSE, file |-> 1] \in Locals
  BY <1>2 DEF Locals
<1>5. QED
  BY <1>1, <1>2, <1>3, <1>4 DEF Init, TypeOK

LEMMA BundleNextTyped ==
  ASSUME TypeOK, [Next]_vars
  PROVE  TypeOK'
<1>1. ASSUME NEW w \in Writers, Call(w)
      PROVE  TypeOK'
  <2>1. calls + 1 \in 0..MaxCalls
    BY <1>1 DEF Call, TypeOK
  <2>2. local' \in [Writers -> Locals]
    BY <1>1, <2>1 DEF Call, TypeOK, Locals, Files
  <2>3. QED
    BY <1>1, <2>1, <2>2 DEF Call, MoveTo, TypeOK, Steps, Results
<1>2. ASSUME NEW w \in Writers, Fault(w)
      PROVE  TypeOK'
  BY <1>2, FailTyped DEF Fault, TypeOK, ControlOK
<1>3. ASSUME NEW w \in Writers, Crash(w)
      PROVE  TypeOK'
  BY <1>3, ReturnTyped DEF Crash, TypeOK, ControlOK, Results
<1>4. CASE UNCHANGED vars
  BY <1>4 DEF vars, TypeOK
<1>5. QED
  BY <1>1, <1>2, <1>3, <1>4, StepTyped DEF Next, AllDone

\* Every reachable state of any number of writers is well typed.
THEOREM BundleTypeCorrect == Spec => []TypeOK
<1>1. TypeOK /\ [Next]_vars => TypeOK'
  BY BundleNextTyped
<1>2. QED
  BY <1>1, BundleInitTyped, PTL DEF Spec

----------------------------------------------------------------------------
(* Permission to overwrite, for any number of writers.                     *)

\* Only a call that may overwrite has found a bundle and goes on.
Permitted(w) ==
  /\ pc[w] \in {"statTemp", "rmTemp", "mkTemp", "create", "write"} /\ local[w].existed =>
       local[w].overwrite
  /\ pc[w] \in {"statStale", "rmStale", "aside", "install", "restore", "drop"} =>
       local[w].overwrite

\* Every step is one writer's.
Alone(w) ==
  \A v \in Writers \ {w} : pc'[v] = pc[v] /\ local'[v] = local[v]

PermitInv == TypeOK /\ \A w \in Writers : Permitted(w)

\* Control goes where it is sent.
LEMMA Arrives ==
  ASSUME TypeOK, NEW w \in Writers, NEW p, MoveTo(w, p)
  PROVE  pc'[w] = p /\ \A v \in Writers \ {w} : pc'[v] = pc[v]
BY DEF TypeOK, MoveTo

\* A step that fails goes on to restore only from the last rename.
LEMMA FailPermits ==
  ASSUME TypeOK, NEW w \in Writers, Permitted(w), Fail(w), UNCHANGED local
  PROVE  Permitted(w)' /\ Alone(w)
<1> DEFINE p == OnError(pc[w])
<1>1. MoveTo(w, p)
  BY DEF Fail, Return, Goto
<1>2. p \in {"idle", "clean", "restore"} /\ (p = "restore" => pc[w] = "install")
  BY DEF OnError
<1> HIDE DEF p
<1>3. pc'[w] = p /\ \A v \in Writers \ {w} : pc'[v] = pc[v]
  BY <1>1, Arrives
<1>4. QED
  BY <1>2, <1>3 DEF Permitted, Alone

\* What a call finds out at its beginning is what it goes by to its end.
LEMMA StepPermits ==
  ASSUME TypeOK, NEW w \in Writers, Permitted(w), Step(w)
  PROVE  Permitted(w)' /\ Alone(w)
<1>1. CASE StatDest(w)
  <2>1. CASE Collides(w)
    BY <1>1, <2>1, Arrives DEF StatDest, Return, Permitted, Alone
  <2>2. CASE ~Collides(w)
    <3>1. /\ MoveTo(w, "statTemp")
          /\ local' = [local EXCEPT ![w].existed = Exists(fs["dest"])]
      BY <1>1, <2>2 DEF StatDest, Goto
    <3>2. local'[w].existed => local'[w].overwrite
      BY <2>2, <3>1 DEF Collides, TypeOK, Locals
    <3>3. \A v \in Writers \ {w} : local'[v] = local[v]
      BY <3>1 DEF TypeOK
    <3>4. QED
      BY <3>1, <3>2, <3>3, Arrives DEF Permitted, Alone
  <2>3. QED
    BY <2>1, <2>2
<1>2. CASE StatTemp(w) \/ StatStale(w)
  <2>1. PICK p : MoveTo(w, p) /\ UNCHANGED local
                 /\ IF pc[w] = "statTemp" THEN p \in {"rmTemp", "mkTemp"}
                    ELSE pc[w] = "statStale" /\ p \in {"rmStale", "aside"}
    BY <1>2 DEF StatTemp, StatStale, Goto
  <2>2. QED
    BY <2>1, Arrives DEF Permitted, Alone
<1>3. CASE MakeTemp(w) \/ CreateFile(w)
  <2>1. UNCHANGED local /\ pc[w] \in {"mkTemp", "create"}
        /\ (Fail(w) \/ MoveTo(w, "create") \/ MoveTo(w, "write"))
    BY <1>3 DEF MakeTemp, CreateFile, Goto
  <2>2. QED
    BY <2>1, Arrives, FailPermits DEF Permitted, Alone
<1>4. CASE FinishFile(w)
  <2>1. CASE LastFile(w)
    <3>1. PICK p : /\ MoveTo(w, p) /\ UNCHANGED local /\ pc[w] = "write"
                   /\ p = IF local[w].existed THEN "statStale" ELSE "publish"
      BY <1>4, <2>1 DEF FinishFile, Goto, Replaces
    <3>2. QED
      BY <3>1, Arrives DEF Permitted, Alone
  <2>2. CASE ~LastFile(w)
    <3>1. /\ MoveTo(w, "create") /\ pc[w] = "write"
          /\ local' = [local EXCEPT ![w].file = @ + 1]
      BY <1>4, <2>2 DEF FinishFile, Goto
    <3>2. /\ local'[w].existed = local[w].existed /\ local'[w].overwrite = local[w].overwrite
          /\ \A v \in Writers \ {w} : local'[v] = local[v]
      BY <3>1 DEF TypeOK, Locals
    <3>3. QED
      BY <3>1, <3>2, Arrives DEF Permitted, Alone
  <2>3. QED
    BY <2>1, <2>2
<1>5. CASE MoveAside(w) \/ Install(w) \/ Restore(w) \/ Publish(w)
  <2>1. /\ UNCHANGED local
        /\ \/ Fail(w)
           \/ pc[w] = "aside" /\ MoveTo(w, "install")
           \/ pc[w] = "install" /\ MoveTo(w, "drop")
           \/ MoveTo(w, "clean")
           \/ MoveTo(w, "idle")
    BY <1>5 DEF MoveAside, Install, Restore, Publish, RenameThen, Goto, Return
  <2>2. QED
    BY <2>1, Arrives, FailPermits DEF Permitted, Alone
<1>6. CASE OpenDir(w) \/ UnlinkFile(w) \/ RemoveDir(w)
  <2>1. /\ UNCHANGED local
        /\ \/ UNCHANGED pc
           \/ Fail(w)
           \/ MoveTo(w, "idle")
           \/ pc[w] = "rmTemp" /\ MoveTo(w, "mkTemp")
           \/ pc[w] = "rmStale" /\ MoveTo(w, "aside")
    BY <1>6 DEF OpenDir, UnlinkFile, RemoveDir, Removed, Goto, Return
  <2>2. QED
    BY <2>1, Arrives, FailPermits DEF Permitted, Alone
<1>7. QED
  BY <1>1, <1>2, <1>3, <1>4, <1>5, <1>6 DEF Step

\* A call starts and is killed without a permission to misuse.
LEMMA NextPermits ==
  ASSUME PermitInv, [Next]_vars
  PROVE  PermitInv'
<1>0. TypeOK /\ TypeOK' /\ \A w \in Writers : Permitted(w)
  BY BundleNextTyped DEF PermitInv
<1>1. ASSUME NEW w \in Writers, Permitted(w)', Alone(w)
      PROVE  PermitInv'
  BY <1>0, <1>1 DEF PermitInv, Permitted, Alone
<1>2. ASSUME NEW w \in Writers, Call(w)
      PROVE  PermitInv'
  <2>1. MoveTo(w, "stat") /\ \A v \in Writers \ {w} : local'[v] = local[v]
    BY <1>0, <1>2 DEF Call, TypeOK
  <2>2. Permitted(w)' /\ Alone(w)
    BY <1>0, <2>1, Arrives DEF Permitted, Alone
  <2>3. QED
    BY <1>1, <2>2
<1>3. ASSUME NEW w \in Writers, Step(w)
      PROVE  PermitInv'
  BY <1>0, <1>1, <1>3, StepPermits
<1>4. ASSUME NEW w \in Writers, Fault(w)
      PROVE  PermitInv'
  BY <1>0, <1>1, <1>4, FailPermits DEF Fault
<1>5. ASSUME NEW w \in Writers, Crash(w)
      PROVE  PermitInv'
  <2>1. MoveTo(w, "idle") /\ UNCHANGED local
    BY <1>5 DEF Crash, Return
  <2>2. Permitted(w)' /\ Alone(w)
    BY <1>0, <2>1, Arrives DEF Permitted, Alone
  <2>3. QED
    BY <1>1, <2>2
<1>6. CASE UNCHANGED vars
  BY <1>0, <1>6 DEF vars, PermitInv, Permitted
<1>7. QED
  BY <1>2, <1>3, <1>4, <1>5, <1>6 DEF Next, AllDone

\* What the destination holds complete gives way to the move aside only: no rename
\* lands on a directory with files in it.
LEMMA OnlyAside ==
  ASSUME TypeOK, NEW w \in Writers, Step(w), Whole(fs["dest"]),
         fs'["dest"].by # fs["dest"].by
  PROVE  MoveAside(w)
<1> USE DEF Names
<1>1. ~(StatDest(w) \/ StatTemp(w) \/ StatStale(w) \/ OpenDir(w))
  BY DEF StatDest, StatTemp, StatStale, OpenDir
<1>2. ~(MakeTemp(w) \/ CreateFile(w))
  <2>1. MakeTemp(w) \/ CreateFile(w) => fs'["dest"] = fs["dest"]
    BY DEF MakeTemp, CreateFile, Created, TypeOK
  <2>2. QED
    BY <2>1
<1>3. ~FinishFile(w)
  BY DEF FinishFile, Written, TypeOK, Dirs
<1>4. ~(Install(w) \/ Restore(w) \/ Publish(w))
  <2>1. Exists(fs["dest"]) /\ ~Empty(fs["dest"])
    <3>1. 1 \in Files
      BY DEF Files
    <3>2. fs["dest"].files[1].whole /\ ~Absent.whole
      BY <3>1 DEF Whole, Absent
    <3>3. QED
      BY <3>1, <3>2 DEF Whole, Empty
  <2>2. Install(w) \/ Restore(w) \/ Publish(w) => UNCHANGED fs
    BY <2>1 DEF Install, Restore, Publish, RenameThen, Renamable
  <2>3. QED
    BY <2>2
<1>5. ~UnlinkFile(w)
  BY DEF UnlinkFile, Unlinked, TypeOK, Dirs
<1>6. ~RemoveDir(w)
  <2>1. RemoveDir(w) => fs'["dest"] = fs["dest"]
    BY DEF RemoveDir, Target, TypeOK
  <2>2. QED
    BY <2>1
<1>7. QED
  BY <1>1, <1>2, <1>3, <1>4, <1>5, <1>6 DEF Step

\* A complete bundle is replaced or moved aside only by a call with overwrite
\* (write_bundle, writer.rs:287-330), whatever other writers of the run id do
\* between its test of the destination and its rename, fail or are killed.
THEOREM OverwritesAuthorised == Spec => OverwriteAuthorised
<1>1. Init => PermitInv
  <2>1. Init => TypeOK
    BY BundleInitTyped
  <2>2. Init => \A w \in Writers : Permitted(w)
    BY DEF Init, Permitted
  <2>3. QED
    BY <2>1, <2>2 DEF PermitInv
<1>2. PermitInv /\ [Next]_vars => PermitInv'
  BY NextPermits
<1>3. PermitInv /\ [Next]_vars =>
        [\A w \in Writers :
           Whole(fs["dest"]) /\ fs'["dest"].by # fs["dest"].by /\ pc'[w] # pc[w]
             => local[w].overwrite]_vars
  <2> SUFFICES ASSUME PermitInv, [Next]_vars, NEW w \in Writers, Whole(fs["dest"]),
                      fs'["dest"].by # fs["dest"].by, pc'[w] # pc[w]
               PROVE  local[w].overwrite
    OBVIOUS
  <2>1. PICK v \in Writers : Step(v)
    BY DEF Next, Call, Fault, Crash, AllDone, vars
  <2>2. Permitted(v) /\ MoveAside(v) /\ Alone(v)
    BY <2>1, OnlyAside, StepPermits DEF PermitInv
  <2>3. v = w
    BY <2>2 DEF Alone
  <2>4. QED
    BY <2>2, <2>3 DEF MoveAside, Permitted
<1>4. QED
  BY <1>1, <1>2, <1>3, PTL DEF Spec, OverwriteAuthorised

----------------------------------------------------------------------------
(* The invariant, for a writer alone.                                      *)

\* The part of the invariant that speaks of the directories only.
DirsInv == Apart /\ Sealed /\ DestWhole /\ SeenOrKept

\* With one writer, the phase of the one that moves is all there is to show.
LEMMA Reassemble ==
  ASSUME OneWriter, NEW w \in Writers, TypeOK', DirsInv', Phase(w)'
  PROVE  BundleInv'
<1>1. \A v \in Writers : v = w
  BY DEF OneWriter
<1>2. QED
  BY <1>1 DEF BundleInv, DirsInv

LEMMA DirsUnchanged ==
  ASSUME DirsInv, UNCHANGED <<fs, calls, published>>
  PROVE  DirsInv'
BY DEF DirsInv, Apart, Sealed, DestWhole, SeenOrKept, Exists, Whole

\* Where Goto, Return and Fail leave control.
LEMMA Arrived ==
  ASSUME TypeOK, NEW w \in Writers
  PROVE  /\ \A p : Goto(w, p) => pc'[w] = p /\ victim'[w] = 0
         /\ \A r : Return(w, r) => pc'[w] = "idle" /\ victim'[w] = 0
         /\ Fail(w) => pc'[w] = OnError(pc[w]) /\ victim'[w] = 0
<1>1. \A p : Goto(w, p) => pc'[w] = p /\ victim'[w] = 0
  BY DEF TypeOK, Goto, MoveTo
<1>2. \A r : Return(w, r) => pc'[w] = "idle" /\ victim'[w] = 0
  BY DEF TypeOK, Return, MoveTo
<1>3. Fail(w) => pc'[w] = OnError(pc[w]) /\ victim'[w] = 0
  BY <1>1, <1>2 DEF Fail
<1>4. QED
  BY <1>1, <1>2, <1>3

\* Nothing is asked of a call that has returned or is cleaning up.
LEMMA AtRest ==
  ASSUME NEW w \in Writers, pc'[w] \in {"idle", "clean"}, victim'[w] = 0,
         pc'[w] = "clean" => local'[w].call \in 1..calls'
  PROVE  Phase(w)'
BY DEF Phase, Fresh, Remembered, Staged, Held

\* A failed step that changed nothing leaves the call in order.
LEMMA FailKeepsPhase ==
  ASSUME BundleInv, NEW w \in Writers, pc[w] # "idle", Fail(w),
         UNCHANGED <<fs, local, calls>>
  PROVE  Phase(w)'
<1>1. /\ pc'[w] = OnError(pc[w]) /\ victim'[w] = 0
      /\ local'[w].call \in 1..calls'
  BY Arrived DEF BundleInv, Phase
<1>2. CASE pc[w] = "install"
  <2>1. pc'[w] = "restore"
    BY <1>1, <1>2 DEF OnError
  <2>2. ~Exists(fs["dest"]) /\ Whole(fs["backup"])
    BY <1>2 DEF BundleInv, Phase, Remembered
  <2>3. QED
    BY <1>1, <2>1, <2>2 DEF Phase, Fresh, Remembered, Staged, Held, Exists, Whole
<1>3. CASE pc[w] # "install"
  <2>1. pc'[w] \in {"idle", "clean"}
    BY <1>1, <1>3 DEF OnError
  <2>2. QED
    BY <1>1, <2>1, AtRest
<1>4. QED
  BY <1>2, <1>3

\* A directory renamed is found under its new name, and nowhere else.
LEMMA Renamed ==
  ASSUME TypeOK, NEW a \in Names, NEW b \in Names, a # b, fs' = Moved(a, b)
  PROVE  /\ fs'[b] = fs[a]
         /\ fs'[a].by = 0
         /\ \A f \in Files : fs'[a].files[f] = Absent
         /\ \A n \in Names \ {a, b} : fs'[n] = fs[n]
BY DEF TypeOK, Moved, NoDir

\* Renaming keeps the directories apart.
LEMMA RenameKeepsApart ==
  ASSUME BundleInv, NEW a \in Names, NEW b \in Names, a # b,
         fs' = Moved(a, b), UNCHANGED calls
  PROVE  Apart'
<1>1. /\ fs'[b].by = fs[a].by /\ fs'[a].by = 0
      /\ \A n \in Names \ {a, b} : fs'[n].by = fs[n].by
  BY Renamed DEF BundleInv
<1>2. QED
  BY <1>1 DEF BundleInv, Apart, TypeOK

\* What FinishFile and UnlinkFile do to the directories they do not mean, and
\* to the one they do.
LEMMA WrittenFacts ==
  ASSUME TypeOK, NEW f \in Files, NEW c \in 1..MaxCalls, fs' = Written(f, c), NEW n \in Names
  PROVE  /\ fs'[n].by = fs[n].by
         /\ \A g \in Files : fs'[n].files[g].by = fs[n].files[g].by
         /\ \A g \in Files : fs[n].files[g].whole => fs'[n].files[g].whole
         /\ fs[n].files[f].by = c => fs'[n].files[f].whole
         /\ \A g \in Files : fs[n].files[g].by # c => fs'[n].files[g] = fs[n].files[g]
<1>1. fs[n] \in Dirs
  BY DEF TypeOK
<1>2. fs'[n] = IF fs[n].files[f].by = c
               THEN [fs[n] EXCEPT !.files[f] = [by |-> c, whole |-> TRUE]] ELSE fs[n]
  BY DEF Written
<1>3. CASE fs[n].files[f].by # c
  BY <1>2, <1>3
<1>4. CASE fs[n].files[f].by = c
  BY <1>1, <1>2, <1>4 DEF Dirs
<1>5. QED
  BY <1>3, <1>4

LEMMA UnlinkedFacts ==
  ASSUME TypeOK, NEW f \in Files, NEW d \in 1..MaxCalls, fs' = Unlinked(d, f), NEW n \in Names
  PROVE  /\ fs'[n].by = fs[n].by
         /\ fs[n].by # d => fs'[n] = fs[n]
         /\ \A g \in Files : \/ fs'[n].files[g] = fs[n].files[g]
                             \/ fs'[n].files[g].by = 0
<1>1. fs[n] \in Dirs
  BY DEF TypeOK
<1>2. fs'[n] = IF fs[n].by = d THEN [fs[n] EXCEPT !.files[f] = Absent] ELSE fs[n]
  BY DEF Unlinked
<1>3. CASE fs[n].by # d
  BY <1>2, <1>3
<1>4. CASE fs[n].by = d
  BY <1>1, <1>2, <1>4 DEF Dirs, Absent
<1>5. QED
  BY <1>3, <1>4

\* Renaming the staged bundle to a free destination publishes a whole one.
LEMMA PublishesWhole ==
  ASSUME BundleInv, Whole(fs["temp"]), fs' = Moved("temp", "dest"),
         UNCHANGED calls, published' \in BOOLEAN
  PROVE  DirsInv' /\ Exists(fs["dest"])'
<1> USE DEF Names
<1>1. /\ fs'["dest"] = fs["temp"] /\ fs'["backup"] = fs["backup"]
  BY Renamed DEF BundleInv
<1>2. Apart'
  BY RenameKeepsApart
<1>3. Whole(fs["dest"])'
  BY <1>1 DEF Whole, Exists
<1>4. Sealed'
  BY <1>1, <1>3 DEF BundleInv, Sealed, Whole
<1>5. QED
  BY <1>2, <1>3, <1>4 DEF DirsInv, DestWhole, SeenOrKept, Whole

\* What the operators say of directories that did not change.
LEMMA SameDirs ==
  fs' = fs => \A n \in Names : /\ Exists(fs[n])' = Exists(fs[n])
                              /\ Whole(fs[n])' = Whole(fs[n])
BY DEF Exists, Whole

\* The steps that only look.
LEMMA PhaseStep ==
  ASSUME BundleInv, NEW w \in Writers,
         \/ StatDest(w) \/ StatTemp(w) \/ StatStale(w) \/ OpenDir(w)
  PROVE  DirsInv' /\ Phase(w)'
<1> USE DEF Names
<1>0. TypeOK /\ DirsInv /\ Phase(w)
  BY DEF BundleInv, DirsInv
<1>1. UNCHANGED <<fs, calls, published>>
  BY DEF StatDest, StatTemp, StatStale, OpenDir
<1>2. DirsInv'
  BY <1>0, <1>1, DirsUnchanged
<1>3. CASE StatDest(w)
  <2>1. CASE Collides(w)
    <3>1. pc'[w] = "idle" /\ victim'[w] = 0
      BY <1>0, <1>3, <2>1, Arrived DEF StatDest
    <3>2. QED
      BY <1>2, <3>1, AtRest
  <2>2. CASE ~Collides(w)
    <3>1. /\ pc'[w] = "statTemp" /\ victim'[w] = 0
          /\ local'[w].existed = Exists(fs["dest"])
          /\ local'[w].call = local[w].call /\ local'[w].file = local[w].file
      BY <1>0, <1>3, <2>2, Arrived DEF StatDest, TypeOK, Locals
    <3>2. pc[w] = "stat"
      BY <1>3 DEF StatDest
    <3>9. QED
      BY <1>2, <1>0, <1>1, <3>1, <3>2, SameDirs
         DEF Phase, Fresh, Remembered, Staged, Held
  <2>3. QED
    BY <2>1, <2>2
<1>4. CASE StatTemp(w)
  <2>1. /\ pc[w] = "statTemp" /\ victim'[w] = 0 /\ local' = local
        /\ pc'[w] \in {"rmTemp", "mkTemp"}
    BY <1>0, <1>4, Arrived DEF StatTemp
  <2>2. QED
    BY <1>2, <1>0, <1>1, <2>1, SameDirs
       DEF Phase, Fresh, Remembered, Staged, Held
<1>5. CASE StatStale(w)
  <2>1. /\ pc[w] = "statStale" /\ victim'[w] = 0 /\ local' = local
        /\ pc'[w] \in {"rmStale", "aside"}
    BY <1>0, <1>5, Arrived DEF StatStale
  <2>2. QED
    BY <1>2, <1>0, <1>1, <2>1, SameDirs
       DEF Phase, Fresh, Remembered, Staged, Held
<1>6. CASE OpenDir(w)
  <2> DEFINE d == fs[Target(pc[w])]
  <2>1. CASE Exists(d)
    <3>1. /\ pc' = pc /\ local' = local /\ victim'[w] = d.by
          /\ pc[w] \in Removing
      BY <1>0, <1>6, <2>1 DEF OpenDir, TypeOK
    <3>9. QED
      BY <1>2, <1>0, <1>1, <3>1, SameDirs
         DEF Phase, Fresh, Remembered, Staged, Held
  <2>2. CASE ~Exists(d)
    <3>1. Fail(w) /\ pc[w] # "idle" /\ local' = local
      BY <1>6, <2>2 DEF OpenDir, Removing
    <3>2. QED
      BY <1>1, <1>2, <3>1, FailKeepsPhase
  <2>3. QED
    BY <2>1, <2>2
<1>7. QED
  BY <1>2, <1>3, <1>4, <1>5, <1>6

LEMMA BuildStep ==
  ASSUME BundleInv, NEW w \in Writers,
         MakeTemp(w) \/ CreateFile(w) \/ FinishFile(w)
  PROVE  DirsInv' /\ Phase(w)'
<1> USE DEF Names
<1>0. TypeOK /\ DirsInv /\ Phase(w)
  BY DEF BundleInv, DirsInv
<1>1. UNCHANGED <<calls, published, faulted>> /\ pc[w] \in {"mkTemp", "create", "write"}
  BY DEF MakeTemp, CreateFile, FinishFile
<1>2. local[w] \in Locals /\ local[w].call \in 1..calls /\ local[w].call \in 1..MaxCalls
  BY <1>0, <1>1 DEF Phase, TypeOK
<1>3. ASSUME Fail(w), UNCHANGED <<fs, local>>
      PROVE  DirsInv' /\ Phase(w)'
  BY <1>0, <1>1, <1>3, DirsUnchanged, FailKeepsPhase
<1>4. CASE MakeTemp(w)
  <2>1. CASE Exists(fs["temp"])
    BY <1>3, <1>4, <2>1 DEF MakeTemp
  <2>2. CASE ~Exists(fs["temp"])
    <3>1. /\ fs' = [fs EXCEPT !["temp"].by = local[w].call]
          /\ pc'[w] = "create" /\ victim'[w] = 0 /\ local' = local
          /\ pc[w] = "mkTemp"
      BY <1>0, <1>4, <2>2, Arrived DEF MakeTemp
    <3>2. /\ fs'["temp"].by = local[w].call
          /\ \A n \in Names : n # "temp" => fs'[n] = fs[n]
      BY <1>0, <3>1 DEF TypeOK, Dirs
    <3>3. local[w].file = 1 /\ \A n \in Names : fs[n].by < local[w].call
      BY <1>0, <3>1 DEF Phase, Fresh
    <3>4. Apart'
      BY <1>0, <1>1, <1>2, <3>2, <3>3 DEF DirsInv, Apart, TypeOK, Dirs
    <3>5. /\ Sealed' /\ DestWhole' /\ SeenOrKept'
      BY <1>0, <1>1, <3>2 DEF DirsInv, Sealed, DestWhole, SeenOrKept, Exists, Whole
    <3>6. Phase(w)'
      <4>1. Exists(fs["temp"])' /\ Exists(fs["dest"])' = Exists(fs["dest"])
        BY <1>2, <3>2 DEF Exists
      <4>2. QED
        BY <1>0, <1>1, <1>2, <3>1, <3>3, <4>1
           DEF Phase, Fresh, Remembered, Staged, Held
    <3>7. QED
      BY <3>4, <3>5, <3>6 DEF DirsInv
  <2>3. QED
    BY <2>1, <2>2
<1>5. CASE CreateFile(w)
  <2>1. CASE ~Exists(fs["temp"])
    BY <1>3, <1>5, <2>1 DEF CreateFile
  <2>2. CASE Exists(fs["temp"])
    <3> DEFINE f == local[w].file
               e == [by |-> local[w].call, whole |-> FALSE]
    <3>1. /\ fs' = [fs EXCEPT !["temp"].files[f] = e]
          /\ pc'[w] = "write" /\ victim'[w] = 0 /\ local' = local
          /\ pc[w] = "create"
      BY <1>0, <1>5, <2>2, Arrived DEF CreateFile, Created
    <3>2. f \in Files /\ fs["temp"] \in Dirs
      BY <1>0, <1>2 DEF Locals, TypeOK
    <3>3. /\ fs'["temp"] = [fs["temp"] EXCEPT !.files[f] = e]
          /\ \A n \in Names : n # "temp" => fs'[n] = fs[n]
      BY <1>0, <3>1 DEF TypeOK
    <3>4. /\ fs'["temp"].by = fs["temp"].by
          /\ fs'["temp"].files[f].by = local[w].call
          /\ \A g \in Files : g # f => fs'["temp"].files[g] = fs["temp"].files[g]
      BY <3>2, <3>3 DEF Dirs
    <3>5. DirsInv'
      <4>1. \A n \in Names : fs'[n].by = fs[n].by
        BY <3>3, <3>4
      <4>2. fs'["dest"] = fs["dest"] /\ fs'["backup"] = fs["backup"]
        BY <3>3
      <4>3. Apart'
        BY <1>0, <1>1, <4>1 DEF DirsInv, Apart
      <4>4. QED
        BY <1>0, <1>1, <4>2, <4>3
           DEF DirsInv, Sealed, DestWhole, SeenOrKept, Exists, Whole
    <3>6. Phase(w)'
      BY <1>0, <1>1, <1>2, <2>2, <3>1, <3>2, <3>3, <3>4
         DEF Phase, Fresh, Remembered, Staged, Held, Exists, Files
    <3>7. QED
      BY <3>5, <3>6
  <2>3. QED
    BY <2>1, <2>2
<1>6. CASE FinishFile(w)
  <2> DEFINE f == local[w].file
             c == local[w].call
  <2>1. /\ fs' = Written(f, c) /\ victim'[w] = 0 /\ pc[w] = "write"
        /\ LastFile(w) => /\ local' = local
                          /\ pc'[w] = IF local[w].existed THEN "statStale" ELSE "publish"
        /\ ~LastFile(w) => /\ local' = [local EXCEPT ![w].file = @ + 1]
                           /\ pc'[w] = "create"
    BY <1>0, <1>6, Arrived DEF FinishFile, Replaces
  <2>2. f \in Files
    BY <1>2 DEF Locals
  <2>3. \A n \in Names :
          /\ fs'[n].by = fs[n].by
          /\ \A g \in Files : fs'[n].files[g].by = fs[n].files[g].by
          /\ \A g \in Files : fs[n].files[g].whole => fs'[n].files[g].whole
          /\ fs[n].files[f].by = c => fs'[n].files[f].whole
    <3>1. c \in 1..MaxCalls
      BY <1>0, <1>2 DEF Locals
    <3>2. TypeOK /\ fs' = Written(f, c)
      BY <1>0, <2>1
    <3> HIDE DEF f, c
    <3>3. QED
      BY <2>2, <3>1, <3>2, WrittenFacts
  <2>4. DirsInv'
    BY <1>0, <1>1, <2>3
       DEF DirsInv, Apart, Sealed, DestWhole, SeenOrKept, Exists, Whole
  <2>5. \A g \in 1..f : fs'["temp"].files[g].whole
    <3>1. /\ \A g \in 1..(f - 1) : fs["temp"].files[g].whole
          /\ fs["temp"].files[f].by = c
      BY <1>0, <2>1 DEF Phase, Staged
    <3>2. fs'["temp"].files[f].whole
      BY <2>3, <3>1
    <3>3. \A g \in 1..(f - 1) : fs'["temp"].files[g].whole
      BY <2>2, <2>3, <3>1 DEF Files
    <3>4. QED
      BY <2>2, <3>2, <3>3 DEF Files
  <2>6. Exists(fs["temp"])' /\ local[w].existed = Exists(fs["dest"])'
    BY <1>0, <2>1, <2>3 DEF Phase, Staged, Remembered, Exists
  <2>7. CASE LastFile(w)
    <3>1. Whole(fs["temp"])'
      BY <2>5, <2>6, <2>7 DEF LastFile, Whole, Files
    <3>2. QED
      BY <1>0, <1>1, <1>2, <2>1, <2>4, <2>6, <2>7, <3>1
         DEF Phase, Fresh, Remembered, Staged, Held
  <2>8. CASE ~LastFile(w)
    <3>1. /\ local'[w].file = f + 1 /\ local'[w].call = c
          /\ local'[w].existed = local[w].existed /\ pc'[w] = "create"
      BY <1>0, <1>2, <2>1, <2>8 DEF TypeOK, Locals
    <3>2. Fresh(w)' /\ Remembered(w)'
      BY <2>1, <2>6, <3>1 DEF Fresh, Remembered
    <3>3. Staged(w)'
      <4>1. f \in Nat /\ (f + 1) - 1 = f
        BY <2>2 DEF Files
      <4>2. QED
        BY <2>5, <2>6, <3>1, <4>1 DEF Staged
    <3>4. QED
      BY <1>0, <1>1, <1>2, <2>1, <2>4, <3>1, <3>2, <3>3 DEF Phase, Held
  <2>9. QED
    BY <2>7, <2>8
<1>7. QED
  BY <1>4, <1>5, <1>6

LEMMA RenameStep ==
  ASSUME BundleInv, NEW w \in Writers,
         MoveAside(w) \/ Install(w) \/ Restore(w) \/ Publish(w)
  PROVE  DirsInv' /\ Phase(w)'
<1> USE DEF Names
<1>0. TypeOK /\ DirsInv /\ Phase(w)
  BY DEF BundleInv, DirsInv
<1>1. UNCHANGED <<calls, local>> /\ pc[w] \in {"aside", "install", "restore", "publish"}
  BY DEF MoveAside, Install, Restore, Publish, RenameThen
<1>2. local'[w].call \in 1..calls'
  BY <1>0, <1>1 DEF Phase
<1>3. ASSUME Fail(w), UNCHANGED <<fs, published>>
      PROVE  DirsInv' /\ Phase(w)'
  BY <1>0, <1>1, <1>3, DirsUnchanged, FailKeepsPhase
<1>4. published \in BOOLEAN
  BY <1>0 DEF TypeOK
<1>5. CASE MoveAside(w)
  <2>1. CASE ~Renamable("dest", "backup")
    BY <1>3, <1>5, <2>1 DEF MoveAside, RenameThen
  <2>2. CASE Renamable("dest", "backup")
    <3>1. /\ fs' = Moved("dest", "backup") /\ pc'[w] = "install" /\ victim'[w] = 0
          /\ pc[w] = "aside" /\ published' = published
      BY <1>0, <1>5, <2>2, Arrived DEF MoveAside, RenameThen
    <3>2. /\ fs'["backup"] = fs["dest"] /\ fs'["temp"] = fs["temp"]
          /\ fs'["dest"].by = 0 /\ \A f \in Files : fs'["dest"].files[f].by = 0
      BY <1>0, <3>1, Renamed DEF Absent
    <3>3. Whole(fs["dest"]) /\ Whole(fs["temp"])
      BY <1>0, <3>1 DEF DirsInv, DestWhole, Phase, Remembered, Staged
    <3>4. Whole(fs["backup"])' /\ Whole(fs["temp"])' /\ ~Exists(fs["dest"])'
      BY <3>2, <3>3 DEF Whole, Exists
    <3>5. Apart'
      BY <1>1, <3>1, RenameKeepsApart
    <3>6. Sealed'
      BY <3>2, <3>3 DEF Sealed, Whole
    <3>7. DirsInv'
      BY <3>4, <3>5, <3>6 DEF DirsInv, DestWhole, SeenOrKept
    <3>8. QED
      BY <1>2, <3>1, <3>4, <3>7 DEF Phase, Fresh, Remembered, Staged, Held
  <2>3. QED
    BY <2>1, <2>2
<1>6. CASE Install(w)
  <2>1. CASE ~Renamable("temp", "dest")
    <3>1. published' = published
      BY <1>4, <1>6, <2>1 DEF Install
    <3>2. QED
      BY <1>3, <1>6, <2>1, <3>1 DEF Install, RenameThen
  <2>2. CASE Renamable("temp", "dest")
    <3>1. /\ fs' = Moved("temp", "dest") /\ pc'[w] = "drop" /\ victim'[w] = 0
          /\ pc[w] = "install" /\ published' \in BOOLEAN
      BY <1>0, <1>6, <2>2, Arrived DEF Install, RenameThen
    <3>2. Whole(fs["temp"])
      BY <1>0, <3>1 DEF Phase, Staged
    <3>3. DirsInv' /\ Exists(fs["dest"])'
      BY <1>1, <3>1, <3>2, PublishesWhole
    <3>4. QED
      BY <1>2, <3>1, <3>3 DEF Phase, Fresh, Remembered, Staged, Held
  <2>3. QED
    BY <2>1, <2>2
<1>7. CASE Restore(w)
  <2>1. CASE ~Renamable("backup", "dest")
    BY <1>3, <1>7, <2>1 DEF Restore, RenameThen
  <2>2. CASE Renamable("backup", "dest")
    <3>1. /\ fs' = Moved("backup", "dest") /\ pc'[w] = "clean" /\ victim'[w] = 0
          /\ pc[w] = "restore" /\ published' = published
      BY <1>0, <1>7, <2>2, Arrived DEF Restore, RenameThen
    <3>2. /\ fs'["dest"] = fs["backup"]
          /\ \A f \in Files : fs'["backup"].files[f].by = 0
      BY <1>0, <3>1, Renamed DEF Absent
    <3>3. Whole(fs["backup"])
      BY <1>0, <3>1 DEF Phase, Remembered
    <3>4. Whole(fs["dest"])'
      BY <3>2, <3>3 DEF Whole, Exists
    <3>5. Apart'
      BY <1>1, <3>1, RenameKeepsApart
    <3>6. Sealed'
      BY <3>2, <3>3 DEF Sealed, Whole
    <3>7. DirsInv'
      BY <3>4, <3>5, <3>6 DEF DirsInv, DestWhole, SeenOrKept, Whole
    <3>8. QED
      BY <1>2, <3>1, <3>7, AtRest
  <2>3. QED
    BY <2>1, <2>2
<1>8. CASE Publish(w)
  <2>1. CASE ~Renamable("temp", "dest")
    <3>1. published' = published
      BY <1>4, <1>8, <2>1 DEF Publish
    <3>2. QED
      BY <1>3, <1>8, <2>1, <3>1 DEF Publish
  <2>2. CASE Renamable("temp", "dest")
    <3>1. /\ fs' = Moved("temp", "dest") /\ pc'[w] = "idle" /\ victim'[w] = 0
          /\ pc[w] = "publish" /\ published' \in BOOLEAN
      BY <1>0, <1>8, <2>2, Arrived DEF Publish
    <3>2. Whole(fs["temp"])
      BY <1>0, <3>1 DEF Phase, Staged
    <3>3. DirsInv'
      BY <1>1, <3>1, <3>2, PublishesWhole
    <3>4. QED
      BY <3>1, <3>3, AtRest
  <2>3. QED
    BY <2>1, <2>2
<1>9. QED
  BY <1>5, <1>6, <1>7, <1>8

\* What the removal of a directory may touch: the one its path names.
LEMMA RemoveStep ==
  ASSUME BundleInv, NEW w \in Writers, UnlinkFile(w) \/ RemoveDir(w)
  PROVE  DirsInv' /\ Phase(w)'
<1> USE DEF Names
<1> DEFINE t == Target(pc[w])
<1>0. TypeOK /\ DirsInv /\ Phase(w)
  BY DEF BundleInv, DirsInv
<1>1. /\ UNCHANGED <<calls, local, published>>
      /\ pc[w] \in Removing /\ victim[w] # 0
      /\ pc[w] # "idle" /\ local[w].call \in 1..calls
  BY <1>0 DEF UnlinkFile, RemoveDir, Removing, Phase
<1>2. victim[w] = fs[t].by /\ victim[w] \in 1..MaxCalls
  BY <1>0, <1>1 DEF Phase, Held, TypeOK
<1>3. /\ t \in Names /\ t # "dest"
      /\ t = "backup" => pc[w] \in {"rmStale", "drop"} /\ Exists(fs["dest"])
      /\ t = "temp" => pc[w] \in {"rmTemp", "clean"}
  BY <1>0, <1>1 DEF Target, Removing, Phase, Remembered
<1>4. CASE UnlinkFile(w)
  <2>1. PICK f \in Files : fs' = Unlinked(victim[w], f)
    BY <1>4 DEF UnlinkFile
  <2>2. \A n \in Names : n # t => fs'[n] = fs[n]
    <3>1. \A n \in Names : n # t => fs[n].by # victim[w]
      BY <1>0, <1>2, <1>3 DEF DirsInv, Apart
    <3>2. QED
      BY <1>0, <1>2, <2>1, <3>1, UnlinkedFacts
  <2>3. /\ fs'[t].by = fs[t].by
        /\ \A g \in Files : fs'[t].files[g] = fs[t].files[g] \/ fs'[t].files[g].by = 0
    BY <1>0, <1>2, <1>3, <2>1, UnlinkedFacts
  <2>4. Exists(fs["dest"])' = Exists(fs["dest"]) /\ Whole(fs["dest"])' = Whole(fs["dest"])
    BY <1>3, <2>2 DEF Exists, Whole
  <2>5. Apart'
    BY <1>0, <1>1, <2>2, <2>3 DEF DirsInv, Apart
  <2>6. Sealed'
    BY <1>0, <1>3, <2>2, <2>3 DEF DirsInv, Sealed
  <2>7. SeenOrKept'
    <3>1. CASE t = "backup"
      BY <1>3, <2>4, <3>1 DEF SeenOrKept
    <3>2. CASE t = "temp"
      BY <1>0, <1>1, <2>2, <2>4, <3>2 DEF DirsInv, SeenOrKept, Whole, Exists
    <3>3. QED
      BY <1>3, <3>1, <3>2
  <2>8. DirsInv'
    BY <1>0, <2>4, <2>5, <2>6, <2>7 DEF DirsInv, DestWhole
  <2>9. Phase(w)'
    <3>1. UNCHANGED <<pc, victim>>
      BY <1>4 DEF UnlinkFile
    <3>2. Whole(fs["temp"])' = Whole(fs["temp"]) \/ t = "temp"
      BY <1>3, <2>2 DEF Whole, Exists
    <3>3. \A n \in Names : fs'[n].by = fs[n].by
      BY <2>2, <2>3
    <3>4. Held(w)'
      BY <1>0, <3>1, <3>3 DEF Phase, Held, Target
    <3>5. Fresh(w)' /\ Remembered(w)'
      BY <1>0, <1>1, <1>3, <2>4, <3>1, <3>3 DEF Phase, Fresh, Remembered, Removing
    <3>6. Staged(w)'
      BY <1>0, <1>1, <1>3, <3>1, <3>2 DEF Phase, Staged, Removing
    <3>7. QED
      BY <1>1, <3>1, <3>4, <3>5, <3>6 DEF Phase
  <2>10. QED
    BY <2>8, <2>9
<1>5. CASE RemoveDir(w)
  <2>1. CASE ~(Exists(fs[t]) /\ Empty(fs[t]))
    <3>1. Fail(w) /\ UNCHANGED fs
      BY <1>5, <2>1 DEF RemoveDir
    <3>2. QED
      BY <1>0, <1>1, <3>1, DirsUnchanged, FailKeepsPhase
  <2>2. CASE Exists(fs[t]) /\ Empty(fs[t])
    <3>1. fs' = [fs EXCEPT ![t] = NoDir] /\ Removed(w)
      BY <1>5, <2>2 DEF RemoveDir
    <3>2. /\ \A n \in Names : n # t => fs'[n] = fs[n]
          /\ fs'[t].by = 0 /\ \A f \in Files : fs'[t].files[f].by = 0
      BY <1>0, <1>3, <3>1 DEF TypeOK, NoDir, Absent
    <3>3. Exists(fs["dest"])' = Exists(fs["dest"]) /\ Whole(fs["dest"])' = Whole(fs["dest"])
      BY <1>3, <3>2 DEF Exists, Whole
    <3>4. Apart'
      BY <1>0, <1>1, <3>2 DEF DirsInv, Apart, TypeOK
    <3>5. Sealed'
      BY <1>0, <1>3, <3>2 DEF DirsInv, Sealed
    <3>6. SeenOrKept'
      <4>1. CASE t = "backup"
        BY <1>3, <3>3, <4>1 DEF SeenOrKept
      <4>2. CASE t = "temp"
        BY <1>0, <1>1, <3>2, <3>3, <4>2 DEF DirsInv, SeenOrKept, Whole, Exists
      <4>3. QED
        BY <1>3, <4>1, <4>2
    <3>7. DirsInv'
      BY <1>0, <3>3, <3>4, <3>5, <3>6 DEF DirsInv, DestWhole
    <3>8. Phase(w)'
      <4>1. CASE pc[w] \in {"clean", "drop"}
        <5>1. pc'[w] = "idle" /\ victim'[w] = 0
          BY <1>0, <3>1, <4>1, Arrived DEF Removed
        <5>2. QED
          BY <5>1, AtRest
      <4>2. CASE pc[w] = "rmTemp"
        <5>1. pc'[w] = "mkTemp" /\ victim'[w] = 0
          BY <1>0, <3>1, <4>2, Arrived DEF Removed
        <5>2. \A n \in Names : fs'[n].by < local[w].call
          BY <1>0, <1>1, <3>2, <4>2 DEF Phase, Fresh, TypeOK
        <5>3. QED
          BY <1>0, <1>1, <3>3, <4>2, <5>1, <5>2
             DEF Phase, Fresh, Remembered, Staged, Held
      <4>3. CASE pc[w] = "rmStale"
        <5>1. pc'[w] = "aside" /\ victim'[w] = 0
          BY <1>0, <3>1, <4>3, Arrived DEF Removed
        <5>2. Whole(fs["temp"])' = Whole(fs["temp"])
          BY <3>2, <4>3 DEF Whole, Exists, Target
        <5>3. QED
          BY <1>0, <1>1, <3>3, <4>3, <5>1, <5>2
             DEF Phase, Fresh, Remembered, Staged, Held
      <4>4. QED
        BY <1>1, <4>1, <4>2, <4>3 DEF Removing
    <3>9. QED
      BY <3>7, <3>8
  <2>3. QED
    BY <2>1, <2>2
<1>6. QED
  BY <1>4, <1>5

\* A step of the writer keeps the invariant.
LEMMA StepKeepsInv ==
  ASSUME OneWriter, BundleInv, NEW w \in Writers, Step(w)
  PROVE  BundleInv'
<1>1. TypeOK'
  BY StepTyped DEF BundleInv
<1>2. DirsInv' /\ Phase(w)'
  BY PhaseStep, BuildStep, RenameStep, RemoveStep DEF Step
<1>3. QED
  BY <1>1, <1>2, Reassemble

LEMMA InitInv == Init => BundleInv
<1> SUFFICES ASSUME Init
             PROVE  BundleInv
  OBVIOUS
<1>1. TypeOK
  BY BundleInitTyped
<1>2. \A n \in Names : fs[n] = NoDir
  BY DEF Init
<1>3. DirsInv
  BY <1>2 DEF Init, DirsInv, Apart, Sealed, DestWhole, SeenOrKept, Exists, Names,
              NoDir, Absent
<1>4. \A w \in Writers : Phase(w)
  BY DEF Init, Phase, Fresh, Remembered, Staged, Held
<1>5. QED
  BY <1>1, <1>3, <1>4 DEF BundleInv, DirsInv

LEMMA NextKeepsInv ==
  ASSUME OneWriter, BundleInv, [Next]_vars
  PROVE  BundleInv'
<1>0. TypeOK /\ DirsInv /\ \A w \in Writers : Phase(w)
  BY DEF BundleInv, DirsInv
<1>1. TypeOK'
  BY <1>0, BundleNextTyped
<1>2. ASSUME NEW w \in Writers, Call(w)
      PROVE  BundleInv'
  <2>1. /\ pc'[w] = "stat" /\ victim'[w] = 0 /\ UNCHANGED <<fs, published>>
        /\ local'[w].call = calls + 1 /\ local'[w].file = 1 /\ calls' = calls + 1
    BY <1>0, <1>2 DEF Call, MoveTo, TypeOK
  <2>2. Apart'
    BY <1>0, <2>1 DEF DirsInv, Apart, TypeOK, Dirs
  <2>3. DirsInv'
    BY <1>0, <2>1, <2>2 DEF DirsInv, Sealed, DestWhole, SeenOrKept, Exists, Whole
  <2>4. \A n \in Names : fs'[n].by < local'[w].call
    BY <1>0, <2>1 DEF DirsInv, Apart, TypeOK, Dirs
  <2>5. local'[w].call \in 1..calls'
    BY <1>0, <2>1 DEF TypeOK
  <2>6. Phase(w)'
    BY <2>1, <2>4, <2>5 DEF Phase, Fresh, Remembered, Staged, Held
  <2>7. QED
    BY <1>1, <2>3, <2>6, Reassemble
<1>3. ASSUME NEW w \in Writers, Fault(w)
      PROVE  BundleInv'
  <2>1. /\ Fail(w) /\ UNCHANGED <<fs, local, calls, published>>
        /\ pc[w] # "idle"
    BY <1>3 DEF Fault, Steps, Removing
  <2>2. DirsInv' /\ Phase(w)'
    BY <1>0, <2>1, DirsUnchanged, FailKeepsPhase
  <2>3. QED
    BY <1>1, <2>2, Reassemble
<1>4. ASSUME NEW w \in Writers, Crash(w)
      PROVE  BundleInv'
  <2>1. /\ pc'[w] = "idle" /\ victim'[w] = 0
        /\ UNCHANGED <<fs, local, calls, published>>
    BY <1>0, <1>4, Arrived DEF Crash
  <2>2. DirsInv' /\ Phase(w)'
    BY <1>0, <2>1, DirsUnchanged, AtRest
  <2>3. QED
    BY <1>1, <2>2, Reassemble
<1>5. CASE UNCHANGED vars
  BY <1>5 DEF vars, BundleInv, TypeOK, Apart, Sealed, DestWhole, SeenOrKept, Phase,
              Fresh, Remembered, Staged, Held, Exists, Whole
<1>6. QED
  BY <1>2, <1>3, <1>4, <1>5, StepKeepsInv DEF Next, AllDone

LEMMA AlwaysInv == OneWriter => (Spec => []BundleInv)
<1> SUFFICES ASSUME OneWriter
             PROVE  Spec => []BundleInv
  OBVIOUS
<1>1. BundleInv /\ [Next]_vars => BundleInv'
  BY NextKeepsInv
<1>2. QED
  BY <1>1, InitInv, PTL DEF Spec

\* A reader of the destination finds a complete bundle or none, whatever
\* failed or was killed.
THEOREM DestinationWhole == OneWriter => (Spec => []DestWhole)
<1>1. BundleInv => DestWhole
  BY DEF BundleInv
<1>2. QED
  BY <1>1, AlwaysInv, PTL

\* A published bundle is never lost: move aside, failed rename, failed
\* restore, crash and retry always leave a complete one.
THEOREM BundleNeverLost == OneWriter => (Spec => []BundleSurvives)
<1>1. BundleInv => BundleSurvives
  BY DEF BundleInv, DestWhole, SeenOrKept, BundleSurvives
<1>2. QED
  BY <1>1, AlwaysInv, PTL

-----------------------------------------------------------------------------
(***************************************************************************)
(* A writer alone implements the store of complete versions: every step on *)
(* the directories is a step of BundleStore or changes neither the visible *)
(* version nor the one set aside.  The invariant BundleInv supplies        *)
(* what the abstract guards ask: that the destination is free where the    *)
(* final rename happens, and that the backup is only removed while the     *)
(* destination holds a bundle.                                             *)
(***************************************************************************)

\* The refinement mapping of Store.
Version(d) == IF Whole(d) THEN d.by ELSE 0
Visible == Version(fs["dest"])
Kept == Version(fs["backup"])


\* A step of the store, or a stutter, in terms of the mapping.
StoreStep ==
  \/ Visible = 0 /\ Visible' \in 1..MaxCalls /\ Kept' = Kept
  \/ Visible # 0 /\ Kept = 0 /\ Kept' = Visible /\ Visible' = 0
  \/ Visible = 0 /\ Kept # 0 /\ Visible' = Kept /\ Kept' = 0
  \/ Visible # 0 /\ Kept # 0 /\ Kept' = 0 /\ Visible' = Visible
  \/ Visible' = Visible /\ Kept' = Kept

LEMMA StoreStepMaps == StoreStep => [Store!StoreNext]_(Store!storeVars)
BY DEF StoreStep, Visible, Kept, Version, Store!StoreNext, Store!storeVars,
       Store!Appear, Store!SetAside, Store!Return, Store!Forget

\* A directory that did not change holds the same version.
LEMMA SameVersions ==
  ASSUME fs'["dest"] = fs["dest"], fs'["backup"] = fs["backup"]
  PROVE  StoreStep
BY DEF StoreStep, Visible, Kept, Version, Whole, Exists

\* An empty directory, or none, holds no version.
LEMMA NoVersion ==
  /\ \A d : Empty(d) => ~Whole(d)
  /\ \A d : ~Exists(d) => ~Whole(d)
  /\ ~Whole(NoDir)
BY DEF Empty, Whole, Exists, Absent, Files, NoDir

\* Finishing a file of the staging directory does not touch the two others.
LEMMA WritingKeepsVersions ==
  ASSUME BundleInv, NEW w \in Writers, FinishFile(w)
  PROVE  StoreStep
<1> USE DEF Names
<1> DEFINE f == local[w].file
           c == local[w].call
<1>1. TypeOK /\ Sealed /\ fs' = Written(f, c) /\ pc[w] = "write"
  BY DEF BundleInv, FinishFile
<1>2. f \in Files /\ c \in 1..MaxCalls
  BY <1>1 DEF BundleInv, Phase, TypeOK, Locals
<1>3. ASSUME NEW n \in {"dest", "backup"}
      PROVE  Whole(fs[n])' = Whole(fs[n]) /\ fs'[n].by = fs[n].by
  <2>1. /\ fs'[n].by = fs[n].by
        /\ \A g \in Files : fs[n].files[g].whole => fs'[n].files[g].whole
        /\ \A g \in Files : fs[n].files[g].by # c => fs'[n].files[g] = fs[n].files[g]
    <3>1. n \in Names
      OBVIOUS
    <3> HIDE DEF f, c
    <3>2. QED
      BY <1>1, <1>2, <3>1, WrittenFacts
  <2>2. \A g \in Files : fs[n].files[g].by = c => fs[n].files[g].whole
    BY <1>1, <1>2 DEF Sealed
  <2>3. QED
    BY <2>1, <2>2 DEF Whole, Exists
<1>4. QED
  BY <1>3 DEF StoreStep, Visible, Kept, Version

LEMMA RenameMaps ==
  ASSUME BundleInv, NEW w \in Writers,
         MoveAside(w) \/ Install(w) \/ Restore(w) \/ Publish(w)
  PROVE  StoreStep
<1> USE DEF Names
<1>0. TypeOK /\ Phase(w) /\ DestWhole
  BY DEF BundleInv
<1>1. ASSUME UNCHANGED fs
      PROVE  StoreStep
  BY <1>1, SameVersions
<1>2. CASE MoveAside(w) /\ Renamable("dest", "backup")
  <2>1. fs' = Moved("dest", "backup")
    BY <1>2 DEF MoveAside, RenameThen
  <2>2. fs'["backup"] = fs["dest"] /\ ~Exists(fs'["dest"])
    BY <1>0, <2>1, Renamed DEF Exists
  <2>3. Whole(fs["dest"]) /\ ~Whole(fs["backup"]) /\ fs["dest"].by # 0
    BY <1>0, <1>2, NoVersion DEF Renamable, DestWhole, Exists
  <2>4. QED
    BY <2>2, <2>3, NoVersion DEF StoreStep, Visible, Kept, Version
<1>3. CASE (Install(w) \/ Publish(w)) /\ Renamable("temp", "dest")
  <2>1. fs' = Moved("temp", "dest") /\ pc[w] \in {"install", "publish"}
    BY <1>3 DEF Install, Publish, RenameThen
  <2>2. fs'["dest"] = fs["temp"] /\ fs'["backup"] = fs["backup"]
    BY <1>0, <2>1, Renamed
  <2>3. Whole(fs["temp"]) /\ ~Exists(fs["dest"])
    BY <1>0, <2>1 DEF Phase, Staged, Remembered
  <2>4. fs["temp"].by \in 1..MaxCalls
    BY <1>0, <2>3 DEF TypeOK, Dirs, Whole, Exists
  <2>5. QED
    BY <2>2, <2>3, <2>4, NoVersion DEF StoreStep, Visible, Kept, Version
<1>4. CASE Restore(w) /\ Renamable("backup", "dest")
  <2>1. fs' = Moved("backup", "dest") /\ pc[w] = "restore"
    BY <1>4 DEF Restore, RenameThen
  <2>2. fs'["dest"] = fs["backup"] /\ ~Exists(fs'["backup"])
    BY <1>0, <2>1, Renamed DEF Exists
  <2>3. Whole(fs["backup"]) /\ ~Exists(fs["dest"]) /\ fs["backup"].by # 0
    BY <1>0, <2>1 DEF Phase, Remembered, Whole, Exists
  <2>4. QED
    BY <2>2, <2>3, NoVersion DEF StoreStep, Visible, Kept, Version
<1>5. QED
  BY <1>1, <1>2, <1>3, <1>4 DEF MoveAside, Install, Restore, Publish, RenameThen

LEMMA RemoveMaps ==
  ASSUME BundleInv, NEW w \in Writers, UnlinkFile(w) \/ RemoveDir(w)
  PROVE  StoreStep
<1> USE DEF Names
<1> DEFINE t == Target(pc[w])
<1>0. TypeOK /\ Apart /\ Phase(w) /\ DestWhole
  BY DEF BundleInv
<1>1. pc[w] \in Removing /\ victim[w] # 0 /\ victim[w] = fs[t].by /\ victim[w] \in 1..MaxCalls
  BY <1>0 DEF UnlinkFile, RemoveDir, Phase, Held, TypeOK
<1>2. /\ t \in {"temp", "backup"}
      /\ t = "backup" => Whole(fs["dest"]) /\ fs["dest"].by # 0
  BY <1>0, <1>1 DEF Target, Removing, Phase, Remembered, DestWhole, Exists
<1>3. \A n \in Names : n # t => fs'[n] = fs[n]
  <2>1. CASE UnlinkFile(w)
    <3>1. PICK f \in Files : fs' = Unlinked(victim[w], f)
      BY <2>1 DEF UnlinkFile
    <3>2. QED
      <4>1. \A n \in Names : n # t => fs[n].by # victim[w]
        BY <1>0, <1>1, <1>2 DEF Apart
      <4>2. QED
        BY <1>0, <1>1, <3>1, <4>1, UnlinkedFacts
  <2>2. CASE RemoveDir(w)
    BY <1>0, <1>2, <2>2 DEF RemoveDir, TypeOK
  <2>3. QED
    BY <2>1, <2>2
<1>4. CASE t = "temp"
  BY <1>3, <1>4, SameVersions
<1>5. CASE t = "backup"
  <2>1. Visible' = Visible /\ Visible # 0
    BY <1>2, <1>3, <1>5 DEF Visible, Version, Whole, Exists
  <2>2. Kept' = Kept \/ Kept' = 0
    <3>1. CASE UnlinkFile(w)
      <4>1. PICK f \in Files : fs' = Unlinked(victim[w], f)
        BY <3>1 DEF UnlinkFile
      <4>2. fs'["backup"].by = fs["backup"].by
        BY <1>0, <1>1, <4>1, UnlinkedFacts
      <4>3. ~Whole(fs["backup"])'
        BY <1>0, <1>1, <1>5, <4>1 DEF Unlinked, TypeOK, Dirs, Absent, Whole
      <4>4. QED
        BY <4>3 DEF Kept, Version
    <3>2. CASE RemoveDir(w)
      <4>1. fs'["backup"] = fs["backup"] \/ fs'["backup"] = NoDir
        BY <1>0, <1>5, <3>2 DEF RemoveDir, TypeOK
      <4>2. QED
        BY <4>1, NoVersion DEF Kept, Version, Whole, Exists
    <3>3. QED
      BY <3>1, <3>2
  <2>3. Kept' = Kept \/ (Kept # 0 /\ Kept' = 0)
    BY <2>2
  <2>4. QED
    BY <2>1, <2>3 DEF StoreStep
<1>6. QED
  BY <1>2, <1>4, <1>5

\* Whatever the writer, the disk or a kill does, the store steps or stutters.
LEMMA NextMaps ==
  ASSUME BundleInv, [Next]_vars
  PROVE  StoreStep
<1> USE DEF Names
<1>1. ASSUME UNCHANGED fs
      PROVE  StoreStep
  BY <1>1, SameVersions
<1>2. ASSUME NEW w \in Writers, Step(w)
      PROVE  StoreStep
  <2>1. CASE MakeTemp(w) \/ CreateFile(w)
    <3>1. fs'["dest"] = fs["dest"] /\ fs'["backup"] = fs["backup"]
      BY <2>1 DEF MakeTemp, CreateFile, Created, BundleInv, TypeOK
    <3>2. QED
      BY <3>1, SameVersions
  <2>2. CASE StatDest(w) \/ StatTemp(w) \/ StatStale(w) \/ OpenDir(w)
    BY <1>1, <2>2 DEF StatDest, StatTemp, StatStale, OpenDir
  <2>3. QED
    BY <1>2, <2>1, <2>2, WritingKeepsVersions, RenameMaps, RemoveMaps DEF Step
<1>3. QED
  BY <1>1, <1>2 DEF Next, Call, Fault, Crash, AllDone, vars

\* The writer implements the store of complete versions.
THEOREM WriterImplementsStore == OneWriter => (Spec => ImplementsStore)
<1> SUFFICES ASSUME OneWriter
             PROVE  Spec => ImplementsStore
  OBVIOUS
<1>1. Init => Store!StoreInit
  <2>1. Init => ~Whole(fs["dest"]) /\ ~Whole(fs["backup"])
    BY NoVersion DEF Init, Names
  <2>2. QED
    BY <2>1 DEF Store!StoreInit
<1>2. BundleInv /\ [Next]_vars => [Store!StoreNext]_(Store!storeVars)
  BY NextMaps, StoreStepMaps
<1>3. QED
  BY <1>1, <1>2, AlwaysInv, PTL DEF Spec, ImplementsStore, Store!StoreSpec

-----------------------------------------------------------------------------
(***************************************************************************)
(* What write_bundle answers, proved for a writer alone and every number   *)
(* of files, of calls and of faults: Ok means that its bundle is in place, *)
(* an error that it is not, and only the file system makes a call fail.    *)
(* Beside BundleInv this needs what the tests of the code have found       *)
(* (Looked), whose bundle is where while the call runs (Ours), and that    *)
(* the error paths are entered by a fault only (Broken).                   *)
(***************************************************************************)

\* What statTemp and statStale found is still there, or still is not.
Looked(w) ==
  /\ pc[w] = "rmTemp" => Exists(fs["temp"])
  /\ pc[w] = "mkTemp" => ~Exists(fs["temp"])
  /\ pc[w] = "rmStale" => Exists(fs["backup"])
  /\ pc[w] = "aside" => ~Exists(fs["backup"])

\* Until its own bundle is in place, those seen and kept are older.
Ours(w) ==
  /\ pc[w] \in Steps \ {"drop"} =>
       fs["dest"].by < local[w].call /\ fs["backup"].by < local[w].call
  /\ pc[w] \in {"create", "write", "statStale", "rmStale", "aside", "install", "publish"} =>
       fs["temp"].by = local[w].call
  /\ pc[w] = "drop" => fs["dest"].by = local[w].call /\ ~Exists(fs["temp"])

\* A call that has not returned has no answer, and gives up after a fault only.
Broken(w) ==
  /\ pc[w] # "idle" => result[w] = "none"
  /\ pc[w] \in {"restore", "clean"} => faulted[w]

AnswerTrue(w) ==
  /\ pc[w] = "idle" /\ result[w] = "ok" =>
       fs["dest"].by = local[w].call /\ ~Exists(fs["temp"])
  /\ result[w] \in {"io", "collision"} => fs["dest"].by # local[w].call
  /\ result[w] = "io" => faulted[w]

CallInv(w) == Looked(w) /\ Ours(w) /\ Broken(w) /\ AnswerTrue(w)

\* The inductive invariant.
AnswerInv == BundleInv /\ \A w \in Writers : CallInv(w)


-----------------------------------------------------------------------------
(* Control.                                                                *)

\* Where a step leaves control, and the answer.
LEMMA Answered ==
  ASSUME TypeOK, NEW w \in Writers
  PROVE  /\ \A p : Goto(w, p) => pc'[w] = p /\ result'[w] = result[w]
         /\ \A r : Return(w, r) => pc'[w] = "idle" /\ result'[w] = r
         /\ Fail(w) => /\ pc'[w] = OnError(pc[w])
                       /\ result'[w] = IF OnError(pc[w]) = "idle" THEN Outcome(pc[w])
                                       ELSE result[w]
<1>1. \A p : Goto(w, p) => pc'[w] = p /\ result'[w] = result[w]
  BY Arrived DEF Goto
<1>2. \A r : Return(w, r) => pc'[w] = "idle" /\ result'[w] = r
  BY Arrived DEF Return, TypeOK
<1>3. QED
  BY <1>1, <1>2 DEF Fail

\* A step that fails because the file system refused it, or after the bundle
\* is in place, leaves a true answer.
LEMMA FailAnswers ==
  ASSUME AnswerInv, NEW w \in Writers, pc[w] # "idle", Fail(w),
         UNCHANGED <<fs, local>>, pc[w] = "drop" \/ faulted'[w]
  PROVE  CallInv(w)'
<1>0. TypeOK /\ CallInv(w)
  BY DEF AnswerInv, BundleInv
<1>1. /\ pc'[w] = OnError(pc[w]) /\ pc[w] \in Steps
      /\ result'[w] = IF OnError(pc[w]) = "idle" THEN Outcome(pc[w]) ELSE "none"
  BY <1>0, Answered DEF TypeOK, CallInv, Broken
<1>2. fs["dest"].by \in Nat /\ local[w].call \in Nat
  BY <1>0 DEF TypeOK, Dirs, Names, Locals
<1>3. CASE pc[w] = "drop"
  <2>1. pc'[w] = "idle" /\ result'[w] = "ok"
    BY <1>1, <1>3 DEF OnError, Outcome
  <2>2. QED
    BY <1>0, <1>3, <2>1
       DEF CallInv, Looked, Ours, Broken, AnswerTrue, Exists, Steps, Removing
<1>4. CASE pc[w] # "drop"
  <2>1. /\ pc'[w] \in {"idle", "clean", "restore"}
        /\ result'[w] = IF pc'[w] = "idle" THEN "io" ELSE "none"
    BY <1>1, <1>4 DEF OnError, Outcome
  <2>2. /\ fs'["dest"].by < local'[w].call /\ fs'["backup"].by < local'[w].call
        /\ faulted'[w]
    BY <1>0, <1>1, <1>4 DEF CallInv, Ours
  <2>3. QED
    BY <1>2, <2>1, <2>2
       DEF CallInv, Looked, Ours, Broken, AnswerTrue, Steps, Removing
<1>5. QED
  BY <1>3, <1>4

-----------------------------------------------------------------------------
(* The steps.                                                              *)

\* The steps that only look.
LEMMA LookAnswers ==
  ASSUME AnswerInv, NEW w \in Writers,
         \/ StatDest(w) \/ StatTemp(w) \/ StatStale(w) \/ OpenDir(w)
  PROVE  CallInv(w)'
<1>0. TypeOK /\ Phase(w) /\ CallInv(w)
  BY DEF AnswerInv, BundleInv
<1>1. UNCHANGED <<fs, faulted>>
  BY DEF StatDest, StatTemp, StatStale, OpenDir
<1>2. fs["dest"].by \in Nat /\ local[w] \in Locals /\ local[w].call \in Nat
  BY <1>0 DEF TypeOK, Dirs, Names, Locals
<1> USE DEF CallInv, Looked, Ours, Broken, AnswerTrue
<1>3. CASE StatDest(w)
  <2>1. pc[w] = "stat" /\ pc[w] \in Steps
    BY <1>3 DEF StatDest, Steps
  <2>2. CASE Collides(w)
    <3>1. pc'[w] = "idle" /\ result'[w] = "collision" /\ local' = local
      BY <1>0, <1>3, <2>2, Answered DEF StatDest
    <3>2. QED
      BY <1>0, <1>1, <1>2, <2>1, <3>1 DEF Steps, Removing
  <2>3. CASE ~Collides(w)
    <3>1. /\ pc'[w] = "statTemp" /\ result'[w] = result[w]
          /\ local'[w].existed = Exists(fs["dest"])
          /\ local'[w].call = local[w].call
      BY <1>0, <1>2, <1>3, <2>3, Answered DEF StatDest, TypeOK, Locals
    <3>2. QED
      BY <1>0, <1>1, <2>1, <3>1 DEF Steps
  <2>4. QED
    BY <2>2, <2>3
<1>4. CASE StatTemp(w)
  <2>1. /\ pc[w] = "statTemp" /\ pc[w] \in Steps /\ local' = local
        /\ pc'[w] = IF Exists(fs["temp"]) THEN "rmTemp" ELSE "mkTemp"
        /\ result'[w] = result[w]
    BY <1>0, <1>4, Answered DEF StatTemp, Leftover, Steps
  <2>2. QED
    BY <1>0, <1>1, <2>1 DEF Exists, Steps, Removing
<1>5. CASE StatStale(w)
  <2>1. /\ pc[w] = "statStale" /\ pc[w] \in Steps /\ local' = local
        /\ pc'[w] = IF Exists(fs["backup"]) THEN "rmStale" ELSE "aside"
        /\ result'[w] = result[w]
    BY <1>0, <1>5, Answered DEF StatStale, Leftover, Steps
  <2>2. QED
    BY <1>0, <1>1, <2>1 DEF Exists, Steps, Removing
<1>6. CASE OpenDir(w)
  <2>1. CASE Exists(fs[Target(pc[w])])
    <3>1. UNCHANGED <<pc, result, local>>
      BY <1>6, <2>1 DEF OpenDir
    <3>2. QED
      BY <1>0, <1>1, <3>1 DEF Exists
  <2>2. CASE ~Exists(fs[Target(pc[w])])
    <3>1. Fail(w) /\ UNCHANGED local /\ pc[w] \in Removing
      BY <1>6, <2>2 DEF OpenDir
    <3>2. pc[w] \in {"clean", "drop"}
      BY <1>0, <2>2, <3>1 DEF Removing, Target
    <3>3. pc[w] = "drop" \/ faulted'[w]
      BY <1>0, <1>1, <3>2
    <3>4. QED
      BY <1>1, <3>1, <3>2, <3>3, FailAnswers
  <2>3. QED
    BY <2>1, <2>2
<1>7. QED
  BY <1>3, <1>4, <1>5, <1>6

\* The steps that build: nothing they need is missing, so none fails.
LEMMA BuildAnswers ==
  ASSUME AnswerInv, NEW w \in Writers,
         MakeTemp(w) \/ CreateFile(w) \/ FinishFile(w)
  PROVE  CallInv(w)'
<1> USE DEF Names
<1>0. TypeOK /\ Phase(w) /\ CallInv(w)
  BY DEF AnswerInv, BundleInv
<1>1. UNCHANGED faulted /\ pc[w] \in {"mkTemp", "create", "write"} /\ pc[w] \in Steps
  BY DEF MakeTemp, CreateFile, FinishFile, Steps
<1>2. local[w] \in Locals /\ local[w].call \in 1..calls /\ local[w].call \in 1..MaxCalls
  BY <1>0, <1>1 DEF Phase, TypeOK
<1>3. CASE MakeTemp(w)
  <2>1. pc[w] = "mkTemp" /\ ~Exists(fs["temp"])
    BY <1>0, <1>3 DEF MakeTemp, CallInv, Looked
  <2>2. /\ fs' = [fs EXCEPT !["temp"].by = local[w].call] /\ local' = local
        /\ pc'[w] = "create" /\ result'[w] = result[w]
    BY <1>0, <1>3, <2>1, Answered DEF MakeTemp
  <2>3. /\ fs'["temp"].by = local[w].call
        /\ fs'["dest"] = fs["dest"] /\ fs'["backup"] = fs["backup"]
    BY <1>0, <2>2 DEF TypeOK, Dirs
  <2>4. QED
    BY <1>0, <1>1, <2>1, <2>2, <2>3
       DEF CallInv, Looked, Ours, Broken, AnswerTrue, Steps
<1>4. CASE CreateFile(w)
  <2>1. pc[w] = "create" /\ Exists(fs["temp"])
    BY <1>0, <1>4 DEF CreateFile, Phase, Staged
  <2>2. /\ fs' = Created(local[w].file, local[w].call) /\ local' = local
        /\ pc'[w] = "write" /\ result'[w] = result[w]
    BY <1>0, <1>4, <2>1, Answered DEF CreateFile
  <2>3. /\ fs'["temp"].by = fs["temp"].by
        /\ fs'["dest"] = fs["dest"] /\ fs'["backup"] = fs["backup"]
    BY <1>0, <2>2 DEF Created, TypeOK, Dirs
  <2>4. QED
    BY <1>0, <1>1, <2>1, <2>2, <2>3
       DEF CallInv, Looked, Ours, Broken, AnswerTrue, Steps
<1>5. CASE FinishFile(w)
  <2>1. /\ pc[w] = "write" /\ result'[w] = result[w]
        /\ fs' = Written(local[w].file, local[w].call)
        /\ pc'[w] \in {"create", "statStale", "publish"}
        /\ pc'[w] = "statStale" => local[w].existed
        /\ \/ local' = local
           \/ local' = [local EXCEPT ![w].file = @ + 1]
    BY <1>0, <1>5, Answered DEF FinishFile, Replaces
  <2>2. local'[w].call = local[w].call /\ local'[w].existed = local[w].existed
    BY <1>0, <1>2, <2>1 DEF TypeOK, Locals
  <2>3. \A n \in Names : fs'[n].by = fs[n].by
    <3>1. local[w].file \in Files
      BY <1>2 DEF Locals
    <3>2. QED
      BY <1>0, <1>2, <2>1, <3>1, WrittenFacts
  <2>4. QED
    BY <1>0, <1>1, <2>1, <2>2, <2>3
       DEF CallInv, Looked, Ours, Broken, AnswerTrue, Steps
<1>6. QED
  BY <1>3, <1>4, <1>5

\* The renames: what they move is there and its new name is free.
LEMMA RenameAnswers ==
  ASSUME AnswerInv, NEW w \in Writers,
         MoveAside(w) \/ Install(w) \/ Restore(w) \/ Publish(w)
  PROVE  CallInv(w)'
<1> USE DEF Names
<1>0. TypeOK /\ Phase(w) /\ CallInv(w)
  BY DEF AnswerInv, BundleInv
<1>1. /\ UNCHANGED <<faulted, local>>
      /\ pc[w] \in {"aside", "install", "restore", "publish"} /\ pc[w] \in Steps \ {"drop"}
  BY DEF MoveAside, Install, Restore, Publish, RenameThen, Steps, Removing
<1>2. /\ local[w].call \in Nat /\ 0 < local[w].call /\ result[w] = "none"
      /\ fs["dest"].by < local[w].call /\ fs["backup"].by < local[w].call
  BY <1>0, <1>1 DEF Phase, TypeOK, CallInv, Ours, Broken
<1>3. CASE MoveAside(w)
  <2>1. pc[w] = "aside" /\ Renamable("dest", "backup")
    BY <1>0, <1>3 DEF MoveAside, Renamable, Phase, Remembered, CallInv, Looked
  <2>2. /\ fs' = Moved("dest", "backup") /\ pc'[w] = "install" /\ result'[w] = "none"
    BY <1>0, <1>2, <1>3, <2>1, Answered DEF MoveAside, RenameThen
  <2>3. fs'["backup"].by = fs["dest"].by /\ fs'["dest"].by = 0 /\ fs'["temp"] = fs["temp"]
    BY <1>0, <2>2, Renamed
  <2>4. QED
    BY <1>0, <1>1, <1>2, <2>1, <2>2, <2>3
       DEF CallInv, Looked, Ours, Broken, AnswerTrue, Steps
<1>4. CASE Install(w)
  <2>1. pc[w] = "install" /\ Renamable("temp", "dest")
    BY <1>0, <1>4 DEF Install, Renamable, Phase, Remembered, Staged, Whole
  <2>2. /\ fs' = Moved("temp", "dest") /\ pc'[w] = "drop" /\ result'[w] = "none"
    BY <1>0, <1>2, <1>4, <2>1, Answered DEF Install, RenameThen
  <2>3. fs'["dest"].by = local[w].call /\ fs'["temp"].by = 0
    BY <1>0, <2>1, <2>2, Renamed DEF CallInv, Ours
  <2>4. QED
    BY <1>0, <1>1, <1>2, <2>1, <2>2, <2>3
       DEF CallInv, Looked, Ours, Broken, AnswerTrue, Exists
<1>5. CASE Restore(w)
  <2>1. pc[w] = "restore" /\ Renamable("backup", "dest")
    BY <1>0, <1>5 DEF Restore, Renamable, Phase, Remembered, Whole
  <2>2. /\ fs' = Moved("backup", "dest") /\ pc'[w] = "clean" /\ result'[w] = "none"
    BY <1>0, <1>2, <1>5, <2>1, Answered DEF Restore, RenameThen
  <2>3. fs'["dest"].by = fs["backup"].by /\ fs'["backup"].by = 0
    BY <1>0, <2>2, Renamed
  <2>4. QED
    BY <1>0, <1>1, <1>2, <2>1, <2>2, <2>3
       DEF CallInv, Looked, Ours, Broken, AnswerTrue
<1>6. CASE Publish(w)
  <2>1. pc[w] = "publish" /\ Renamable("temp", "dest")
    BY <1>0, <1>6 DEF Publish, Renamable, Phase, Remembered, Staged, Whole
  <2>2. /\ fs' = Moved("temp", "dest") /\ pc'[w] = "idle" /\ result'[w] = "ok"
    BY <1>0, <1>6, <2>1, Answered DEF Publish
  <2>3. fs'["dest"].by = local[w].call /\ fs'["temp"].by = 0
    BY <1>0, <2>1, <2>2, Renamed DEF CallInv, Ours
  <2>4. QED
    BY <1>1, <2>2, <2>3
       DEF CallInv, Looked, Ours, Broken, AnswerTrue, Exists, Steps, Removing
<1>7. QED
  BY <1>3, <1>4, <1>5, <1>6

\* The removals: the directory opened is the one the path still names.
LEMMA RemoveAnswers ==
  ASSUME AnswerInv, NEW w \in Writers, UnlinkFile(w) \/ RemoveDir(w)
  PROVE  CallInv(w)'
<1> USE DEF Names
<1> DEFINE t == Target(pc[w])
<1>0. TypeOK /\ Phase(w) /\ CallInv(w)
  BY DEF AnswerInv, BundleInv
<1>1. /\ UNCHANGED <<faulted, local>>
      /\ pc[w] \in Removing /\ victim[w] # 0 /\ pc[w] # "idle" /\ pc[w] \in Steps
  BY DEF UnlinkFile, RemoveDir, Removing, Steps
<1>2. victim[w] = fs[t].by /\ victim[w] \in 1..MaxCalls /\ t \in {"temp", "backup"}
  BY <1>0, <1>1 DEF Phase, Held, TypeOK, Target
<1>3. CASE UnlinkFile(w)
  <2>1. PICK f \in Files : fs' = Unlinked(victim[w], f)
    BY <1>3 DEF UnlinkFile
  <2>2. \A n \in Names : fs'[n].by = fs[n].by
    BY <1>0, <1>2, <2>1, UnlinkedFacts
  <2>3. UNCHANGED <<pc, result>>
    BY <1>3 DEF UnlinkFile
  <2>4. QED
    BY <1>0, <1>1, <2>2, <2>3
       DEF CallInv, Looked, Ours, Broken, AnswerTrue, Exists
<1>4. CASE RemoveDir(w)
  <2>1. Exists(fs[t]) /\ Empty(fs[t])
    BY <1>1, <1>2, <1>4 DEF RemoveDir, Exists
  <2>2. fs' = [fs EXCEPT ![t] = NoDir] /\ Removed(w)
    BY <1>4, <2>1 DEF RemoveDir
  <2>3. /\ \A n \in Names : n # t => fs'[n] = fs[n]
        /\ fs'[t].by = 0
    BY <1>0, <1>2, <2>2 DEF TypeOK, NoDir
  <2>4. local[w].call \in 1..calls /\ local[w].call \in Nat /\ fs["dest"].by \in Nat
    BY <1>0, <1>1 DEF Phase, TypeOK, Dirs
  <2>5. /\ fs'["dest"] = fs["dest"]
        /\ fs'["backup"] = fs["backup"] \/ fs'["backup"].by = 0
    BY <1>2, <2>3
  <2>6. CASE pc[w] = "rmTemp"
    <3>1. pc'[w] = "mkTemp" /\ result'[w] = result[w]
      BY <1>0, <2>2, <2>6, Answered DEF Removed
    <3>2. QED
      BY <1>0, <1>1, <2>3, <2>4, <2>5, <2>6, <3>1
         DEF CallInv, Looked, Ours, Broken, AnswerTrue, Exists, Target, Steps
  <2>7. CASE pc[w] = "rmStale"
    <3>1. pc'[w] = "aside" /\ result'[w] = result[w]
      BY <1>0, <2>2, <2>7, Answered DEF Removed
    <3>2. fs'["temp"] = fs["temp"] /\ fs'["backup"].by = 0
      BY <2>3, <2>7 DEF Target
    <3>3. QED
      BY <1>0, <1>1, <2>4, <2>5, <2>7, <3>1, <3>2
         DEF CallInv, Looked, Ours, Broken, AnswerTrue, Exists, Steps
  <2>8. CASE pc[w] \in {"clean", "drop"}
    <3>1. pc'[w] = "idle" /\ result'[w] = Outcome(pc[w])
      BY <1>0, <2>2, <2>8, Answered DEF Removed
    <3>2. pc[w] = "drop" => fs'["temp"] = fs["temp"]
      BY <2>3 DEF Target
    <3>3. QED
      BY <1>0, <1>1, <2>4, <2>5, <2>8, <3>1, <3>2
         DEF CallInv, Looked, Ours, Broken, AnswerTrue, Exists, Outcome,
             Steps, Removing
  <2>9. QED
    BY <1>1, <2>6, <2>7, <2>8 DEF Removing
<1>5. QED
  BY <1>3, <1>4

-----------------------------------------------------------------------------
\* Every step of the writer, and of what surrounds it.
LEMMA NextKeepsAnswers ==
  ASSUME OneWriter, AnswerInv, [Next]_vars
  PROVE  AnswerInv'
<1>0. /\ TypeOK /\ DirsInv /\ BundleInv'
      /\ \A w \in Writers : Phase(w) /\ CallInv(w)
  BY NextKeepsInv DEF AnswerInv, BundleInv, DirsInv
<1>1. ASSUME NEW w \in Writers, CallInv(w)'
      PROVE  AnswerInv'
  BY <1>0, <1>1 DEF OneWriter, AnswerInv
<1>2. ASSUME NEW w \in Writers, Call(w)
      PROVE  AnswerInv'
  <2>1. /\ pc'[w] = "stat" /\ result'[w] = "none" /\ UNCHANGED fs
        /\ local'[w].call = calls + 1
    BY <1>0, <1>2 DEF Call, MoveTo, TypeOK
  <2>2. fs["dest"].by < calls + 1 /\ fs["backup"].by < calls + 1
    BY <1>0 DEF DirsInv, Apart, TypeOK, Dirs, Names
  <2>3. CallInv(w)'
    BY <2>1, <2>2 DEF CallInv, Looked, Ours, Broken, AnswerTrue
  <2>4. QED
    BY <1>1, <2>3
<1>3. ASSUME NEW w \in Writers, Step(w)
      PROVE  AnswerInv'
  BY <1>1, <1>3, LookAnswers, BuildAnswers, RenameAnswers, RemoveAnswers DEF Step
<1>4. ASSUME NEW w \in Writers, Fault(w)
      PROVE  AnswerInv'
  <2>1. Fail(w) /\ UNCHANGED <<fs, local>> /\ pc[w] # "idle"
    BY <1>4 DEF Fault, Steps, Removing
  <2>2. faulted'[w]
    <3>1. faulted \in [Writers -> BOOLEAN] /\ faulted' = [faulted EXCEPT ![w] = TRUE]
      BY <1>0, <1>4 DEF Fault, TypeOK
    <3>2. QED
      BY <3>1
  <2>3. QED
    BY <1>1, <2>1, <2>2, FailAnswers
<1>5. ASSUME NEW w \in Writers, Crash(w)
      PROVE  AnswerInv'
  <2>1. pc'[w] = "idle" /\ result'[w] = "crashed"
    BY <1>0, <1>5, Answered DEF Crash
  <2>2. CallInv(w)'
    BY <2>1 DEF CallInv, Looked, Ours, Broken, AnswerTrue, Steps, Removing
  <2>3. QED
    BY <1>1, <2>2
<1>6. CASE UNCHANGED vars
  <2>1. \A w \in Writers : CallInv(w)'
    BY <1>0, <1>6
       DEF vars, CallInv, Looked, Ours, Broken, AnswerTrue, Exists
  <2>2. QED
    BY <1>0, <2>1 DEF AnswerInv
<1>7. QED
  BY <1>2, <1>3, <1>4, <1>5, <1>6 DEF Next, AllDone

\* Before the first call nothing is held and nothing was answered.
LEMMA InitAnswers == Init => AnswerInv
<1>1. ASSUME Init, NEW w \in Writers
      PROVE  CallInv(w)
  <2>1. pc[w] = "idle" /\ result[w] = "none"
    BY <1>1 DEF Init
  <2>2. QED
    BY <2>1 DEF CallInv, Looked, Ours, Broken, AnswerTrue, Steps, Removing
<1>2. QED
  BY <1>1, InitInv DEF AnswerInv

\* The invariant holds for ever, for one writer at a time.
LEMMA AlwaysAnswers == OneWriter => (Spec => []AnswerInv)
<1> SUFFICES ASSUME OneWriter
             PROVE  Spec => []AnswerInv
  OBVIOUS
<1>1. AnswerInv /\ [Next]_vars => AnswerInv'
  BY NextKeepsAnswers
<1>2. QED
  BY <1>1, InitAnswers, PTL DEF Spec

\* Ok means that the bundle of this call is at the destination and its staging
\* directory is gone; an error, that the bundle seen is another's; and without
\* a fault of the file system a call errs on a collision only, whatever
\* crashed calls left behind.
THEOREM AnswersAlwaysTrue == OneWriter => (Spec => []AnswersTrue)
<1>1. AnswerInv => AnswersTrue
  BY DEF AnswerInv, CallInv, AnswerTrue, AnswersTrue
<1>2. QED
  BY <1>1, AlwaysAnswers, PTL

-----------------------------------------------------------------------------
(***************************************************************************)
(* A reader beside a writer alone: what got past the manifest of a bundle  *)
(* nobody moves is one complete bundle.  Beside AnswerInv this needs that  *)
(* a directory holds the files of the call that made it only (Authored),   *)
(* and that the reader has opened files of the bundle still seen only      *)
(* (Reading).                                                              *)
(***************************************************************************)

\* The files of a directory are those of the call that made it.
Authored(d) ==
  \A f \in Files : /\ d.files[f].by \in {0, d.by}
                   /\ d.files[f].whole => d.files[f].by # 0

AllAuthored == \A n \in Names : Authored(fs[n])

ReaderTyped ==
  reader \in [file : 0..NumFiles, result : {"none", "noBundle", "torn", "refused", "ok"},
             seen : SUBSET (0..MaxCalls), moved : BOOLEAN]

\* While nothing is moved aside, one bundle is read.
Reading ==
  /\ ReaderTyped
  /\ ~reader.moved =>
       /\ reader.result \notin {"torn", "refused"}
       /\ \E c \in 0..MaxCalls : reader.seen \subseteq {c}
       /\ reader.file # 0 => Whole(fs["dest"]) /\ reader.seen = {fs["dest"].by}

\* The inductive invariant.
ReadInv == AnswerInv /\ AllAuthored /\ Reading

LEMMA NoDirAuthored == Authored(NoDir)
BY DEF Authored, NoDir, Absent

\* The steps that write files: into the directory of their own call.
LEMMA BuildKeepsAuthored ==
  ASSUME AnswerInv, AllAuthored, NEW w \in Writers,
         MakeTemp(w) \/ CreateFile(w) \/ FinishFile(w)
  PROVE  AllAuthored'
<1>0. TypeOK /\ Phase(w) /\ CallInv(w) /\ \A n \in Names : Authored(fs[n])
  BY DEF AnswerInv, BundleInv, AllAuthored
<1>1. pc[w] \in {"mkTemp", "create", "write"}
  BY DEF MakeTemp, CreateFile, FinishFile
<1>2. local[w].call \in 1..MaxCalls /\ local[w].call # 0 /\ local[w].file \in Files
  BY <1>0, <1>1 DEF Phase, TypeOK, Locals
<1>3. fs \in [Names -> Dirs]
  BY <1>0 DEF TypeOK
<1>4. CASE UNCHANGED fs
  BY <1>0, <1>4 DEF AllAuthored, Authored
<1>5. CASE MakeTemp(w) /\ ~UNCHANGED fs
  <2>1. ~Exists(fs["temp"]) /\ fs' = [fs EXCEPT !["temp"].by = local[w].call]
    BY <1>5 DEF MakeTemp
  <2>2. ASSUME NEW n \in Names
        PROVE  Authored(fs[n])'
    <3>1. /\ fs'[n].files = fs[n].files
          /\ fs'[n].by = fs[n].by \/ fs[n].by = 0
      BY <1>3, <2>1 DEF Dirs, Names, Exists
    <3>2. QED
      BY <1>0, <3>1 DEF Authored
  <2>3. QED
    BY <2>2 DEF AllAuthored
<1>6. CASE CreateFile(w) /\ ~UNCHANGED fs
  <2>1. fs' = Created(local[w].file, local[w].call) /\ fs["temp"].by = local[w].call
    BY <1>0, <1>6 DEF CreateFile, CallInv, Ours
  <2>2. ASSUME NEW n \in Names, NEW f \in Files
        PROVE  /\ fs'[n].by = fs[n].by
               /\ \/ fs'[n].files[f] = fs[n].files[f]
                  \/ fs'[n].files[f].by = fs[n].by /\ ~fs'[n].files[f].whole
    <3>1. CASE n = "temp"
      BY <1>2, <1>3, <2>1, <3>1 DEF Created, Dirs, Names
    <3>2. CASE n # "temp"
      BY <1>3, <2>1, <3>2 DEF Created, Dirs, Names
    <3>3. QED
      BY <3>1, <3>2
  <2>3. ASSUME NEW n \in Names
        PROVE  Authored(fs[n])'
    <3>1. ASSUME NEW f \in Files
          PROVE  /\ fs'[n].files[f].by \in {0, fs'[n].by}
                 /\ fs'[n].files[f].whole => fs'[n].files[f].by # 0
      <4>1. /\ fs[n].files[f].by \in {0, fs[n].by}
            /\ fs[n].files[f].whole => fs[n].files[f].by # 0
        BY <1>0 DEF Authored
      <4>2. QED
        BY <2>2, <4>1
    <3>2. QED
      BY <3>1 DEF Authored
  <2>4. QED
    BY <2>3 DEF AllAuthored
<1>7. CASE FinishFile(w)
  <2> DEFINE g == local[w].file
             c == local[w].call
  <2>1. fs' = Written(g, c)
    BY <1>7 DEF FinishFile
  <2>2. ASSUME NEW n \in Names, NEW f \in Files
        PROVE  /\ fs'[n].by = fs[n].by
               /\ \/ fs'[n].files[f] = fs[n].files[f]
                  \/ fs'[n].files[f].by = fs[n].files[f].by /\ fs[n].files[f].by # 0
    BY <1>2, <1>3, <2>1 DEF Written, Dirs
  <2>3. QED
    BY <1>0, <2>2 DEF AllAuthored, Authored
<1>8. QED
  BY <1>4, <1>5, <1>6, <1>7

\* The renames move whole directories.
LEMMA RenameKeepsAuthored ==
  ASSUME TypeOK, AllAuthored, NEW w \in Writers,
         MoveAside(w) \/ Install(w) \/ Restore(w) \/ Publish(w)
  PROVE  AllAuthored'
<1>1. PICK a \in Names, b \in Names : fs' = fs \/ fs' = Moved(a, b)
  BY DEF MoveAside, Install, Restore, Publish, RenameThen, Names
<1>2. ASSUME NEW n \in Names
      PROVE  fs'[n] = NoDir \/ \E m \in Names : fs'[n] = fs[m]
  BY <1>1 DEF Moved, TypeOK
<1>3. ASSUME NEW n \in Names
      PROVE  Authored(fs[n])'
  <2>1. \A m \in Names : Authored(fs[m])
    BY DEF AllAuthored
  <2>2. CASE fs'[n] = NoDir
    BY <2>2, NoDirAuthored DEF Authored
  <2>3. CASE \E m \in Names : fs'[n] = fs[m]
    BY <2>1, <2>3 DEF Authored
  <2>4. QED
    BY <1>2, <2>2, <2>3
<1>4. QED
  BY <1>3 DEF AllAuthored

\* The removals only take files away.
LEMMA RemoveKeepsAuthored ==
  ASSUME TypeOK, AllAuthored, NEW w \in Writers, UnlinkFile(w) \/ RemoveDir(w)
  PROVE  AllAuthored'
<1>0. fs \in [Names -> Dirs] /\ \A n \in Names : Authored(fs[n])
  BY DEF TypeOK, AllAuthored
<1>1. CASE UnlinkFile(w)
  <2>1. PICK f \in Files : fs' = Unlinked(victim[w], f)
    BY <1>1 DEF UnlinkFile
  <2>2. ASSUME NEW n \in Names, NEW g \in Files
        PROVE  /\ fs'[n].by = fs[n].by
               /\ fs'[n].files[g] = fs[n].files[g] \/ fs'[n].files[g] = Absent
    BY <1>0, <2>1 DEF Unlinked, Dirs
  <2>3. QED
    BY <1>0, <2>2 DEF AllAuthored, Authored, Absent
<1>2. CASE RemoveDir(w)
  <2>1. ASSUME NEW n \in Names
        PROVE  fs'[n] = fs[n] \/ fs'[n] = NoDir
    BY <1>0, <1>2 DEF RemoveDir
  <2>2. ASSUME NEW n \in Names
        PROVE  Authored(fs[n])'
    BY <1>0, <2>1, NoDirAuthored DEF Authored
  <2>3. QED
    BY <2>2 DEF AllAuthored
<1>3. QED
  BY <1>1, <1>2

\* Nobody writes into a directory of another call.
LEMMA NextKeepsAuthored ==
  ASSUME AnswerInv, AllAuthored, [Next]_vars
  PROVE  AllAuthored'
<1>0. TypeOK
  BY DEF AnswerInv, BundleInv
<1>1. CASE UNCHANGED fs
  BY <1>1 DEF AllAuthored, Authored
<1>2. ASSUME NEW w \in Writers, Step(w)
      PROVE  AllAuthored'
  <2>1. CASE StatDest(w) \/ StatTemp(w) \/ StatStale(w) \/ OpenDir(w)
    BY <1>1, <2>1 DEF StatDest, StatTemp, StatStale, OpenDir
  <2>2. QED
    BY <1>0, <1>2, <2>1, BuildKeepsAuthored, RenameKeepsAuthored, RemoveKeepsAuthored
       DEF Step
<1>3. QED
  BY <1>1, <1>2 DEF Next, Call, Fault, Crash, AllDone, vars

\* The bundle seen stays, unless it is moved aside as it is.
LEMMA SeenStays ==
  ASSUME OneWriter, AnswerInv, [Next]_vars, Whole(fs["dest"])
  PROVE  \/ Whole(fs["dest"])' /\ fs'["dest"].by = fs["dest"].by
         \/ ~Exists(fs'["dest"]) /\ fs'["backup"] = fs["dest"]
<1>0. TypeOK /\ DestWhole' /\ Exists(fs["dest"])
  BY NextKeepsInv DEF AnswerInv, BundleInv, Whole
<1>1. CASE fs'["dest"].by = fs["dest"].by
  BY <1>0, <1>1 DEF DestWhole, Exists
<1>2. CASE fs'["dest"].by # fs["dest"].by
  <2>1. PICK w \in Writers : Step(w)
    BY <1>2 DEF Next, Call, Fault, Crash, AllDone, vars
  <2>2. MoveAside(w) /\ fs' # fs
    BY <1>0, <1>2, <2>1, OnlyAside
  <2>3. fs' = Moved("dest", "backup")
    BY <2>2 DEF MoveAside, RenameThen
  <2>4. QED
    BY <1>0, <2>3, Renamed DEF Names, Exists
<1>3. QED
  BY <1>1, <1>2

\* A step of the writer, seen by the reader's ghost.
LEMMA WriterKeepsReading ==
  ASSUME OneWriter, AnswerInv, Reading, WriterNext
  PROVE  Reading'
<1> DEFINE aside == Whole(fs["dest"]) /\ ~Exists(fs'["dest"]) /\ fs'["backup"] = fs["dest"]
<1>1. Next /\ reader' = [reader EXCEPT !.moved = @ \/ aside]
  BY DEF WriterNext
<1>2. /\ reader'.file = reader.file /\ reader'.seen = reader.seen
      /\ reader'.result = reader.result
      /\ reader'.moved <=> reader.moved \/ aside
      /\ ReaderTyped'
  BY <1>1 DEF Reading, ReaderTyped
<1>3. ASSUME Whole(fs["dest"]), ~aside
      PROVE  Whole(fs["dest"])' /\ fs'["dest"].by = fs["dest"].by
  BY <1>1, <1>3, SeenStays
<1>4. QED
  BY <1>2, <1>3 DEF Reading

\* What the reader opens of a complete bundle is the file of its call.
LEMMA OpenedIsSeen ==
  ASSUME AllAuthored, NEW f \in Files, Readable(f)
  PROVE  Exists(fs["dest"]) /\ Opened(f) = {fs["dest"].by}
BY DEF AllAuthored, Authored, Names, Readable, Opened, Exists

\* A read that ends: in success, unless the bundle was moved aside.
LEMMA Closed ==
  ASSUME Reading, NEW r \in {"torn", "refused", "ok"}, reader.moved \/ r = "ok",
         reader' = [reader EXCEPT !.file = 0, !.result = r]
  PROVE  Reading'
<1>0. ReaderTyped
  BY DEF Reading
<1>1. /\ reader'.file = 0 /\ reader'.result = r
      /\ reader'.seen = reader.seen /\ reader'.moved = reader.moved
  BY <1>0 DEF ReaderTyped
<1>2. ReaderTyped'
  <2>1. reader' = [file |-> 0, result |-> r, seen |-> reader.seen, moved |-> reader.moved]
    BY <1>0 DEF ReaderTyped
  <2>2. reader.seen \in SUBSET (0..MaxCalls) /\ reader.moved \in BOOLEAN /\ 0 \in 0..NumFiles
    BY <1>0 DEF ReaderTyped
  <2>3. QED
    BY <2>1, <2>2 DEF ReaderTyped
<1>3. QED
  BY <1>1, <1>2 DEF Reading

\* A step of the reader.
LEMMA ReaderKeepsReading ==
  ASSUME AnswerInv, AllAuthored, Reading, ReaderNext
  PROVE  Reading'
<1>0. /\ TypeOK /\ DestWhole /\ UNCHANGED fs
      /\ fs["dest"].by \in 0..MaxCalls /\ NumFiles \in Files
  BY DEF AnswerInv, BundleInv, ReaderNext, vars, TypeOK, Dirs, Names, Files
<1>1. CASE ReadManifest
  <2>1. CASE ~Readable(NumFiles)
    <3>1. reader' = [file |-> 0, result |-> "noBundle", seen |-> {}, moved |-> FALSE]
      BY <1>1, <2>1 DEF ReadManifest, Unread
    <3>2. QED
      BY <1>0, <3>1 DEF Reading, ReaderTyped
  <2>2. CASE Readable(NumFiles)
    <3>1. Whole(fs["dest"]) /\ Opened(NumFiles) = {fs["dest"].by}
      BY <1>0, <2>2, OpenedIsSeen DEF DestWhole
    <3>2. reader' = [file |-> 1, result |-> "none", seen |-> {fs["dest"].by}, moved |-> FALSE]
      BY <1>1, <2>2, <3>1 DEF ReadManifest, Unread
    <3>3. QED
      BY <1>0, <3>1, <3>2 DEF Reading, ReaderTyped, Whole, Exists
  <2>3. QED
    BY <2>1, <2>2
<1>2. CASE ReadTable
  <2>1. reader.file \in Files /\ reader.file + 1 \in 0..NumFiles /\ reader.file # 0
    BY <1>2 DEF ReadTable, Files
  <2>2. CASE ~Readable(reader.file)
    <3>1. reader.moved
      BY <2>1, <2>2 DEF Reading, Readable, Whole
    <3>2. reader' = [reader EXCEPT !.file = 0, !.result = "torn"]
      BY <1>2, <2>2 DEF ReadTable
    <3>3. QED
      BY <3>1, <3>2, Closed
  <2>3. CASE Readable(reader.file)
    <3>1. Opened(reader.file) = {fs["dest"].by}
      BY <2>1, <2>3, OpenedIsSeen
    <3>2. reader' = [reader EXCEPT !.file = @ + 1, !.seen = @ \cup {fs["dest"].by}]
      BY <1>2, <2>3, <3>1 DEF ReadTable
    <3>3. QED
      BY <1>0, <2>1, <3>2 DEF Reading, ReaderTyped, Whole, Exists
  <2>4. QED
    BY <2>2, <2>3
<1>3. CASE ReadDone
  <2>1. PICK r \in {"ok", "refused"} :
          /\ reader' = [reader EXCEPT !.file = 0, !.result = r]
          /\ Cardinality(reader.seen) = 1 => r = "ok"
    BY <1>3 DEF ReadDone
  <2>2. ~reader.moved => r = "ok"
    <3>1. ~reader.moved => reader.seen = {fs["dest"].by}
      BY <1>3 DEF ReadDone, Reading
    <3>2. QED
      BY <2>1, <3>1, FS_Singleton
  <2>3. QED
    BY <2>1, <2>2, Closed
<1>4. QED
  BY <1>1, <1>2, <1>3 DEF ReaderNext

LEMMA NextKeepsReading ==
  ASSUME OneWriter, ReadInv, [WriterNext \/ ReaderNext]_readVars
  PROVE  ReadInv'
<1>0. AnswerInv /\ AllAuthored /\ Reading
  BY DEF ReadInv
<1>1. [Next]_vars
  BY DEF WriterNext, ReaderNext, readVars
<1>2. AnswerInv' /\ AllAuthored'
  BY <1>0, <1>1, NextKeepsAnswers, NextKeepsAuthored
<1>3. CASE UNCHANGED readVars
  <2>1. UNCHANGED <<fs, reader>>
    BY <1>3 DEF readVars, vars
  <2>2. Reading'
    BY <1>0, <2>1 DEF Reading, ReaderTyped, Whole, Exists
  <2>3. QED
    BY <1>2, <2>2 DEF ReadInv
<1>4. QED
  BY <1>0, <1>2, <1>3, WriterKeepsReading, ReaderKeepsReading DEF ReadInv

LEMMA InitReads == ReaderInit => ReadInv
<1> SUFFICES ASSUME ReaderInit
             PROVE  ReadInv
  OBVIOUS
<1>1. AnswerInv
  BY InitAnswers DEF ReaderInit
<1>2. AllAuthored
  BY NoDirAuthored DEF ReaderInit, Init, AllAuthored
<1>3. Reading
  BY DEF ReaderInit, Unread, Reading, ReaderTyped
<1>4. QED
  BY <1>1, <1>2, <1>3 DEF ReadInv

\* The manifest is written last, so what got past it is complete: a read fails
\* on a table, or mixes the files of two calls, only if an overwrite moved the
\* bundle aside while it was read, for any faults and crashes of a writer alone.
THEOREM ManifestAlwaysImpliesTables == OneWriter => (ReadSpec => []ManifestImpliesTables)
<1> SUFFICES ASSUME OneWriter
             PROVE  ReadSpec => []ManifestImpliesTables
  OBVIOUS
<1>1. ReadInv => ManifestImpliesTables
  <2> SUFFICES ASSUME Reading, ~reader.moved
               PROVE  reader.result \notin {"torn", "refused"} /\ ~(Cardinality(reader.seen) > 1)
    BY DEF ReadInv, ManifestImpliesTables
  <2>1. PICK c \in 0..MaxCalls : reader.seen \subseteq {c}
    BY DEF Reading
  <2>2. reader.seen = {} \/ reader.seen = {c}
    BY <2>1
  <2>3. Cardinality(reader.seen) \in {0, 1}
    BY <2>2, FS_Singleton, FS_EmptySet
  <2>4. QED
    BY <2>3 DEF Reading
<1>2. ReadInv /\ [WriterNext \/ ReaderNext]_readVars => ReadInv'
  BY NextKeepsReading
<1>3. QED
  BY <1>1, <1>2, InitReads, PTL DEF ReadSpec

=============================================================================
