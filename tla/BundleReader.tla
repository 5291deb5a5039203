---------------------------- MODULE BundleReader ----------------------------
(***************************************************************************)
(* read_bundle (src/bundle/reader.rs) beside the writers: it opens         *)
(* <output_dir>/<run_id>/manifest.json and then each table, every file by  *)
(* its path and read to its end before the next is opened.                 *)
(***************************************************************************)
EXTENDS BundleWriter, FiniteSets

VARIABLE reader   \* the file it reads next, how the last read ended, ghosts

readVars == <<vars, reader>>

\* file = 0: between two calls of read_bundle.  Ghosts: the calls whose files
\* this read has seen, and whether a bundle was moved aside since it began.
Unread == [file |-> 0, result |-> "none", seen |-> {}, moved |-> FALSE]

ReaderInit == Init /\ reader = Unread

\* A file that is missing, or is cut before its end, fails the read.
Readable(f) == fs["dest"].files[f].whole
Opened(f) == IF Readable(f) THEN {fs["dest"].files[f].by} ELSE {}

\* The manifest first: what follows depends on its schema tag.
ReadManifest ==
  /\ reader.file = 0
  /\ reader' = IF Readable(NumFiles)
               THEN [Unread EXCEPT !.file = 1, !.seen = Opened(NumFiles)]
               ELSE [Unread EXCEPT !.result = "noBundle"]

\* Then the tables in their order.
ReadTable ==
  /\ reader.file \in 1..(NumFiles - 1)
  /\ reader' = IF Readable(reader.file)
               THEN [reader EXCEPT !.file = @ + 1, !.seen = @ \cup Opened(reader.file)]
               ELSE [reader EXCEPT !.file = 0, !.result = "torn"]

\* Every table decoded: their counts must be the manifest's, and so must the
\* run id of the fills.  Files of another call for the same run id may agree.
ReadDone ==
  /\ reader.file = NumFiles
  /\ \E r \in IF Cardinality(reader.seen) = 1 THEN {"ok"} ELSE {"ok", "refused"} :
       reader' = [reader EXCEPT !.file = 0, !.result = r]

ReaderNext == (ReadManifest \/ ReadTable \/ ReadDone) /\ UNCHANGED vars

\* A writer's step, seen by the reader's ghost.
WriterNext ==
  /\ Next
  /\ reader' = [reader EXCEPT !.moved =
                  @ \/ (Whole(fs["dest"]) /\ ~Exists(fs'["dest"]) /\ fs'["backup"] = fs["dest"])]

ReadSpec == ReaderInit /\ [][WriterNext \/ ReaderNext]_readVars

\* The manifest is written last, "so a reader that sees the manifest sees the
\* complete tables" (writer.rs:21): the only thing that can make a read that
\* got past the manifest fail on a table, or mix the files of two calls, is an
\* overwrite that moved the bundle aside while it was being read.
ManifestImpliesTables ==
  reader.result \in {"torn", "refused"} \/ Cardinality(reader.seen) > 1 => reader.moved
=============================================================================
