-------------------------------- MODULE Tape --------------------------------
(***************************************************************************)
(* Opening a tape and replaying it: a historical one                       *)
(* (src/data/historical.rs) while another program writes to its files, or  *)
(* a walk of the simulator (src/data/simulator.rs), checked against the    *)
(* identity a former run recorded (open_verified), then the feed and the   *)
(* clock under the loop (src/data/feed.rs, src/engine/clock.rs,            *)
(* src/engine/backtest.rs).                                                *)
(*                                                                         *)
(* A CSV tape is a directory with a file per step; a Parquet tape is one   *)
(* file whose rows carry their step; header and rows have a byte each.  A  *)
(* file's sha256 is its bytes, so two contents collide only when they are  *)
(* equal.  What may go wrong between the simulator and its client is       *)
(* SimulatorSession's.  Each of the two rounds opens and replays the tape, *)
(* the second one from what the first recorded.                            *)
(***************************************************************************)
EXTENDS TapeFile

CONSTANTS
  Kind,         \* "csv" or "parquet" of each entry of Names, as a function
  Names,        \* file names, in byte order: naturals
  Bytes,        \* [Names -> the contents that file may have]
  Declared(_),  \* the size that the footer of a Parquet content gives it
  Decoded(_),   \* and the size of the batches it decodes to
  InPlace,      \* the kinds whose files are rewritten in place
  Absent,       \* no entry of that name
  Subdir,       \* an entry that is not a regular file
  MaxWrites,    \* bound: writes of the other program
  Walks,        \* [seed -> the responses of the simulator's walk]
  Servers,      \* simulators: "seeded", "old" (draws a seed and echoes none), "clamps"
  Instrument, QuoteSize,  \* what a response does not say of its quotes
  MaxSteps, MaxFileBytes, MaxDecompressed, MaxTotal

ASSUME TapeAssumption ==
  /\ Names \subseteq Nat /\ Kind \in [Names -> {"csv", "parquet"}]
  /\ \A a, b \in Names : Kind[a] = "parquet" /\ Kind[b] = "parquet" => a = b
  /\ DOMAIN Bytes = Names /\ \A name \in Names : \A file \in Bytes[name] : IsContent(file)
  /\ \A name \in Names : Kind[name] = "parquet" =>
       \A file \in Bytes[name] : {Declared(file), Decoded(file)} \subseteq Nat
  /\ DOMAIN Walks \subseteq Nat /\ DOMAIN Walks # {}
  /\ \A seed \in DOMAIN Walks :
       /\ IsList(Walks[seed])
       /\ \A i \in DOMAIN Walks[seed] : IsChainResponse(Walks[seed][i])
  /\ Servers \subseteq {"seeded", "old", "clamps"}
  /\ {Instrument.tick, Instrument.multiplier} \subseteq Nat
  /\ {MaxSteps, MaxFileBytes, MaxDecompressed, MaxTotal} \subseteq Nat

IsFile(entry) == entry \notin {Absent, Subdir}
NoPin == <<>>

VARIABLES
  disk,      \* [Names -> Absent, Subdir or bytes]
  source,    \* the kind of source the run is configured with
  server, walk,  \* the simulator and the walk of its session
  dataSeed,  \* SimulatorSourceSpec.data_seed
  round,     \* 1 or 2
  pc, pin,   \* the phase, and the expected_sha256 of this round
  seen,      \* entries read_dir gave so far, in its order
  fresh,     \* entries created or removed since read_dir began
  handle,    \* the open file: its bytes, which a rewrite in place changes
  opened,    \* the name the handle was opened at, 0 for none
  decoded,   \* bytes counted so far: of a CSV file as it is, of a Parquet file decoded
  identity,  \* what was hashed so far: <<name, bytes>> in hashing order
  tape, total,   \* the snapshots and their estimated size
  cursor, clock, \* the feed's cursor and SimClock
  played,    \* the snapshots replayed
  first,     \* of round 1: [tape, identity], once it was opened
  writes, dirty  \* writes so far; whether any came since round 1 began

envVars == <<disk, writes, dirty, server>>
simVars == <<walk, dataSeed>>
openVars == <<pin, seen, handle, opened, decoded, identity, tape, total, simVars>>
playVars == <<cursor, clock, played>>
vars == <<source, round, pc, fresh, envVars, openVars, playVars, first>>

Before == [ts |-> NoTime, step |-> 0]   \* SimClock::new, at SimTime::MIN
NotOpened == [tape |-> <<>>, identity |-> NoPin]
Mine == {name \in Names : Kind[name] = source}

Init ==
  /\ source \in {Kind[name] : name \in Names} \cup {"simulator"}
  /\ disk \in [Names -> {Absent, Subdir} \cup UNION {Bytes[name] : name \in Names}]
  /\ \A name \in Names :
       disk[name] \in IF Kind[name] = source THEN {Absent, Subdir} \cup Bytes[name] ELSE {Absent}
  /\ server \in IF source = "simulator" THEN Servers ELSE {"seeded"}
  /\ dataSeed \in IF source = "simulator" THEN DOMAIN Walks ELSE {CHOOSE s \in DOMAIN Walks : TRUE}
  /\ walk = <<>>
  /\ round = 1 /\ pc = "stat" /\ pin = NoPin
  /\ seen = <<>> /\ fresh = {} /\ handle = <<>> /\ opened = 0 /\ decoded = 0
  /\ identity = <<>> /\ tape = <<>> /\ total = 0
  /\ cursor = 0 /\ clock = Before /\ played = <<>>
  /\ first = NotOpened
  /\ writes = 0 /\ dirty = FALSE

\* The other program writes, creates or removes a file; in place, it also
\* changes what an open handle of the file reads.
Write ==
  /\ writes < MaxWrites
  /\ \E name \in Mine : \E entry \in {Absent} \cup Bytes[name] :
       /\ entry # disk[name] /\ disk[name] # Subdir
       /\ disk' = [disk EXCEPT ![name] = entry]
       /\ fresh' = IF Absent \in {entry, disk[name]} THEN fresh \cup {name} ELSE fresh
       /\ handle' = IF /\ opened = name /\ Kind[name] \in InPlace
                       /\ Absent \notin {entry, disk[name]}
                    THEN entry ELSE handle
  /\ writes' = writes + 1 /\ dirty' = (pc # "stat" \/ round = 2)
  /\ UNCHANGED <<source, server, round, pc, pin, seen, opened, decoded, identity,
                 tape, total, simVars, playVars, first>>

-----------------------------------------------------------------------------
Goto(phase) == pc' = phase /\ UNCHANGED <<source, round, envVars, playVars, first>>
Fail == Goto("failed") /\ UNCHANGED <<openVars, fresh>>

\* CSV: the path must be a directory - it is, its entries are what changes.
StatDir ==
  /\ pc = "stat" /\ source = "csv"
  /\ Goto("list") /\ fresh' = {}
  /\ UNCHANGED openVars

\* read_dir gives the entries in any order, each present one once; one that
\* came or went meanwhile may be given or not.
List ==
  /\ pc = "list"
  /\ \E name \in Mine \ {seen[i] : i \in DOMAIN seen} :
       /\ disk[name] # Absent
       /\ \/ ~IsFile(disk[name]) /\ Fail
          \/ IsFile(disk[name]) /\ Len(seen) + 1 > MaxSteps /\ Fail
          \/ /\ IsFile(disk[name]) /\ Len(seen) + 1 <= MaxSteps
             /\ seen' = Append(seen, name)
             /\ Goto("list")
             /\ UNCHANGED <<pin, fresh, handle, opened, decoded, identity, tape, total, simVars>>

\* files.sort_by name: the replay order.
MutAsListed(names) == names
Sorted(names) ==
  LET rank == [i \in DOMAIN names |->
                 Cardinality({j \in DOMAIN names : names[j] <= names[i]})]
  IN  [k \in DOMAIN names |-> names[CHOOSE i \in DOMAIN names : rank[i] = k]]

Listed ==
  /\ pc = "list"
  /\ \A name \in Mine :
       disk[name] = Absent \/ name \in fresh \/ \E i \in DOMAIN seen : seen[i] = name
  /\ seen' = Sorted(seen)
  /\ Goto("open")
  /\ UNCHANGED <<pin, fresh, handle, opened, decoded, identity, tape, total, simVars>>

\* Parquet: the path is stat-ed before it is opened.
StatFile ==
  /\ pc = "stat" /\ source = "parquet"
  /\ \E name \in Mine :
       \/ ~IsFile(disk[name]) /\ Fail
       \/ /\ IsFile(disk[name])
          /\ seen' = <<name>>
          /\ Goto("open")
          /\ UNCHANGED <<pin, fresh, handle, opened, decoded, identity, tape, total, simVars>>

\* Open the next file once and check its size by the handle.  The bytes of a CSV
\* file are its decompressed bytes and are counted here; a Parquet file's are
\* counted when it is read.
MoreFiles == Len(identity) < Len(seen)
NextName == seen[Len(identity) + 1]
MutPerFile(size) == size <= MaxFileBytes
SizeOk(size) ==
  size <= MaxFileBytes /\ (source = "csv" => decoded + size <= MaxDecompressed)

OpenFile ==
  /\ pc = "open" /\ source # "simulator" /\ MoreFiles
  /\ LET entry == disk[NextName] IN
       \/ /\ IsFile(entry) /\ SizeOk(Len(entry))
          /\ handle' = entry /\ opened' = NextName
          /\ decoded' = IF source = "csv" THEN decoded + Len(entry) ELSE decoded
          /\ Goto(IF source = "csv" THEN "read" ELSE "hash")
          /\ UNCHANGED <<pin, seen, fresh, identity, tape, total, simVars>>
       \/ ~(IsFile(entry) /\ SizeOk(Len(entry))) /\ Fail

-----------------------------------------------------------------------------
\* snapshot_byte_estimate: a fixed overhead and a size per quote.
SizeOf(snapshot) == 1 + Cardinality(DOMAIN snapshot.quotes)
TotalOf(snapshots) == Sum(MapSeq(SizeOf, snapshots))

\* push_checked, of one snapshot after another.
Takes(snapshots) ==
  /\ \A i \in DOMAIN snapshots : snapshots[i] # Rejected
  /\ Len(tape) + Len(snapshots) <= MaxSteps
  /\ total + TotalOf(snapshots) <= MaxTotal

\* The first snapshot of the tape sets ts_0.
AnchorOf(snapshots) == IF snapshots = <<>> THEN <<>> ELSE <<snapshots[1].meta.ts>>

\* A CSV file is read once, cut off at the ceiling (take(max_file_bytes)):
\* what is hashed is what is parsed.
BytesOf(entry) == SubSeq(entry, 1, IF Len(entry) < MaxFileBytes THEN Len(entry) ELSE MaxFileBytes)
MutReopen == IF IsFile(disk[opened]) THEN BytesOf(disk[opened]) ELSE <<>>
Parsed == BytesOf(handle)
Hashed == Append(identity, <<opened, BytesOf(handle)>>)

\* A Parquet file is hashed, rewound, and read again by the same handle.
HashFile ==
  /\ pc = "hash"
  /\ identity' = Hashed
  /\ Goto("read")
  /\ UNCHANGED <<pin, seen, fresh, handle, opened, decoded, tape, total, simVars>>

\* The sizes that the footer declares are added up and checked before anything is
\* decoded, and those of the batches while they are: a footer may say too little.
MutByFooter(file) == Declared(file) <= MaxDecompressed
Unpacks(file) == Declared(file) <= MaxDecompressed /\ Decoded(file) <= MaxDecompressed

ReadFile ==
  /\ pc = "read"
  /\ LET read == Snapshots(source, Len(identity), Parsed, AnchorOf(tape))
         taken == (source = "parquet" => Unpacks(handle)) /\ Takes(read)
     IN  \/ /\ taken
            /\ tape' = tape \o read
            /\ total' = total + TotalOf(read)
            /\ identity' = IF source = "csv" THEN Hashed ELSE identity
            /\ handle' = <<>> /\ opened' = 0
            /\ decoded' = IF source = "parquet" THEN Decoded(handle) ELSE decoded
            /\ Goto("open")
            /\ UNCHANGED <<pin, seen, fresh, simVars>>
         \/ ~taken /\ Fail

-----------------------------------------------------------------------------
\* What the service makes of the seed it is sent.
Effective ==
  CASE server = "seeded" -> {dataSeed}
    [] server = "clamps" -> {CHOOSE s \in DOMAIN Walks : \A t \in DOMAIN Walks : s <= t}
    [] server = "old"    -> DOMAIN Walks

\* create_session: the walk seed is sent, and recorded as the service echoes it.
MutConfigured(effective) == dataSeed
Recorded(effective) == IF server = "old" THEN dataSeed ELSE effective

CreateSession ==
  /\ pc = "stat" /\ source = "simulator"
  /\ \E effective \in Effective : walk' = Walks[effective] /\ dataSeed' = Recorded(effective)
  /\ Goto("drain")
  /\ UNCHANGED <<pin, seen, fresh, handle, opened, decoded, identity, tape, total>>

\* response_ts.
HasTs(response) == response.ts # NoTime

\* drain: a response is bounded, converted and in order before it is kept.
MoreSteps == Len(tape) < Len(walk)
Drain ==
  /\ pc = "drain" /\ MoreSteps
  /\ LET response == walk[Len(tape) + 1]
         Anchor == IF tape = <<>> THEN response.ts ELSE tape[1].meta.ts
         snapshot == ChainResponseToSnapshot(response, Len(tape), Instrument, Anchor, QuoteSize)
         kept == /\ 2 * Len(response.contracts) <= MaxContracts
                 /\ HasTs(response) /\ snapshot # Rejected
                 /\ tape # <<>> => response.ts > tape[Len(tape)].meta.ts
                 /\ Takes(<<snapshot>>)
     IN  \/ /\ kept
            /\ tape' = Append(tape, snapshot)
            /\ total' = total + SizeOf(snapshot)
            /\ Goto("drain")
            /\ UNCHANGED <<pin, seen, fresh, handle, opened, decoded, identity, simVars>>
         \/ ~kept /\ Fail

\* tape_sha256: every converted value, the quotes in key order.
MutMidOnly(snapshots) ==
  MapSeq(LAMBDA s : <<s.meta.ts, s.meta.step,
                      [key \in DOMAIN s.quotes |-> s.quotes[key].mid]>>, snapshots)
TapeSha256(snapshots) ==
  MapSeq(LAMBDA s : <<s.meta.ts, s.meta.step, s.meta.underlying, s.meta.underlying_price,
                      s.meta.tick, s.meta.multiplier,
                      [key \in DOMAIN s.quotes |->
                        LET q == s.quotes[key]
                        IN  <<q.bid, q.ask, q.mid, q.bid_size, q.ask_size, q.analytics>>]>>,
         snapshots)

\* The drain is done and the session deleted.
Drained ==
  /\ pc = "drain" /\ ~MoreSteps
  /\ identity' = TapeSha256(tape)
  /\ Goto("open")
  /\ UNCHANGED <<pin, seen, fresh, handle, opened, decoded, tape, total, simVars>>

\* TapeMeta::from_tape.
MutFromTape(entries) == entries # <<>>
FromTape(entries) ==
  /\ entries # <<>>
  /\ \A i \in DOMAIN entries : entries[i].meta.step = i - 1
  /\ \A i \in 2..Len(entries) : entries[i].meta.ts > entries[i - 1].meta.ts

MutUnverified == TRUE
\* The simulator has no open_verified: what a former run recorded of the tape is
\* not compared.
Verified == pin = NoPin \/ pin = identity \/ source = "simulator"

Finish ==
  /\ pc = "open" /\ (source = "simulator" \/ ~MoreFiles)
  /\ \/ /\ FromTape(tape) /\ Verified
        /\ pc' = "start"
        /\ first' = IF round = 1 THEN [tape |-> tape, identity |-> identity] ELSE first
        /\ UNCHANGED <<source, round, fresh, envVars, openVars, playVars>>
     \/ ~(FromTape(tape) /\ Verified) /\ Fail

-----------------------------------------------------------------------------
\* DataFeed::next gives what its cursor is at, in each of the feeds.
Gives == cursor < Len(tape)
Given == tape[cursor + 1]

\* SimClock::advance_to: strictly onward in time, and never back in steps.
Onward(meta) == meta.ts > clock.ts /\ meta.step >= clock.step
AdvanceTo(meta) == clock' = [ts |-> meta.ts, step |-> meta.step]

FinalStep == Len(tape) - 1
MutIsLast == cursor > FinalStep
IsLast == cursor = FinalStep

\* The loop's first call of the feed and the later ones.
Play ==
  /\ pc \in {"start", "play"}
  /\ \/ /\ Gives /\ Onward(Given.meta)
        /\ AdvanceTo(Given.meta)
        /\ played' = Append(played, Given)
        /\ cursor' = cursor + 1
        /\ pc' = IF IsLast THEN "done" ELSE "play"
     \/ /\ ~(Gives /\ Onward(Given.meta))
        /\ pc' = "aborted"
        /\ UNCHANGED playVars
  /\ UNCHANGED <<source, round, fresh, envVars, openVars, first>>

\* A second run of the recorded source.
Again ==
  /\ pc \in {"done", "failed"} /\ round = 1 /\ first # NotOpened
  /\ round' = 2 /\ pc' = "stat" /\ pin' = first.identity
  /\ seen' = <<>> /\ handle' = <<>> /\ opened' = 0 /\ decoded' = 0
  /\ identity' = <<>> /\ tape' = <<>> /\ total' = 0
  /\ cursor' = 0 /\ clock' = Before /\ played' = <<>>
  /\ walk' = <<>>
  /\ UNCHANGED <<source, fresh, envVars, dataSeed, first>>

Run == StatDir \/ List \/ Listed \/ StatFile \/ OpenFile \/ HashFile \/ ReadFile
         \/ CreateSession \/ Drain \/ Drained \/ Finish \/ Play \/ Again
Next == Write \/ Run

Spec == Init /\ [][Next]_vars

-----------------------------------------------------------------------------
Opened == pc \in {"start", "play", "done", "aborted"}

\* The tape that the recorded identity hashes.
TapeOfIdentity ==
  LET From(i) == IF i = 1 THEN <<>> ELSE <<identity[1][2][2].ts[2]>>
      read == [i \in DOMAIN identity |-> Snapshots(source, i - 1, identity[i][2], From(i))]
  IN  IF source = "csv" THEN [i \in DOMAIN read |-> read[i][1]] ELSE read[1]

\* A row is quoted in a snapshot as it is written.
Quoted(row, snapshot) ==
  /\ HeadOf(row, snapshot.meta.step) = snapshot.meta
  /\ \E key \in DOMAIN snapshot.quotes :
       LET q == snapshot.quotes[key] IN
         /\ row.strike = <<"int", key[2]>> /\ row.expiration = <<"int", key[1]>>
         /\ row.bid = <<"int", q.bid>> /\ row.ask = <<"int", q.ask>>
         /\ \A c \in Greeks :
              q.analytics[c] = Zero <=> Cell(row, c) \in {None, <<"int", 0>>, <<"real", Zero>>}

\* A tape that opens is one the engine can run: steps from 0, time strictly
\* onward, every mid on the tick and in the spread, files in name order, within
\* the ceilings.  It is what the recorded identity hashes, whatever was written
\* between the listing, the opening and the reading of its files: every row of
\* them is a quote, none is lost, rounded or made up.  And a chain of one
\* expiry, as an upstream strategy is handed it, has the same quotes.
TapeIsValid == Opened =>
  /\ Len(tape) <= MaxSteps /\ total <= MaxTotal /\ decoded <= MaxDecompressed
  /\ \A i \in DOMAIN tape :
       LET quotes == tape[i].quotes
           chain == SnapshotToOptionChain(tape[i])
       IN  /\ tape[i].meta.step = i - 1
           /\ \A j \in 1..(i - 1) : tape[j].meta.ts < tape[i].meta.ts
           /\ \A key \in DOMAIN quotes :
                /\ quotes[key].mid \in quotes[key].bid..quotes[key].ask
                /\ quotes[key].mid % tape[i].meta.tick = 0
                /\ chain # Rejected =>
                     <<quotes[key].bid, quotes[key].ask>>
                       \in IF key[3] = "Call" THEN chain[key[2]].call ELSE chain[key[2]].put
  /\ source = "simulator" => Len(tape) = Len(walk)
  /\ source # "simulator" =>
       /\ tape = TapeOfIdentity
       /\ \A i, j \in DOMAIN identity : i < j => identity[i][1] < identity[j][1]
       /\ \A f \in DOMAIN identity : \A i \in 2..Len(identity[f][2]) :
            \E n \in DOMAIN tape : Quoted(identity[f][2][i], tape[n])
       /\ Sum(MapSeq(LAMBDA s : Cardinality(DOMAIN s.quotes), tape))
            = Sum(MapSeq(LAMBDA file : Len(file[2]) - 1, identity))

\* Run again from what the manifest recorded, the tape is the same tape; and it
\* opens again unless the files were written in between.  A walk is the same if
\* the service echoed the seed that drove it, and when it is not the identity
\* that is recorded for it differs.
Reproduces ==
  round = 2 =>
    /\ Opened =>
         /\ tape = first.tape <=> identity = first.identity
         /\ source # "simulator" \/ server # "old" => tape = first.tape
    /\ pc = "failed" => dirty \/ server = "old"

\* The loop's two guards against a feed that ends early or goes back in time
\* never fire on a tape that was opened: every snapshot is replayed, once.
PlaysTape ==
  /\ pc # "aborted"
  /\ pc = "done" => played = tape

=============================================================================
