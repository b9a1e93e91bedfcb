---------------------------- MODULE BargeSnapshots ----------------------------
(***************************************************************************)
(* How the inventory snapshots of a barge reach the disk and come back     *)
(* (snapshot.go): each snapshot is written to a file named by the second   *)
(* it was taken, by way of a rename; then the "latest" file is rewritten   *)
(* in place; then old files are pruned. The periodic writer, the HTTP      *)
(* handler and the shutdown path can each be inside writeBargeSnapshot at  *)
(* the same time, no lock being held, and the process may end at any step. *)
(*                                                                         *)
(* A snapshot is represented by the second it was taken. Two snapshots are *)
(* taken in different seconds, so that file names never collide.           *)
(***************************************************************************)
EXTENDS Naturals, FiniteSets, FiniteSetsExt

CONSTANTS Writers,         \* goroutines that call takeAndWriteSnapshot
          Keep,            \* -snapshot-keep, at least 1
          MaxTaken         \* bound on the number of snapshots taken

ASSUME KeepAssumption == Keep \in Nat \ {0}
ASSUME MaxTakenAssumption == MaxTaken \in Nat

VARIABLES
  alive,        \* the server process is running
  clock,        \* the second of the last snapshot taken
  pc,           \* where each writer is in takeAndWriteSnapshot
  at,           \* snap.TakenAt of each writer
  apart,        \* no other writer touched "latest" since this one truncated it
  stale,        \* files[:len-keep] of each writer's listing still to be removed
  files,        \* the timestamped snapshot files
  latest,       \* the snapshot in the "latest" file, 0 when there is none
  torn,         \* "latest" does not hold a whole JSON document
  restored,     \* the snapshot restored at the last start, 0 for none
  written,      \* the newest snapshot a writer put into "latest" (history)
  newest,       \* the newest snapshot that got its timestamped file (history)
  unpruned,     \* a writer was cut off, or could not list, since the last listing (history)
  unremoved,    \* files that the last attempt to remove left in place (history)
  overlapped    \* two writers have been active at once (history)

disk == <<files, latest, torn>>
history == <<written, newest, unpruned, unremoved, overlapped>>
vars == <<alive, clock, pc, at, apart, stale, disk, restored, history>>

Taken == 1..MaxTaken

TypeOK ==
  /\ alive \in BOOLEAN
  /\ clock \in 0..MaxTaken
  /\ pc \in [Writers -> {"idle", "write", "open", "fill", "list", "remove"}]
  /\ at \in [Writers -> 0..MaxTaken]
  /\ \A w \in Writers : pc[w] # "idle" => at[w] \in Taken
  /\ apart \in [Writers -> BOOLEAN]
  /\ stale \in [Writers -> SUBSET Taken]
  /\ files \subseteq Taken
  /\ latest \in 0..MaxTaken /\ torn \in BOOLEAN
  /\ restored \in 0..MaxTaken
  /\ written \in 0..MaxTaken /\ newest \in 0..MaxTaken
  /\ unremoved \subseteq Taken
  /\ unpruned \in BOOLEAN /\ overlapped \in BOOLEAN

Init ==
  /\ alive = TRUE /\ clock = 0
  /\ pc = [w \in Writers |-> "idle"] /\ at = [w \in Writers |-> 0]
  /\ apart = [w \in Writers |-> FALSE] /\ stale = [w \in Writers |-> {}]
  /\ files = {} /\ latest = 0 /\ torn = FALSE
  /\ restored = 0
  /\ written = 0 /\ newest = 0 /\ unpruned = FALSE /\ unremoved = {} /\ overlapped = FALSE

larger(m, n) == IF m < n THEN n ELSE m

-----------------------------------------------------------------------------
(* takeAndWriteSnapshot.                                                   *)

\* buildSnapshot: the inventory and its time, under m.mu.
buildSnapshot(w) ==
  /\ alive /\ pc[w] = "idle"
  /\ clock < MaxTaken
  /\ clock' = clock + 1
  /\ at' = [at EXCEPT ![w] = clock + 1]
  /\ pc' = [pc EXCEPT ![w] = "write"]
  /\ overlapped' = (overlapped \/ \E v \in Writers : pc[v] # "idle")
  /\ UNCHANGED <<alive, apart, stale, disk, restored, written, newest, unpruned,
                 unremoved>>

\* The temporary file is written and renamed into place.
WriteTimestamped(w) ==
  /\ pc[w] = "write"
  /\ files' = files \cup {at[w]}
  /\ newest' = larger(newest, at[w])
  /\ pc' = [pc EXCEPT ![w] = "open"]
  /\ UNCHANGED <<alive, clock, at, apart, stale, latest, torn, restored, written,
                 unpruned, unremoved, overlapped>>

\* The directory, the temporary file or the rename failed: the call returns.
WriteFails(w) ==
  /\ pc[w] = "write"
  /\ pc' = [pc EXCEPT ![w] = "idle"]
  /\ UNCHANGED <<alive, clock, at, apart, stale, disk, restored, history>>

\* os.WriteFile(latest) truncates the file ...
OpenLatest(w) ==
  /\ pc[w] = "open"
  /\ torn' = TRUE
  /\ apart' = [v \in Writers |-> v = w /\ \A u \in Writers \ {w} : pc[u] # "fill"]
  /\ pc' = [pc EXCEPT ![w] = "fill"]
  /\ UNCHANGED <<alive, clock, at, stale, files, latest, restored, history>>

MutantFillOnce(w) ==       \* an existing "latest" keeps its contents
  /\ pc[w] = "fill"
  /\ latest' = IF latest = 0 THEN at[w] ELSE latest
  /\ torn' \in IF apart[w] THEN {FALSE} ELSE BOOLEAN
  /\ apart' = [v \in Writers |-> FALSE]
  /\ written' = larger(written, at[w])
  /\ pc' = [pc EXCEPT ![w] = "list"]
  /\ UNCHANGED <<alive, clock, at, stale, files, restored, newest, unpruned,
                 unremoved, overlapped>>

\* ... and fills it. Two writers that have it open write over each other: what
\* is left is the document of the later one, or a mixture.
FillLatest(w) ==
  /\ pc[w] = "fill"
  /\ latest' = at[w]
  /\ torn' \in IF apart[w] THEN {FALSE} ELSE BOOLEAN
  /\ apart' = [v \in Writers |-> FALSE]
  /\ written' = larger(written, at[w])
  /\ pc' = [pc EXCEPT ![w] = "list"]
  /\ UNCHANGED <<alive, clock, at, stale, files, restored, newest, unpruned,
                 unremoved, overlapped>>

\* An error of os.WriteFile(latest), at the open or at the write, is ignored.
LatestFails(w) ==
  /\ pc[w] \in {"open", "fill"}
  /\ pc' = [pc EXCEPT ![w] = "list"]
  /\ UNCHANGED <<alive, clock, at, apart, stale, disk, restored, history>>

MutantAllButOldest(s, keep) ==    \* the names are sorted the other way round
  {t \in s : Cardinality({u \in s : u < t}) >= keep}

\* All but the newest keep of a set of snapshots.
allButNewest(s, keep) ==
  {t \in s : Cardinality({u \in s : t < u}) >= keep}

MutantListKeepsMore(w) ==     \* the slice keeps one file too many
  /\ pc[w] = "list"
  /\ stale' = [stale EXCEPT ![w] = allButNewest(files, Keep + 1)]
  /\ unpruned' = FALSE
  /\ pc' = [pc EXCEPT ![w] = "remove"]
  /\ UNCHANGED <<alive, clock, at, apart, disk, restored, written, newest,
                 unremoved, overlapped>>

\* pruneSnapshots reads the directory and decides what to remove ...
ListSnapshots(w) ==
  /\ pc[w] = "list"
  /\ stale' = [stale EXCEPT ![w] = allButNewest(files, Keep)]
  /\ unpruned' = FALSE
  /\ pc' = [pc EXCEPT ![w] = "remove"]
  /\ UNCHANGED <<alive, clock, at, apart, disk, restored, written, newest,
                 unremoved, overlapped>>

\* The directory cannot be read: the call returns and nothing is pruned.
ListFails(w) ==
  /\ pc[w] = "list"
  /\ unpruned' = TRUE
  /\ pc' = [pc EXCEPT ![w] = "idle"]
  /\ UNCHANGED <<alive, clock, at, apart, stale, disk, restored, written, newest,
                 unremoved, overlapped>>

\* ... and removes one file after another, oldest first. A file that another
\* writer has removed already is passed over ...
RemoveStale(w) ==
  /\ pc[w] = "remove" /\ stale[w] # {}
  /\ files' = files \ {Min(stale[w])}
  /\ unremoved' = unremoved \ {Min(stale[w])}
  /\ stale' = [stale EXCEPT ![w] = @ \ {Min(@)}]
  /\ UNCHANGED <<alive, clock, pc, at, apart, latest, torn, restored, written, newest,
                 unpruned, overlapped>>

\* ... and so is one that os.Remove cannot remove.
RemoveFails(w) ==
  /\ pc[w] = "remove" /\ stale[w] # {}
  /\ Min(stale[w]) \in files
  /\ unremoved' = unremoved \cup {Min(stale[w])}
  /\ stale' = [stale EXCEPT ![w] = @ \ {Min(@)}]
  /\ UNCHANGED <<alive, clock, pc, at, apart, disk, restored, written, newest, unpruned,
                 overlapped>>

Return(w) ==
  /\ pc[w] = "remove" /\ stale[w] = {}
  /\ pc' = [pc EXCEPT ![w] = "idle"]
  /\ UNCHANGED <<alive, clock, at, apart, stale, disk, restored, history>>

-----------------------------------------------------------------------------
(* The process.                                                            *)

\* The process ends: killed, or by runServer, which does not wait for the
\* periodic writer and only 30 s for the HTTP handler.
ProcessEnds ==
  /\ alive
  /\ alive' = FALSE
  /\ pc' = [w \in Writers |-> "idle"]
  /\ apart' = [w \in Writers |-> FALSE]
  /\ stale' = [w \in Writers |-> {}]
  /\ unpruned' = (unpruned \/ \E w \in Writers : pc[w] # "idle")
  /\ UNCHANGED <<clock, at, disk, restored, written, newest,
                 unremoved, overlapped>>

\* loadLatestSnapshot. A "latest" that exists and cannot be parsed is an error;
\* the timestamped files are consulted only when there is no "latest".
loadLatestSnapshot ==
  IF torn THEN 0
  ELSE IF latest # 0 THEN latest
  ELSE IF files # {} THEN Max(files) ELSE 0

\* maybeRestoreOnStart, before the server accepts anything.
RestoreOnStart ==
  /\ ~alive
  /\ alive' = TRUE
  /\ restored' = loadLatestSnapshot
  /\ UNCHANGED <<clock, pc, at, apart, stale, disk, history>>

Next ==
  \/ \E w \in Writers :
       \/ buildSnapshot(w) \/ WriteTimestamped(w) \/ WriteFails(w)
       \/ OpenLatest(w) \/ FillLatest(w) \/ LatestFails(w)
       \/ ListSnapshots(w) \/ ListFails(w)
       \/ RemoveStale(w) \/ RemoveFails(w) \/ Return(w)
  \/ ProcessEnds
  \/ RestoreOnStart

Spec == Init /\ [][Next]_vars

-----------------------------------------------------------------------------
(***************************************************************************)
(* pruneSnapshots works from a listing that other writers may have made    *)
(* out of date, and may be cut off anywhere; even so the newest snapshot   *)
(* that was ever completed is still on disk.                               *)
(***************************************************************************)
NewestSurvives == newest # 0 => newest \in files

(***************************************************************************)
(* -snapshot-keep bounds the directory: when no writer is active, and none  *)
(* was cut off or failed to list the directory since the last listing, at   *)
(* most Keep files are left besides those that os.Remove failed on, however *)
(* the writers' listings and removals interleaved.                          *)
(***************************************************************************)
RetentionBound ==
  (\A w \in Writers : pc[w] = "idle") /\ ~unpruned
     => Cardinality(files \ unremoved) <= Keep

(***************************************************************************)
(* As long as one writer at a time was active, a start that restores       *)
(* something restores nothing older than what was last put into "latest",  *)
(* wherever writers were cut off or failed.                                *)
(***************************************************************************)
SequentialRestore ==
  [][RestoreOnStart /\ restored' # 0 /\ ~overlapped => restored' >= written]_vars
=============================================================================
