--------------------------- MODULE CalendarPersist ---------------------------
(***************************************************************************)
(* How a calendar reaches the disk and comes back                          *)
(* (core-engine/src/foretias/calendar.rs, foretias-server/src/server).     *)
(* Every request thread saves the whole calendar after its stamp, the main *)
(* thread saves it at shutdown, all to the same `<path>.tmp`, which is     *)
(* then renamed over `<path>`.  The process may be killed at any step.     *)
(* `serve --start-dormant` loads the file twice: once for the              *)
(* Chronomatter, which keeps the latest tick, once for the Calendar.       *)
(*                                                                         *)
(* A calendar only grows (see Chronomatter), so its length stands for its  *)
(* contents.  A file has two parts because writing it takes more than one  *)
(* system call; a part is Hole until it is written.  Files are inodes:     *)
(* a thread that has `.tmp` open writes to the same inode after another    *)
(* thread has renamed it.                                                  *)
(***************************************************************************)
EXTENDS Integers, FiniteSets

CONSTANTS
  Stampers,     \* threads serving stamp requests
  Finishers,    \* the main thread, which saves at shutdown (one or none)
  MaxTicks,     \* bound: records in the calendar
  MaxFaults     \* bound: I/O errors

ASSUME SaverAssumption == Stampers \cap Finishers = {} /\ IsFiniteSet(Stampers \cup Finishers)
ASSUME BoundAssumption == MaxTicks \in Nat /\ MaxFaults \in Nat

Savers == Stampers \cup Finishers
Inodes == 1..Cardinality(Savers) + 2
NoFile == 0
Hole == -1
Parts == {1, 2}
NoCalendar == -1

VARIABLES
  phase,        \* "up", "down", "loaded" (between the two loads) or "dormant"
  ticks,        \* records in memory
  pc,           \* where each saving thread stands
  data,         \* what each thread serialised
  fd,           \* the inode each thread has open
  main, tmp,    \* directory entries: an inode or NoFile
  disk,         \* contents of the inodes
  latest_tick,  \* what the first load returned
  calendar,     \* what the second load returned
  durable,      \* history: the largest calendar a save reported written
  overlapped,   \* history: two saves have been under way at once
  faults        \* history: I/O errors

vars == <<phase, ticks, pc, data, fd, main, tmp, disk, latest_tick, calendar,
          durable, overlapped, faults>>
threads == <<pc, data, fd>>
files == <<main, tmp, disk>>
loads == <<latest_tick, calendar>>

\* Threads that hold the calendar's read lock.
Saving == {t \in Savers : pc[t] \notin {"idle", "appended", "done"}}

\* The file parses: both parts are there and belong to one serialisation.
Readable(i) == i # NoFile /\ disk[i][1] # Hole /\ disk[i][2] = disk[i][1]
TicksIn(i) == IF Readable(i) THEN disk[i][1] ELSE NoCalendar

Init ==
  /\ phase = "up"
  /\ ticks = 0
  /\ pc = [t \in Savers |-> "idle"]
  /\ data = [t \in Savers |-> 0]
  /\ fd = [t \in Savers |-> NoFile]
  /\ main = NoFile /\ tmp = NoFile
  /\ disk = [i \in Inodes |-> [h \in Parts |-> Hole]]
  /\ latest_tick = NoCalendar /\ calendar = NoCalendar
  /\ durable = 0
  /\ overlapped = FALSE
  /\ faults = 0

-----------------------------------------------------------------------------
(* The running process *)

\* Mutant: the calendar grows while it is being saved.
appendUnlocked ==
  /\ phase = "up"
  /\ ticks < MaxTicks
  /\ ticks' = ticks + 1

\* on_tick_advance takes the write lock: no save is under way.
append ==
  /\ phase = "up"
  /\ Saving = {}
  /\ ticks < MaxTicks
  /\ ticks' = ticks + 1

\* A tick of the daemon is not saved by itself.  Shutdown stops the daemon.
DaemonTick ==
  /\ \A t \in Finishers : pc[t] = "idle"
  /\ append
  /\ UNCHANGED <<phase, threads, files, loads, durable, overlapped, faults>>

\* handle_stamp: the stamp is taken, its save comes next.
handle_stamp(t) ==
  /\ t \in Stampers
  /\ pc[t] = "idle"
  /\ append
  /\ pc' = [pc EXCEPT ![t] = "appended"]
  /\ UNCHANGED <<phase, data, fd, files, loads, durable, overlapped, faults>>

\* Ctrl-C: the main thread leaves its select! and saves.
Shutdown(t) ==
  /\ phase = "up"
  /\ t \in Finishers
  /\ pc[t] = "idle"
  /\ pc' = [pc EXCEPT ![t] = "appended"]
  /\ UNCHANGED <<phase, ticks, data, fd, files, loads, durable, overlapped, faults>>

\* Calendar::save takes the read lock and serialises.
BeginSave(t) ==
  /\ pc[t] = "appended"
  /\ pc' = [pc EXCEPT ![t] = "open"]
  /\ data' = [data EXCEPT ![t] = ticks]
  /\ overlapped' = (overlapped \/ Saving # {})
  /\ UNCHANGED <<phase, ticks, fd, files, loads, durable, faults>>

Free == {i \in Inodes : i # main /\ i # tmp /\ \A t \in Savers : fd[t] # i}
NewInode == CHOOSE i \in Free : TRUE

\* fs::write opens `.tmp` with truncation, creating it if it is not there ...
OpenTmp(t) ==
  /\ pc[t] = "open"
  /\ pc' = [pc EXCEPT ![t] = "write1"]
  /\ tmp' = IF tmp = NoFile THEN NewInode ELSE tmp
  /\ fd' = [fd EXCEPT ![t] = tmp']
  /\ disk' = [disk EXCEPT ![tmp'] = [h \in Parts |-> Hole]]
  /\ UNCHANGED <<phase, ticks, data, main, loads, durable, overlapped, faults>>

\* Mutant: a short write is taken for a complete one.
WriteTmpShort(t) ==
  /\ pc[t] = "write1"
  /\ pc' = [pc EXCEPT ![t] = "rename"]
  /\ disk' = [disk EXCEPT ![fd[t]][1] = data[t]]
  /\ fd' = [fd EXCEPT ![t] = NoFile]
  /\ UNCHANGED <<phase, ticks, data, main, tmp, loads, durable, overlapped, faults>>

\* ... and writes it part by part.
WriteTmp(t) ==
  /\ \/ pc[t] = "write1" /\ pc' = [pc EXCEPT ![t] = "write2"]
                         /\ disk' = [disk EXCEPT ![fd[t]][1] = data[t]]
                         /\ UNCHANGED fd
     \/ pc[t] = "write2" /\ pc' = [pc EXCEPT ![t] = "rename"]
                         /\ disk' = [disk EXCEPT ![fd[t]][2] = data[t]]
                         /\ fd' = [fd EXCEPT ![t] = NoFile]
  /\ UNCHANGED <<phase, ticks, data, main, tmp, loads, durable, overlapped, faults>>

\* The save is over: the lock is released; the main thread stays at its end.
EndSave(t) ==
  /\ pc' = [pc EXCEPT ![t] = IF t \in Finishers THEN "done" ELSE "idle"]
  /\ data' = [data EXCEPT ![t] = 0]
  /\ fd' = [fd EXCEPT ![t] = NoFile]

\* Mutant: rename does not replace an existing file.
RenameTmpKeeps(t) ==
  /\ pc[t] = "rename"
  /\ tmp # NoFile
  /\ main' = IF main = NoFile THEN tmp ELSE main
  /\ tmp' = IF main = NoFile THEN NoFile ELSE tmp
  /\ durable' = IF data[t] > durable THEN data[t] ELSE durable
  /\ EndSave(t)
  /\ UNCHANGED <<phase, ticks, disk, loads, overlapped, faults>>

RenameTmp(t) ==
  /\ pc[t] = "rename"
  /\ tmp # NoFile
  /\ main' = tmp
  /\ tmp' = NoFile
  /\ durable' = IF data[t] > durable THEN data[t] ELSE durable
  /\ EndSave(t)
  /\ UNCHANGED <<phase, ticks, disk, loads, overlapped, faults>>

\* Another thread has renamed `.tmp` already: save() fails, which handle_stamp
\* only logs.
RenameMissing(t) ==
  /\ pc[t] = "rename"
  /\ tmp = NoFile
  /\ EndSave(t)
  /\ UNCHANGED <<phase, ticks, files, loads, durable, overlapped, faults>>

\* Opening or writing fails (disk full): also only logged.
SaveFails(t) ==
  /\ faults < MaxFaults
  /\ pc[t] \in {"open", "write1", "write2"}
  /\ faults' = faults + 1
  /\ EndSave(t)
  /\ UNCHANGED <<phase, ticks, files, loads, durable, overlapped>>

Stopped ==
  /\ phase' = "down"
  /\ ticks' = 0
  /\ pc' = [t \in Savers |-> "idle"]
  /\ data' = [t \in Savers |-> 0]
  /\ fd' = [t \in Savers |-> NoFile]
  /\ UNCHANGED <<files, durable, overlapped, faults>>

\* The process is killed.
Crash ==
  /\ phase = "up"
  /\ Stopped
  /\ UNCHANGED loads

\* main() returns; the runtime waits for the threads that serve connections.
Exit ==
  /\ phase = "up"
  /\ \E t \in Finishers : pc[t] = "done"
  /\ \A t \in Stampers : pc[t] = "idle"
  /\ Stopped
  /\ UNCHANGED loads

-----------------------------------------------------------------------------
(* serve --start-dormant *)

\* Calendar::load: `.tmp` wins if it parses and is not shorter than the main
\* file.  Whatever it was, it is removed, and the main file is not rewritten.
LoadResult ==
  IF Readable(tmp) /\ TicksIn(tmp) >= TicksIn(main) THEN TicksIn(tmp) ELSE TicksIn(main)

\* Mutant: `.tmp` is renamed over the main file without looking at it.
loadRenames ==
  /\ main' = IF tmp = NoFile THEN main ELSE tmp
  /\ tmp' = NoFile
  /\ UNCHANGED <<ticks, threads, disk, durable, overlapped, faults>>

load ==
  /\ tmp' = NoFile
  /\ UNCHANGED <<ticks, threads, main, disk, durable, overlapped, faults>>

\* Chronomatter::from_calendar keeps the latest tick of what it loads.
LoadChronomatter ==
  /\ phase = "down"
  /\ load
  /\ latest_tick' = LoadResult
  /\ calendar' = NoCalendar
  /\ phase' = IF LoadResult = NoCalendar THEN "down" ELSE "loaded"

\* Calendar::from_persisted loads again; an error ends the process.
LoadCalendar ==
  /\ phase = "loaded"
  /\ load
  /\ calendar' = LoadResult
  /\ phase' = IF LoadResult = NoCalendar THEN "down" ELSE "dormant"
  /\ UNCHANGED latest_tick

\* A dormant process saves nothing; it may be stopped and started again.
StopDormant ==
  /\ phase \in {"loaded", "dormant"}
  /\ Stopped
  /\ UNCHANGED loads

Save(t) ==
  \/ BeginSave(t) \/ OpenTmp(t) \/ WriteTmp(t) \/ RenameTmp(t) \/ RenameMissing(t)
  \/ SaveFails(t)

Next ==
  \/ DaemonTick
  \/ \E t \in Savers : handle_stamp(t) \/ Shutdown(t) \/ Save(t)
  \/ Crash \/ Exit
  \/ LoadChronomatter \/ LoadCalendar \/ StopDormant

Spec == Init /\ [][Next]_vars

-----------------------------------------------------------------------------
(* Properties *)

Contents == Nat \cup {Hole}

\* The variables of the saving threads, the loader and the file system have
\* their types.
TypeOK ==
  /\ phase \in {"up", "down", "loaded", "dormant"}
  /\ ticks \in Nat
  /\ pc \in [Savers -> {"idle", "appended", "open", "write1", "write2", "rename", "done"}]
  /\ data \in [Savers -> Nat]
  /\ fd \in [Savers -> Inodes \cup {NoFile}]
  /\ main \in Inodes \cup {NoFile} /\ tmp \in Inodes \cup {NoFile}
  /\ disk \in [Inodes -> [Parts -> Contents]]
  /\ latest_tick \in Contents /\ calendar \in Contents
  /\ durable \in Nat /\ overlapped \in BOOLEAN /\ faults \in Nat

\* "If a crash occurs mid-write, the original file is unaffected": at every
\* step of save() the main file, if there is one, parses.
MainIntact == main # NoFile => Readable(main)

\* A calendar whose save returned Ok is on disk from then on, at every step and
\* after every crash, restart and failed save, as long as no two saves overlap.
SavedSurvives == ~overlapped /\ durable > 0 => TicksIn(main) >= durable

\* As long as no two saves overlap, no step of save(), load() or a crash puts an
\* older calendar, or a broken one, in the main file.
MainNeverRegresses == [][~overlapped' => TicksIn(main)' >= TicksIn(main)]_vars

\* Threads that save at the same time tear the file under each other's feet, but
\* each rewrites what it truncated: when all are done, and no write failed, the
\* main file holds at least what save() reported written.
MainSettles ==
  phase = "up" /\ Saving = {} /\ faults = 0 /\ durable > 0 => TicksIn(main) >= durable

\* A complete `.tmp` is never older than the main file, whichever thread wrote
\* it: load()'s preference for it loses nothing, and its "stale" branch is never
\* taken.
TmpNotOlder == Readable(tmp) /\ Readable(main) => TicksIn(tmp) >= TicksIn(main)

\* Whatever overlapped, failed or was killed, a dormant node either refuses to
\* start or serves at least what a save had reported written: a torn main file is
\* refused, and what load() finds in `.tmp` instead is never older.
DormantServesSaved == phase = "dormant" => calendar >= durable

\* "On load, any leftover `.tmp` is recovered": a dormant node serves the
\* calendar its first load recovered.
LeftoverRecovered == phase = "dormant" => calendar = latest_tick
=============================================================================
