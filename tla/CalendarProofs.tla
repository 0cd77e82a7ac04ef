--------------------------- MODULE CalendarProofs ---------------------------
(***************************************************************************)
(* Theorems about a node's calendar: its file (CalendarPersist), for any   *)
(* number of threads that save, of I/O errors and of records, and a kill   *)
(* at any step; a mirror whose source crashes and forks (Reconcile); and   *)
(* mutual attestation (Attestation), for any number of records, forks,     *)
(* requests, workers and tasks.                                            *)
(***************************************************************************)
EXTENDS TLAPS, CalendarPersist, Reconcile, Attestation, FiniteSetTheorems, SequenceTheorems

-----------------------------------------------------------------------------
(* The calendar's file                                                       *)

\* Threads with `.tmp` open.
Writing == {"write1", "write2"}

\* A stopped process has no threads; a thread has a file open while it writes;
\* and threads that save hold the same calendar, since none is appended to
\* while the read lock is held.
Threads ==
  /\ phase # "up" => \A t \in Savers : pc[t] = "idle"
  /\ \A t \in Savers : fd[t] # NoFile <=> pc[t] \in Writing
  /\ \A t \in Saving : data[t] = ticks

\* Nothing on disk, and nothing reported written, is newer than the calendar.
NothingNewer ==
  phase = "up" =>
    /\ durable <= ticks
    /\ \A i \in Inodes, h \in Parts : disk[i][h] <= ticks

\* `.tmp` and the main file are different files.
TmpApart == tmp # NoFile => tmp # main

\* The second part of `.tmp` is written by a thread that is about to rename it,
\* so it belongs to the calendar of now.
TmpCurrent ==
  phase = "up" /\ tmp # NoFile /\ disk[tmp][2] # Hole =>
    disk[tmp][2] = ticks /\ \E t \in Savers : pc[t] = "rename"

\* A main file that parses holds what was reported written, whatever happened.
MainSaved == Readable(main) => disk[main][1] >= durable

\* While saves do not overlap there is one writer, which writes to `.tmp` and
\* finds it complete when it renames it.
OneWriter ==
  ~overlapped =>
    /\ \A t, u \in Saving : t = u
    /\ \A t \in Savers :
         /\ pc[t] \in Writing => fd[t] = tmp
         /\ pc[t] = "write2" => disk[tmp][1] = ticks
         /\ pc[t] = "rename" => tmp # NoFile /\ disk[tmp][1] = ticks /\ disk[tmp][2] = ticks

\* Each part of inode i is of now, or a thread that has it open will write it.
Mended(i) ==
  \A h \in Parts :
    \/ disk[i][h] = ticks
    \/ \E t \in Savers : fd[t] = i /\ (pc[t] = "write1" \/ (h = 2 /\ pc[t] = "write2"))

\* Without I/O errors what a thread truncates is written again, before or after
\* it has become the main file.
TornIsMended ==
  phase = "up" /\ faults = 0 =>
    /\ tmp # NoFile =>
         Mended(tmp) /\ \E t \in Savers : pc[t] \in Writing \cup {"rename"}
    /\ main # NoFile =>
         \/ Mended(main)
         \/ Readable(main) /\ \A t \in Savers : fd[t] # main

DurableHasFile == durable > 0 => main # NoFile

\* The second load finds no `.tmp`.
Loads ==
  /\ phase \in {"loaded", "dormant"} => tmp = NoFile
  /\ DormantServesSaved

IInv ==
  /\ TypeOK /\ Threads /\ NothingNewer /\ TmpApart /\ TmpCurrent /\ MainSaved
  /\ OneWriter /\ TornIsMended /\ DurableHasFile /\ TmpNotOlder /\ SavedSurvives /\ Loads

-----------------------------------------------------------------------------
(* Facts about threads, parts and inodes *)

LEMMA SavingPcs ==
  ASSUME TypeOK, NEW t \in Savers
  PROVE  t \in Saving <=> pc[t] \in {"open", "write1", "write2", "rename"}
BY DEF TypeOK, Saving

LEMMA InodesNumbered == Cardinality(Savers) \in Nat /\ Inodes \subseteq Nat /\ NoFile \notin Inodes
BY SaverAssumption, FS_CardinalityType DEF Savers, Inodes, NoFile

\* There is an inode for every thread, the main file and one more: a new
\* `.tmp` never lands on a file in use.
LEMMA FreeInode ==
  ASSUME TypeOK, tmp = NoFile
  PROVE  NewInode \in Free
<1> DEFINE R == {fd[t] : t \in Savers}
<1>1. fd \in Surjection(Savers, R)
  <2>1. fd \in [Savers -> R]
    BY DEF TypeOK
  <2>2. \A r \in R : \E t \in Savers : fd[t] = r
    OBVIOUS
  <2> QED
    BY <2>1, <2>2 DEF Surjection
<1>2. IsFiniteSet(Savers)
  BY SaverAssumption DEF Savers
<1>3. IsFiniteSet(R) /\ Cardinality(R) <= Cardinality(Savers)
  BY <1>1, <1>2, FS_Surjection
<1>4. IsFiniteSet(R \cup {main}) /\ Cardinality(R \cup {main}) <= Cardinality(R) + 1
  <2> HIDE DEF R
  <2>1. Cardinality(R) \in Nat
    BY <1>3, FS_CardinalityType
  <2>2. /\ IsFiniteSet(R \cup {main})
        /\ Cardinality(R \cup {main}) = IF main \in R THEN Cardinality(R) ELSE Cardinality(R) + 1
    BY <1>3, FS_AddElement
  <2> QED
    BY <2>1, <2>2
<1>5. IsFiniteSet(Inodes) /\ Cardinality(Inodes) = Cardinality(Savers) + 2
  <2>1. Cardinality(Savers) \in Nat
    BY InodesNumbered
  <2>2. PICK n \in Nat : n = Cardinality(Savers) + 2
    BY <2>1
  <2>3. IsFiniteSet(1..n) /\ Cardinality(1..n) = n
    BY FS_Interval
  <2> QED
    BY <2>2, <2>3 DEF Inodes
<1>6. ~(Inodes \subseteq R \cup {main})
  <2> SUFFICES ASSUME Inodes \subseteq R \cup {main} PROVE FALSE
    OBVIOUS
  <2>1. Cardinality(Inodes) <= Cardinality(R \cup {main})
    BY <1>4, FS_Subset
  <2>2. Cardinality(R) \in Nat /\ Cardinality(R \cup {main}) \in Nat /\ Cardinality(Savers) \in Nat
    BY <1>3, <1>4, InodesNumbered, FS_CardinalityType
  <2> QED
    BY <2>1, <2>2, <1>3, <1>4, <1>5
<1>7. \E i \in Inodes : i \in Free
  BY <1>6, InodesNumbered DEF Free
<1> QED
  BY <1>7 DEF NewInode

-----------------------------------------------------------------------------
(* Steps that write nothing *)

\* A record is appended while no save is under way.
LEMMA AppendKeeps ==
  ASSUME IInv, append,
         UNCHANGED <<phase, data, fd, files, loads, durable, overlapped, faults>>,
         pc' \in [Savers -> {"idle", "appended", "open", "write1", "write2", "rename", "done"}],
         \A t \in Savers : pc'[t] = pc[t] \/ pc'[t] = "appended"
  PROVE  IInv'
<1> USE DEF IInv
<1>1. \A t \in Savers : pc[t] \in {"idle", "appended", "done"} /\ fd[t] = NoFile
                        /\ pc'[t] \in {"idle", "appended", "done"} /\ fd'[t] = NoFile
  <2>1. \A t \in Savers : pc[t] \in {"idle", "appended", "done"}
    BY DEF append, Saving
  <2> QED
    BY <2>1 DEF Threads, Writing
<1>2. phase = "up" /\ ticks' = ticks + 1
  BY DEF append
<1>3. UNCHANGED <<data, fd, main, tmp, disk, latest_tick, calendar>>
  BY DEF files, loads
<1>4. TypeOK'
  BY <1>2, <1>3 DEF TypeOK
<1>5. Threads'
  BY <1>1, <1>2, <1>4 DEF Threads, Writing, Saving
<1>6. NothingNewer'
  <2>1. \A i \in Inodes, h \in Parts : disk[i][h] \in Int
    BY DEF TypeOK, Contents, Hole
  <2> QED
    BY <2>1, <1>2, <1>3 DEF NothingNewer, TypeOK
<1>7. TmpApart' /\ DurableHasFile' /\ TmpNotOlder' /\ SavedSurvives' /\ MainSaved'
  BY <1>3 DEF TmpApart, DurableHasFile, TmpNotOlder, SavedSurvives, MainSaved, Readable, TicksIn
<1>8. TmpCurrent'
  BY <1>1, <1>2, <1>3 DEF TmpCurrent
<1>9. OneWriter'
  BY <1>1 DEF OneWriter, Writing, Saving
<1>10. TornIsMended'
  <2> SUFFICES ASSUME faults = 0 PROVE TornIsMended'
    BY DEF TornIsMended
  <2>1. tmp = NoFile
    BY <1>1, <1>2 DEF TornIsMended, Writing
  <2>2. main # NoFile => Readable(main)
    <3> SUFFICES ASSUME main # NoFile, Mended(main) PROVE Readable(main)
      BY <1>2 DEF TornIsMended
    <3>1. \A h \in Parts : disk[main][h] = ticks
      BY <1>1 DEF Mended
    <3> QED
      BY <3>1 DEF Readable, Parts, Hole, TypeOK
  <2> QED
    BY <2>1, <2>2, <1>1, <1>2, <1>3 DEF TornIsMended, Readable
<1>11. Loads'
  BY <1>2, <1>3 DEF Loads, DormantServesSaved
<1> QED
  BY <1>4, <1>5, <1>6, <1>7, <1>8, <1>9, <1>10, <1>11

\* A thread is told to save at shutdown, or takes the read lock.
LEMMA BeginKeeps ==
  ASSUME IInv, NEW t \in Savers, Shutdown(t) \/ BeginSave(t)
  PROVE  IInv'
<1> USE DEF IInv
<1>1. /\ pc[t] \in {"idle", "appended"} /\ pc' = [pc EXCEPT ![t] = pc'[t]]
      /\ pc'[t] \in {"appended", "open"} /\ phase = "up" /\ fd[t] = NoFile
      /\ pc'[t] = "open" => pc[t] = "appended"
  BY DEF Shutdown, BeginSave, TypeOK, Threads, Writing
<1>2. UNCHANGED <<phase, ticks, fd, main, tmp, disk, latest_tick, calendar, durable, faults>>
  BY DEF Shutdown, BeginSave, files, loads
<1>3. data' = [data EXCEPT ![t] = data'[t]] /\ (pc'[t] = "open" => data'[t] = ticks) /\ data'[t] \in Nat
  BY DEF Shutdown, BeginSave, TypeOK
<1>4. overlapped' \in BOOLEAN /\ (pc'[t] = "open" => overlapped' = (overlapped \/ Saving # {}))
      /\ (overlapped => overlapped')
  BY DEF Shutdown, BeginSave, TypeOK
<1>5. \A u \in Savers : u # t => pc'[u] = pc[u] /\ data'[u] = data[u]
  BY <1>1, <1>3 DEF TypeOK
<1>6. TypeOK'
  BY <1>1, <1>2, <1>3, <1>4 DEF TypeOK
<1>7. Saving' = Saving \/ (pc'[t] = "open" /\ Saving' = Saving \cup {t})
  BY <1>1, <1>5 DEF Saving
<1>8. Threads'
  <2>1. \A u \in Saving' : data'[u] = ticks'
    <3>1. t \notin Saving
      BY <1>1 DEF Saving
    <3> QED
      BY <3>1, <1>2, <1>3, <1>5, <1>7 DEF Threads, Saving
  <2> QED
    BY <2>1, <1>1, <1>2, <1>5 DEF Threads, Writing
<1>9. NothingNewer' /\ TmpApart' /\ DurableHasFile' /\ TmpNotOlder' /\ SavedSurvives' /\ MainSaved' /\ Loads'
  BY <1>2, <1>4 DEF NothingNewer, TmpApart, DurableHasFile, TmpNotOlder, SavedSurvives, MainSaved,
     Readable, TicksIn, Loads, DormantServesSaved
<1>10. TmpCurrent'
  BY <1>1, <1>2, <1>5 DEF TmpCurrent
<1>11. OneWriter'
  <2> SUFFICES ASSUME ~overlapped' PROVE OneWriter'
    BY DEF OneWriter
  <2>1. ~overlapped
    BY <1>4
  <2>2. \A u, v \in Saving' : u = v
    BY <2>1, <1>4, <1>7 DEF OneWriter
  <2> QED
    BY <2>1, <2>2, <1>1, <1>2, <1>5 DEF OneWriter, Writing
<1>12. TornIsMended'
  BY <1>1, <1>2, <1>5 DEF TornIsMended, Mended, Readable, Writing
<1> QED
  BY <1>6, <1>8, <1>9, <1>10, <1>11, <1>12

-----------------------------------------------------------------------------
(* Steps that write `.tmp` *)

\* What one thread's step leaves as it was for the others.
OthersKeep(t) ==
  \A u \in Savers : u # t => pc'[u] = pc[u] /\ data'[u] = data[u] /\ fd'[u] = fd[u]

\* Inode i and no other is written.
OnlyWrites(i) == \A j \in Inodes : j # i => disk'[j] = disk[j]

\* `.tmp` is opened and truncated; it is not the main file.
LEMMA OpenTmpKeeps ==
  ASSUME IInv, NEW t \in Savers, OpenTmp(t)
  PROVE  IInv'
<1> USE DEF IInv
<1>1. /\ pc[t] = "open" /\ pc' = [pc EXCEPT ![t] = "write1"] /\ fd' = [fd EXCEPT ![t] = tmp']
      /\ disk' = [disk EXCEPT ![tmp'] = [h \in Parts |-> Hole]]
      /\ UNCHANGED <<phase, ticks, data, main, durable, overlapped, faults, latest_tick, calendar>>
  BY DEF OpenTmp, loads
<1>2. tmp' \in Inodes /\ tmp' # NoFile /\ tmp' # main /\ (tmp # NoFile => tmp' = tmp)
  <2>1. CASE tmp = NoFile
    BY <2>1, FreeInode, InodesNumbered DEF OpenTmp, Free
  <2>2. CASE tmp # NoFile
    BY <2>2 DEF OpenTmp, TypeOK, TmpApart
  <2> QED
    BY <2>1, <2>2
<1>3. /\ pc'[t] = "write1" /\ fd'[t] = tmp' /\ OthersKeep(t)
      /\ disk'[tmp'] = [h \in Parts |-> Hole] /\ OnlyWrites(tmp')
  BY <1>1, <1>2 DEF TypeOK, OthersKeep, OnlyWrites
<1>4. main \in Inodes => disk'[main] = disk[main]
  BY <1>2, <1>3 DEF OnlyWrites
<1>5. phase = "up"
  BY <1>1 DEF Threads
<1>6. TypeOK'
  <2>1. [h \in Parts |-> Hole] \in [Parts -> Contents]
    BY DEF Contents
  <2> QED
    BY <2>1, <1>1, <1>2 DEF TypeOK
<1>7. Saving' = Saving /\ t \in Saving
  BY <1>1, <1>3 DEF Saving, OthersKeep
<1>8. Threads'
  BY <1>1, <1>2, <1>3, <1>5, <1>7 DEF Threads, Writing, OthersKeep, Saving
<1>9. NothingNewer'
  <2>1. ticks >= 0 /\ Hole <= ticks
    BY DEF TypeOK, Hole
  <2>2. \A h \in Parts : disk'[tmp'][h] = Hole
    BY <1>3
  <2> QED
    BY <2>1, <2>2, <1>1, <1>3 DEF NothingNewer, OnlyWrites
<1>10. TmpApart' /\ DurableHasFile'
  BY <1>1, <1>2 DEF TmpApart, DurableHasFile
<1>11. Readable(main)' = Readable(main) /\ TicksIn(main)' = TicksIn(main)
  BY <1>1, <1>4 DEF Readable, TicksIn, TypeOK, NoFile
<1>12. MainSaved'
  BY <1>1, <1>4, <1>11 DEF MainSaved, Readable, TypeOK, NoFile
<1>13. SavedSurvives'
  BY <1>1, <1>11 DEF SavedSurvives
<1>14. ~Readable(tmp)' /\ TmpNotOlder' /\ TmpCurrent'
  <2>1. disk'[tmp'][1] = Hole /\ disk'[tmp'][2] = Hole
    BY <1>3 DEF Parts
  <2> QED
    BY <2>1 DEF Readable, TmpNotOlder, TmpCurrent
<1>15. OneWriter'
  <2> SUFFICES ASSUME ~overlapped PROVE OneWriter'
    BY <1>1 DEF OneWriter
  <2>1. \A u \in Savers : u # t => pc'[u] \notin {"open", "write1", "write2", "rename"}
    BY <1>3, <1>7, SavingPcs DEF OneWriter, OthersKeep
  <2> QED
    BY <2>1, <1>3, <1>7 DEF OneWriter, Writing
<1>16. TornIsMended'
  <2> SUFFICES ASSUME faults = 0 PROVE TornIsMended'
    BY <1>1 DEF TornIsMended
  <2>1. Mended(tmp)' /\ \E u \in Savers : pc'[u] \in Writing \cup {"rename"}
    BY <1>3 DEF Mended, Writing
  <2>2. main # NoFile => Mended(main)' \/ (Readable(main)' /\ \A u \in Savers : fd'[u] # main')
    <3>1. main # NoFile => main \in Inodes
      BY DEF TypeOK
    <3>2. CASE Mended(main)
      <4>1. \A u \in Savers : fd[u] = main /\ main # NoFile => u # t
        BY <1>1 DEF Threads, Writing
      <4> QED
        BY <3>1, <3>2, <4>1, <1>1, <1>3, <1>4 DEF Mended, OthersKeep
    <3>3. CASE Readable(main) /\ \A u \in Savers : fd[u] # main
      BY <3>3, <1>1, <1>2, <1>3, <1>11 DEF OthersKeep
    <3> QED
      BY <3>2, <3>3, <1>5 DEF TornIsMended
  <2> QED
    BY <2>1, <2>2, <1>1 DEF TornIsMended
<1>17. Loads'
  BY <1>1, <1>5 DEF Loads, DormantServesSaved
<1> QED
  BY <1>6, <1>8, <1>9, <1>10, <1>12, <1>13, <1>14, <1>15, <1>16, <1>17

\* A part is written with the calendar of now, to whatever file `.tmp` has become.
LEMMA WriteTmpKeeps ==
  ASSUME IInv, NEW t \in Savers, WriteTmp(t)
  PROVE  IInv'
<1> USE DEF IInv
<1>1. pc[t] \in Writing
  BY DEF WriteTmp, Writing
<1>2. PICK i \in Inodes : i = fd[t]
  BY <1>1 DEF TypeOK, Threads
<1>3. PICK part \in Parts : part = IF pc[t] = "write1" THEN 1 ELSE 2
  BY DEF Parts
<1>4. /\ pc[t] \in Writing /\ disk' = [disk EXCEPT ![i][part] = data[t]]
      /\ UNCHANGED <<phase, ticks, data, main, tmp, durable, overlapped, faults, latest_tick, calendar>>
      /\ pc' = [pc EXCEPT ![t] = IF part = 1 THEN "write2" ELSE "rename"]
      /\ fd' = [fd EXCEPT ![t] = IF part = 1 THEN i ELSE NoFile]
  BY <1>1, <1>2, <1>3 DEF WriteTmp, loads, Writing, TypeOK
<1>5. i \in Inodes /\ i # NoFile /\ part \in Parts /\ t \in Saving /\ data[t] = ticks /\ phase = "up"
  BY <1>4, <1>2 DEF TypeOK, Threads, Writing, Saving
<1>6. /\ pc'[t] = (IF part = 1 THEN "write2" ELSE "rename") /\ OthersKeep(t)
      /\ fd'[t] = (IF part = 1 THEN i ELSE NoFile) /\ (part = 1 <=> pc[t] = "write1")
      /\ (part = 2 <=> pc[t] = "write2")
  BY <1>4, <1>3 DEF TypeOK, OthersKeep, Writing
<1> DEFINE new == [disk[i] EXCEPT ![part] = ticks]
<1>7. /\ disk'[i][part] = ticks /\ OnlyWrites(i)
      /\ \A h \in Parts : h # part => disk'[i][h] = disk[i][h]
      /\ disk' \in [Inodes -> [Parts -> Contents]]
  <2>1. disk[i] \in [Parts -> Contents] /\ ticks \in Contents
    BY <1>5 DEF TypeOK, Contents
  <2>2. new \in [Parts -> Contents] /\ new[part] = ticks
        /\ \A h \in Parts : h # part => new[h] = disk[i][h]
    BY <2>1, <1>5
  <2>3. disk' = [disk EXCEPT ![i] = new]
    BY <1>4, <1>5
  <2> HIDE DEF new
  <2>4. disk'[i] = new
    BY <2>3, <1>5 DEF TypeOK
  <2>5. OnlyWrites(i) /\ disk' \in [Inodes -> [Parts -> Contents]]
    BY <2>2, <2>3, <1>5 DEF TypeOK, OnlyWrites
  <2> QED
    BY <2>2, <2>4, <2>5
<1>8. TypeOK'
  <2>3. fd' \in [Savers -> Inodes \cup {NoFile}]
    BY <1>4, <1>5 DEF TypeOK
  <2> QED
    BY <1>7, <2>3, <1>4 DEF TypeOK
<1>9. Saving' = Saving
  BY <1>5, <1>6 DEF Saving, OthersKeep
<1>10. Threads'
  BY <1>4, <1>5, <1>6, <1>9 DEF Threads, Writing, OthersKeep, Saving, Parts
<1>11. NothingNewer'
  BY <1>4, <1>5, <1>7 DEF NothingNewer, OnlyWrites, TypeOK
<1>12. TmpApart' /\ DurableHasFile' /\ Loads'
  BY <1>4, <1>5 DEF TmpApart, DurableHasFile, Loads, DormantServesSaved
<1>13. Readable(i)' => disk'[i][1] = ticks
  BY <1>5, <1>7 DEF Readable, Parts
<1>14. \A j \in Inodes : j # i => Readable(j)' = Readable(j) /\ disk'[j][1] = disk[j][1]
  BY <1>7 DEF Readable, OnlyWrites
<1>15. main \in Inodes \cup {NoFile} /\ tmp \in Inodes \cup {NoFile} /\ ticks \in Nat /\ durable \in Nat
       /\ durable <= ticks
  BY <1>5 DEF TypeOK, NothingNewer
<1>16. MainSaved'
  <2>1. CASE main = i
    BY <2>1, <1>4, <1>13, <1>15 DEF MainSaved
  <2>2. CASE main # i
    BY <2>2, <1>4, <1>14, <1>15 DEF MainSaved, Readable
  <2> QED
    BY <2>1, <2>2
<1>17. TmpCurrent'
  <2>1. CASE tmp = i
    <3>1. CASE part = 2
      BY <2>1, <3>1, <1>4, <1>5, <1>7, <1>6 DEF TmpCurrent
    <3>2. CASE part = 1
      <4>1. disk'[tmp][2] = disk[tmp][2]
        BY <2>1, <3>2, <1>7 DEF Parts
      <4> QED
        BY <4>1, <3>2, <1>4, <1>6 DEF TmpCurrent, OthersKeep
    <3> QED
      BY <3>1, <3>2, <1>5 DEF Parts
  <2>2. CASE tmp # i
    <3>1. tmp # NoFile => disk'[tmp] = disk[tmp]
      BY <2>2, <1>7, <1>15 DEF OnlyWrites
    <3> QED
      BY <3>1, <1>4, <1>6 DEF TmpCurrent, OthersKeep, Writing
  <2> QED
    BY <2>1, <2>2
<1>18. TmpNotOlder'
  <2> SUFFICES ASSUME Readable(tmp)', Readable(main)' PROVE TicksIn(tmp)' >= TicksIn(main)'
    BY DEF TmpNotOlder
  <2>1. disk'[tmp'][1] = ticks'
    BY <1>4, <1>5, <1>17 DEF TmpCurrent, Readable
  <2>2. disk'[main'][1] <= ticks'
    BY <1>4, <1>5, <1>11, <1>15 DEF NothingNewer, Readable, Parts
  <2> QED
    BY <2>1, <2>2 DEF TicksIn
<1>19. ~overlapped => i = tmp /\ i # main
  BY <1>4, <1>5, <1>2 DEF OneWriter, TmpApart
<1>20. SavedSurvives'
  <2> SUFFICES ASSUME ~overlapped PROVE SavedSurvives'
    BY <1>4 DEF SavedSurvives
  <2>1. TicksIn(main)' = TicksIn(main)
    BY <1>4, <1>14, <1>15, <1>19 DEF TicksIn, Readable
  <2> QED
    BY <2>1, <1>4 DEF SavedSurvives
<1>21. OneWriter'
  <2> SUFFICES ASSUME ~overlapped PROVE OneWriter'
    BY <1>4 DEF OneWriter
  <2>1. \A u \in Savers : u # t => pc'[u] \notin {"open", "write1", "write2", "rename"}
    BY <1>5, <1>6, SavingPcs DEF OneWriter, OthersKeep
  <2>2. \A u, v \in Saving' : u = v
    BY <1>9 DEF OneWriter
  <2>3. pc'[t] = "write2" => disk'[tmp][1] = ticks /\ fd'[t] = tmp
    BY <1>5, <1>7, <1>6, <1>19
  <2>4. pc'[t] = "rename" => tmp # NoFile /\ disk'[tmp][1] = ticks /\ disk'[tmp][2] = ticks
    <3> SUFFICES ASSUME pc'[t] = "rename"
                 PROVE  tmp # NoFile /\ disk'[tmp][1] = ticks /\ disk'[tmp][2] = ticks
      OBVIOUS
    <3>1. part = 2 /\ pc[t] = "write2"
      BY <1>5, <1>6 DEF Parts
    <3>2. disk[tmp][1] = ticks
      BY <3>1 DEF OneWriter
    <3> QED
      BY <3>1, <3>2, <1>5, <1>7, <1>19 DEF Parts
  <2> QED
    BY <2>1, <2>2, <2>3, <2>4, <1>4, <1>6 DEF OneWriter, Writing
<1>22. ASSUME NEW j \in Inodes, Mended(j)
       PROVE  Mended(j)'
  <2> SUFFICES ASSUME NEW h \in Parts
               PROVE  \/ disk'[j][h] = ticks
                      \/ \E u \in Savers : fd'[u] = j /\ (pc'[u] = "write1" \/ (h = 2 /\ pc'[u] = "write2"))
    BY <1>4 DEF Mended
  <2>1. CASE disk[j][h] = ticks
    BY <2>1, <1>7 DEF OnlyWrites
  <2>2. ASSUME NEW u \in Savers, fd[u] = j, pc[u] = "write1" \/ (h = 2 /\ pc[u] = "write2")
        PROVE  \/ disk'[j][h] = ticks
               \/ \E v \in Savers : fd'[v] = j /\ (pc'[v] = "write1" \/ (h = 2 /\ pc'[v] = "write2"))
    <3>1. CASE u # t
      BY <3>1, <2>2, <1>6 DEF OthersKeep
    <3>2. CASE u = t
      <4>1. j = i
        BY <3>2, <2>2, <1>2
      <4>2. CASE part = h
        BY <4>1, <4>2, <1>7
      <4>3. CASE part # h
        BY <4>1, <4>3, <3>2, <2>2, <1>5, <1>6 DEF Parts
      <4> QED
        BY <4>2, <4>3
    <3> QED
      BY <3>1, <3>2
  <2> QED
    BY <2>1, <2>2, <1>22 DEF Mended
<1>23. TornIsMended'
  <2> SUFFICES ASSUME faults = 0 PROVE TornIsMended'
    BY <1>4 DEF TornIsMended
  <2>1. tmp # NoFile => Mended(tmp)'
    BY <1>4, <1>5, <1>15, <1>22 DEF TornIsMended
  <2>2. pc'[t] \in Writing \cup {"rename"}
    BY <1>6 DEF Writing
  <2>3. main # NoFile => Mended(main)' \/ (Readable(main)' /\ \A u \in Savers : fd'[u] # main')
    <3>1. CASE Mended(main)
      BY <3>1, <1>4, <1>15, <1>22
    <3>2. CASE Readable(main) /\ \A u \in Savers : fd[u] # main
      <4>1. main # i
        BY <3>2, <1>2
      <4>2. \A u \in Savers : fd'[u] = fd[u] \/ fd'[u] = NoFile
        BY <1>6, <1>2 DEF OthersKeep
      <4> QED
        BY <3>2, <4>1, <4>2, <1>4, <1>14, <1>15
    <3> QED
      BY <3>1, <3>2, <1>5 DEF TornIsMended
  <2> QED
    BY <2>1, <2>2, <2>3, <1>4 DEF TornIsMended, Mended
<1> QED
  BY <1>8, <1>10, <1>11, <1>12, <1>16, <1>17, <1>18, <1>20, <1>21, <1>23

-----------------------------------------------------------------------------
(* Steps that end a save *)

\* Of one thread: it lets go of its file, and holds the lock no more.
LEMMA EndSaveEffect ==
  ASSUME TypeOK, NEW t \in Savers, EndSave(t)
  PROVE  /\ pc'[t] \in {"idle", "done"} /\ fd'[t] = NoFile /\ OthersKeep(t)
         /\ pc' \in [Savers -> {"idle", "appended", "open", "write1", "write2", "rename", "done"}]
         /\ data' \in [Savers -> Nat] /\ fd' \in [Savers -> Inodes \cup {NoFile}]
         /\ Saving' = Saving \ {t}
<1>1. /\ pc'[t] \in {"idle", "done"} /\ fd'[t] = NoFile /\ OthersKeep(t)
      /\ pc' \in [Savers -> {"idle", "appended", "open", "write1", "write2", "rename", "done"}]
      /\ data' \in [Savers -> Nat] /\ fd' \in [Savers -> Inodes \cup {NoFile}]
  BY DEF TypeOK, EndSave, OthersKeep
<1> QED
  BY <1>1 DEF Saving, OthersKeep

\* `.tmp` becomes the main file, torn or complete.
LEMMA RenameKeeps ==
  ASSUME IInv, NEW t \in Savers, RenameTmp(t)
  PROVE  IInv'
<1> USE DEF IInv
<1>1. /\ pc[t] = "rename" /\ tmp # NoFile /\ main' = tmp /\ tmp' = NoFile /\ EndSave(t)
      /\ durable' = IF data[t] > durable THEN data[t] ELSE durable
      /\ UNCHANGED <<phase, ticks, disk, overlapped, faults, latest_tick, calendar>>
  BY DEF RenameTmp, loads
<1>2. t \in Saving /\ data[t] = ticks /\ phase = "up" /\ fd[t] = NoFile
  BY <1>1 DEF Threads, Saving, Writing
<1>3. tmp \in Inodes /\ ticks \in Nat /\ durable \in Nat /\ durable <= ticks /\ durable' = ticks
  BY <1>1, <1>2 DEF TypeOK, NothingNewer
<1>4. /\ pc'[t] \in {"idle", "done"} /\ fd'[t] = NoFile /\ OthersKeep(t) /\ Saving' = Saving \ {t}
      /\ pc' \in [Savers -> {"idle", "appended", "open", "write1", "write2", "rename", "done"}]
      /\ data' \in [Savers -> Nat] /\ fd' \in [Savers -> Inodes \cup {NoFile}]
  BY <1>1, EndSaveEffect
<1>5. TypeOK'
  BY <1>1, <1>3, <1>4 DEF TypeOK
<1>6. Threads'
  BY <1>1, <1>2, <1>4 DEF Threads, Writing, OthersKeep, Saving
<1>7. NothingNewer' /\ TmpApart' /\ DurableHasFile' /\ TmpCurrent' /\ Loads'
  BY <1>1, <1>2, <1>3 DEF NothingNewer, TmpApart, DurableHasFile, TmpCurrent, Loads, DormantServesSaved
<1>8. Readable(main)' => disk'[main'][1] = ticks
  BY <1>1, <1>2 DEF TmpCurrent, Readable
<1>9. MainSaved' /\ TmpNotOlder'
  BY <1>1, <1>3, <1>8 DEF MainSaved, TmpNotOlder, Readable
<1>10. SavedSurvives'
  <2> SUFFICES ASSUME ~overlapped PROVE TicksIn(main)' = ticks
    BY <1>1, <1>3 DEF SavedSurvives
  <2>1. disk[tmp][1] = ticks /\ disk[tmp][2] = ticks
    BY <1>1 DEF OneWriter
  <2> QED
    BY <2>1, <1>1, <1>3 DEF TicksIn, Readable, Hole
<1>11. OneWriter'
  <2> SUFFICES ASSUME ~overlapped PROVE OneWriter'
    BY <1>1 DEF OneWriter
  <2>1. \A u \in Savers : u # t => u \notin Saving
    BY <1>2 DEF OneWriter
  <2>2. \A u \in Savers : pc'[u] \notin {"open", "write1", "write2", "rename"}
    BY <2>1, <1>4, SavingPcs DEF OthersKeep
  <2>3. Saving' = {}
    BY <2>1, <1>4 DEF Saving
  <2> QED
    BY <2>2, <2>3 DEF OneWriter, Writing
<1>12. TornIsMended'
  <2> SUFFICES ASSUME faults = 0 PROVE Mended(main)'
    BY <1>1 DEF TornIsMended
  <2>1. Mended(tmp)
    BY <1>1, <1>2 DEF TornIsMended
  <2> QED
    BY <2>1, <1>1, <1>2, <1>3, <1>4 DEF Mended, OthersKeep
<1> QED
  BY <1>5, <1>6, <1>7, <1>9, <1>10, <1>11, <1>12

\* `.tmp` is gone, or an I/O error ends the save: no file changes.
LEMMA FailedSaveKeeps ==
  ASSUME IInv, NEW t \in Savers, RenameMissing(t) \/ SaveFails(t)
  PROVE  IInv'
<1> USE DEF IInv
<1>1. /\ EndSave(t) /\ pc[t] \in {"open", "write1", "write2", "rename"}
      /\ UNCHANGED <<phase, ticks, main, tmp, disk, durable, overlapped, latest_tick, calendar>>
      /\ \/ faults' = faults /\ tmp = NoFile /\ pc[t] = "rename"
         \/ faults' = faults + 1 /\ pc[t] \in {"open", "write1", "write2"}
  BY DEF RenameMissing, SaveFails, files, loads
<1>2. t \in Saving /\ phase = "up"
  BY <1>1 DEF Threads, Saving
<1>3. /\ pc'[t] \in {"idle", "done"} /\ fd'[t] = NoFile /\ OthersKeep(t) /\ Saving' = Saving \ {t}
      /\ pc' \in [Savers -> {"idle", "appended", "open", "write1", "write2", "rename", "done"}]
      /\ data' \in [Savers -> Nat] /\ fd' \in [Savers -> Inodes \cup {NoFile}]
  BY <1>1, EndSaveEffect
<1>4. TypeOK'
  BY <1>1, <1>3 DEF TypeOK
<1>5. Threads'
  BY <1>1, <1>2, <1>3 DEF Threads, Writing, OthersKeep, Saving
<1>6. NothingNewer' /\ TmpApart' /\ DurableHasFile' /\ TmpNotOlder' /\ SavedSurvives' /\ MainSaved' /\ Loads'
  BY <1>1 DEF NothingNewer, TmpApart, DurableHasFile, TmpNotOlder, SavedSurvives, MainSaved,
     Readable, TicksIn, Loads, DormantServesSaved
<1>7. TmpCurrent'
  BY <1>1, <1>3 DEF TmpCurrent, OthersKeep
<1>8. OneWriter'
  <2> SUFFICES ASSUME ~overlapped PROVE OneWriter'
    BY <1>1 DEF OneWriter
  <2>1. \A u \in Savers : u # t => u \notin Saving
    BY <1>2 DEF OneWriter
  <2>2. \A u \in Savers : pc'[u] \notin {"open", "write1", "write2", "rename"}
    BY <2>1, <1>3, SavingPcs DEF OthersKeep
  <2>3. Saving' = {}
    BY <2>1, <1>3 DEF Saving
  <2> QED
    BY <2>2, <2>3 DEF OneWriter, Writing
<1>9. TornIsMended'
  <2> SUFFICES ASSUME faults' = 0 PROVE TornIsMended'
    BY DEF TornIsMended
  <2>1. faults = 0 /\ tmp = NoFile /\ pc[t] = "rename" /\ fd[t] = NoFile
    BY <1>1 DEF TypeOK, Threads, Writing
  <2>2. main # NoFile => Mended(main)' \/ (Readable(main)' /\ \A u \in Savers : fd'[u] # main')
    <3>1. CASE Mended(main)
      BY <3>1, <2>1, <1>1, <1>3 DEF Mended, OthersKeep
    <3>2. CASE Readable(main) /\ \A u \in Savers : fd[u] # main
      BY <3>2, <1>1, <1>3 DEF Readable, OthersKeep
    <3> QED
      BY <3>1, <3>2, <2>1, <1>2 DEF TornIsMended
  <2> QED
    BY <2>1, <2>2, <1>1 DEF TornIsMended
<1> QED
  BY <1>4, <1>5, <1>6, <1>7, <1>8, <1>9

-----------------------------------------------------------------------------
(* Stopping and starting *)

\* The process is gone and the files stay.
LEMMA StoppedKeeps ==
  ASSUME IInv, Stopped, UNCHANGED loads
  PROVE  IInv'
<1> USE DEF IInv
<1>1. /\ phase' = "down" /\ ticks' = 0 /\ pc' = [t \in Savers |-> "idle"]
      /\ data' = [t \in Savers |-> 0] /\ fd' = [t \in Savers |-> NoFile]
      /\ UNCHANGED <<main, tmp, disk, durable, overlapped, faults, latest_tick, calendar>>
  BY DEF Stopped, files, loads
<1>2. TypeOK'
  BY <1>1 DEF TypeOK
<1>3. Saving' = {} /\ Threads'
  BY <1>1 DEF Threads, Saving, Writing
<1>4. NothingNewer' /\ TmpCurrent' /\ TornIsMended' /\ Loads'
  BY <1>1 DEF NothingNewer, TmpCurrent, TornIsMended, Loads, DormantServesSaved
<1>5. TmpApart' /\ DurableHasFile' /\ TmpNotOlder' /\ SavedSurvives' /\ MainSaved'
  BY <1>1 DEF TmpApart, DurableHasFile, TmpNotOlder, SavedSurvives, MainSaved, Readable, TicksIn
<1>6. OneWriter'
  BY <1>1, <1>3 DEF OneWriter, Writing
<1> QED
  BY <1>2, <1>3, <1>4, <1>5, <1>6

\* A load takes `.tmp` away; the second one reads a main file that parses.
LEMMA LoadKeeps ==
  ASSUME IInv, LoadChronomatter \/ LoadCalendar
  PROVE  IInv'
<1> USE DEF IInv
<1>1. /\ tmp' = NoFile /\ phase \in {"down", "loaded"} /\ phase' \in {"down", "loaded", "dormant"}
      /\ UNCHANGED <<ticks, pc, data, fd, main, disk, durable, overlapped, faults>>
  BY DEF LoadChronomatter, LoadCalendar, load, threads
<1>2. \A i \in Inodes, h \in Parts : disk[i][h] \in Contents
  BY DEF TypeOK
<1>3. /\ TicksIn(main) \in Contents /\ TicksIn(tmp) \in Contents
  BY <1>2 DEF TicksIn, Readable, TypeOK, Contents, Parts, NoCalendar, Hole
<1>4. LoadResult \in Contents
  BY <1>3 DEF LoadResult
<1>5. TypeOK'
  BY <1>1, <1>4 DEF TypeOK, LoadChronomatter, LoadCalendar, Contents, NoCalendar, Hole
<1>6. \A t \in Savers : pc[t] = "idle" /\ fd[t] = NoFile
  BY <1>1 DEF Threads, Writing
<1>7. Saving' = {} /\ Threads'
  BY <1>1, <1>6 DEF Threads, Saving, Writing
<1>8. NothingNewer' /\ TmpCurrent' /\ TornIsMended' /\ TmpApart' /\ DurableHasFile'
  BY <1>1 DEF NothingNewer, TmpCurrent, TornIsMended, TmpApart, DurableHasFile
<1>9. TmpNotOlder' /\ SavedSurvives' /\ MainSaved'
  BY <1>1 DEF TmpNotOlder, SavedSurvives, MainSaved, Readable, TicksIn
<1>10. OneWriter'
  BY <1>1, <1>6, <1>7 DEF OneWriter, Writing
<1>11. Loads'
  <2> SUFFICES ASSUME phase' = "dormant" PROVE calendar' >= durable'
    BY <1>1 DEF Loads, DormantServesSaved
  <2>1. LoadCalendar /\ LoadResult # NoCalendar /\ calendar' = LoadResult /\ tmp = NoFile
    BY DEF LoadChronomatter, LoadCalendar, Loads
  <2>2. LoadResult = TicksIn(main)
    BY <2>1 DEF LoadResult, Readable
  <2> QED
    BY <2>1, <2>2, <1>1 DEF TicksIn, MainSaved
<1> QED
  BY <1>5, <1>7, <1>8, <1>9, <1>10, <1>11

-----------------------------------------------------------------------------
(* The theorems *)

LEMMA InitHolds == Init => IInv
<1> SUFFICES ASSUME Init PROVE IInv
  OBVIOUS
<1>1. TypeOK
  BY DEF Init, TypeOK, Contents, NoCalendar, Hole
<1>2. Threads /\ Saving = {}
  BY DEF Init, Threads, Saving, Writing
<1>3. NothingNewer
  BY DEF Init, NothingNewer, Hole
<1>4. OneWriter
  BY <1>2 DEF Init, OneWriter, Writing
<1>5. TmpApart /\ TmpCurrent /\ MainSaved /\ TornIsMended /\ DurableHasFile /\ TmpNotOlder /\ SavedSurvives
      /\ Loads
  BY DEF Init, TmpApart, TmpCurrent, MainSaved, TornIsMended, DurableHasFile, TmpNotOlder, SavedSurvives,
     Loads, DormantServesSaved, Readable
<1> QED
  BY <1>1, <1>2, <1>3, <1>4, <1>5 DEF IInv

LEMMA StepKeeps == IInv /\ [Next]_vars => IInv'
<1> SUFFICES ASSUME IInv, [Next]_vars PROVE IInv'
  OBVIOUS
<1>1. CASE DaemonTick
  <2>1. UNCHANGED <<phase, pc, data, fd, files, loads, durable, overlapped, faults>> /\ append
    BY <1>1 DEF DaemonTick, threads
  <2> QED
    BY <2>1, AppendKeeps DEF IInv, TypeOK
<1>2. ASSUME NEW t \in Savers, handle_stamp(t) PROVE IInv'
  <2>1. UNCHANGED <<phase, data, fd, files, loads, durable, overlapped, faults>> /\ append
    BY <1>2 DEF handle_stamp
  <2>2. /\ pc' \in [Savers -> {"idle", "appended", "open", "write1", "write2", "rename", "done"}]
        /\ \A u \in Savers : pc'[u] = pc[u] \/ pc'[u] = "appended"
    BY <1>2 DEF handle_stamp, IInv, TypeOK
  <2> QED
    BY <2>1, <2>2, AppendKeeps
<1>3. ASSUME NEW t \in Savers, Shutdown(t) \/ Save(t) PROVE IInv'
  BY <1>3, BeginKeeps, OpenTmpKeeps, WriteTmpKeeps, RenameKeeps, FailedSaveKeeps DEF Save
<1>4. CASE Crash \/ Exit \/ StopDormant
  BY <1>4, StoppedKeeps DEF Crash, Exit, StopDormant
<1>5. CASE LoadChronomatter \/ LoadCalendar
  BY <1>5, LoadKeeps
<1>6. CASE UNCHANGED vars
  BY <1>6 DEF vars, IInv, TypeOK, Threads, Saving, NothingNewer, TmpApart, TmpCurrent, MainSaved, OneWriter,
     TornIsMended, Mended, DurableHasFile, TmpNotOlder, SavedSurvives, Loads, DormantServesSaved, Readable, TicksIn
<1> QED
  BY <1>1, <1>2, <1>3, <1>4, <1>5, <1>6 DEF Next

LEMMA Invariance == Spec => []IInv
BY InitHolds, StepKeeps, PTL DEF Spec

\* The threads, the files and what the loads return keep their types.
THEOREM TypeCorrect == Spec => []TypeOK
<1>1. IInv => TypeOK
  BY DEF IInv
<1> QED
  BY <1>1, Invariance, PTL

\* While no two saves overlap, what save() reported written stays readable at
\* `<path>`, whatever the number of threads and errors and wherever the process
\* is killed.
THEOREM SavedCalendarSurvives == Spec => []SavedSurvives
<1>1. IInv => SavedSurvives
  BY DEF IInv
<1> QED
  BY <1>1, Invariance, PTL

\* Any number of threads may write one `.tmp` at once: a complete one is never
\* older than the main file, so load() may prefer it.
THEOREM LeftoverIsNeverOlder == Spec => []TmpNotOlder
<1>1. IInv => TmpNotOlder
  BY DEF IInv
<1> QED
  BY <1>1, Invariance, PTL

\* A dormant node serves at least what any save had reported written.
THEOREM DormantNodeServesSaved == Spec => []DormantServesSaved
<1>1. IInv => DormantServesSaved
  BY DEF IInv, Loads
<1> QED
  BY <1>1, Invariance, PTL

\* However many saves overlapped, once none is under way and no write failed the
\* main file holds what was reported written.
THEOREM OverlappingSavesSettle == Spec => []MainSettles
<1>1. IInv => MainSettles
  <2> SUFFICES ASSUME IInv, phase = "up", Saving = {}, faults = 0, durable > 0
               PROVE  TicksIn(main) >= durable
    BY DEF MainSettles
  <2>1. \A t \in Savers : fd[t] = NoFile
    BY DEF IInv, Threads, Saving, Writing
  <2>2. main # NoFile /\ main \in Inodes /\ ticks \in Nat
    BY DEF IInv, DurableHasFile, TypeOK
  <2>3. Readable(main)
    <3> SUFFICES ASSUME Mended(main) PROVE Readable(main)
      BY <2>2 DEF IInv, TornIsMended
    <3>1. disk[main][1] = ticks /\ disk[main][2] = ticks
      BY <2>1, <2>2 DEF Mended, Parts
    <3> QED
      BY <3>1, <2>2 DEF Readable, Hole
  <2> QED
    BY <2>3 DEF IInv, MainSaved, TicksIn
<1> QED
  BY <1>1, Invariance, PTL

\* While no two saves overlap, no step replaces the main file by an older or a
\* broken one.
THEOREM MainOnlyAdvances == Spec => MainNeverRegresses
<1>1. IInv /\ [Next]_vars => [~overlapped' => TicksIn(main)' >= TicksIn(main)]_vars
  <2> SUFFICES ASSUME IInv, Next, ~overlapped' PROVE TicksIn(main)' >= TicksIn(main)
    OBVIOUS
  <2>1. TicksIn(main) \in Int
    <3>1. \A i \in Inodes, h \in Parts : disk[i][h] \in Int
      BY DEF IInv, TypeOK, Contents, Hole
    <3> QED
      BY <3>1 DEF IInv, TypeOK, TicksIn, Readable, Parts, NoCalendar
  <2>2. ASSUME UNCHANGED <<main, disk>> PROVE TicksIn(main)' >= TicksIn(main)
    BY <2>1, <2>2 DEF TicksIn, Readable
  <2>3. ASSUME NEW t \in Savers, OpenTmp(t) \/ WriteTmp(t) PROVE TicksIn(main)' >= TicksIn(main)
    <3>1. ~overlapped /\ main' = main
      BY <2>3 DEF OpenTmp, WriteTmp
    <3>2. PICK i \in Inodes : OnlyWrites(i) /\ i # main
      <4>1. CASE OpenTmp(t)
        <5>1. tmp' \in Inodes /\ tmp' # main
          <6>1. CASE tmp = NoFile
            BY <4>1, <6>1, FreeInode DEF OpenTmp, Free, IInv
          <6>2. CASE tmp # NoFile
            BY <4>1, <6>2 DEF OpenTmp, IInv, TypeOK, TmpApart
          <6> QED
            BY <6>1, <6>2
        <5>2. OnlyWrites(tmp')
          BY <4>1, <5>1 DEF OpenTmp, OnlyWrites, IInv, TypeOK
        <5> QED
          BY <5>1, <5>2
      <4>2. CASE WriteTmp(t)
        <5>1. pc[t] \in Writing /\ fd[t] = tmp /\ fd[t] # NoFile /\ fd[t] \in Inodes
          BY <4>2, <3>1 DEF WriteTmp, Writing, IInv, OneWriter, Threads, TypeOK
        <5>2. OnlyWrites(fd[t])
          BY <4>2, <5>1 DEF WriteTmp, OnlyWrites, IInv, TypeOK
        <5> QED
          BY <5>1, <5>2 DEF IInv, TmpApart
      <4> QED
        BY <2>3, <4>1, <4>2
    <3>3. main # NoFile => disk'[main] = disk[main]
      BY <3>2 DEF OnlyWrites, IInv, TypeOK
    <3> QED
      BY <2>1, <3>1, <3>3 DEF TicksIn, Readable
  <2>4. ASSUME NEW t \in Savers, RenameTmp(t) PROVE TicksIn(main)' >= TicksIn(main)
    <3>1. /\ ~overlapped /\ tmp # NoFile /\ main' = tmp /\ disk' = disk /\ phase = "up"
          /\ disk[tmp][1] = ticks /\ disk[tmp][2] = ticks
      BY <2>4 DEF RenameTmp, IInv, OneWriter, Threads
    <3>2. TicksIn(main)' = ticks
      BY <3>1 DEF TicksIn, Readable, IInv, TypeOK, Hole
    <3>3. TicksIn(main) <= ticks
      BY <3>1 DEF TicksIn, Readable, IInv, TypeOK, NothingNewer, Parts, NoCalendar
    <3> QED
      BY <3>2, <3>3
  <2> QED
    BY <2>2, <2>3, <2>4 DEF Next, DaemonTick, handle_stamp, Shutdown, Save, BeginSave, RenameMissing, SaveFails,
       Crash, Exit, StopDormant, Stopped, LoadChronomatter, LoadCalendar, load, files
<1> QED
  BY <1>1, Invariance, PTL DEF Spec, MainNeverRegresses

-----------------------------------------------------------------------------
(* The mirror of a source that forks                                         *)

Ticks == [branch : Nat, after : Nat]
Batches == [next : Nat \ {0}, records : Seq(Ticks), checked : BOOLEAN]

ReconcileTypes ==
  /\ source \in Seq(Ticks) /\ source # << >> /\ mirrored \in Seq(Ticks) /\ branch \in Nat
  /\ mixed \in BOOLEAN
  /\ batches \subseteq Batches /\ \A b \in batches : b.records # << >>

\* Each record names the branch of the one before it.
Chain(cal) == \A n \in 2..Len(cal) : cal[n].after = cal[n - 1].branch

\* Before the first crash the mirror and every request hold records of the source.
BatchOfSource(b) ==
  /\ b.next + Len(b.records) - 1 <= Len(source)
  /\ \A i \in 1..Len(b.records) : b.records[i] = source[b.next + i - 1]
OneBranch ==
  branch = 0 => /\ Len(mirrored) <= Len(source)
                /\ \A i \in 1..Len(mirrored) : mirrored[i] = source[i]
                /\ \A b \in batches : BatchOfSource(b)

\* What was checked goes on where the mirror ends, or is held by now.
Reaches == \A b \in batches : b.checked => b.next <= Len(mirrored) + 1

\* A request of several records was checked before any crash, and the record that
\* comes next was checked against the newest one held.
Unmixed ==
  ~mixed => /\ Chain(mirrored)
            /\ \A b \in batches : b.checked /\ Len(b.records) > 1 => branch = 0
            /\ \A b \in batches : b.checked /\ b.next = Len(mirrored) + 1 /\ mirrored # << >> =>
                 b.records[1].after = LastBranch(mirrored)

\* What the mirror last said of itself.
ToldOK ==
  /\ told.status # "diverged"
  /\ told.of = "mirrored" => told.count \in Nat /\ told.count <= Len(mirrored)
  /\ told.status = "behind" => /\ told.count \in Nat \ {0} /\ told.tick = told.count + 1
                               /\ branch = 0 => told.tick <= Len(source)

ReconcileInv ==
  /\ ReconcileTypes /\ Chain(source) /\ OneBranch /\ Reaches /\ Unmixed /\ ToldOK

\* The newest record a sequence holds.
LEMMA LastOf ==
  ASSUME NEW cal \in Seq(Ticks), cal # << >>
  PROVE  Len(cal) \in Nat \ {0} /\ LastBranch(cal) = cal[Len(cal)].branch
BY DEF LastBranch

\* A request cut from the source holds its records.
LEMMA NewBatch ==
  ASSUME ReconcileInv, NEW first \in 1..Len(source), NEW last \in first..Len(source),
         NEW checked \in BOOLEAN, NEW b, b = Batch(first, last, checked)
  PROVE  /\ b \in Batches /\ b.records # << >> /\ BatchOfSource(b)
         /\ b.next = first /\ b.checked = checked /\ Len(b.records) = last - first + 1
         /\ b.records[1] = source[first]
<1>1. PICK r : r = SubSeq(source, first, last)
  OBVIOUS
<1>2. source \in Seq(Ticks) /\ Len(source) \in Nat /\ first \in Int /\ last \in Int /\ first <= last
      /\ \A i \in first..last : source[i] \in Ticks
  BY DEF ReconcileInv, ReconcileTypes
<1>3. r \in Seq(Ticks) /\ Len(r) = last - first + 1
      /\ \A i \in 1..last - first + 1 : r[i] = source[first + i - 1]
  BY <1>1, <1>2, SubSeqProperties, Z3
<1>4. b = [next |-> first, records |-> r, checked |-> checked]
  BY <1>1 DEF Batch
<1>5. b.next = first /\ b.checked = checked /\ b.records = r
  BY <1>4
<1>6. b \in Batches
  BY <1>2, <1>3, <1>4 DEF Batches
<1>7. r # << >> /\ r[1] = source[first]
  BY <1>2, <1>3
<1>8. BatchOfSource(b)
  BY <1>2, <1>3, <1>5 DEF BatchOfSource
<1> QED
  BY <1>3, <1>5, <1>6, <1>7, <1>8

\* The mirror of a new time being is empty.
LEMMA ReconcileInvInit == ReconcileInit => ReconcileInv
<1> SUFFICES ASSUME ReconcileInit PROVE ReconcileInv
  OBVIOUS
<1>1. PICK r : r = Record(0, 0)
  OBVIOUS
<1>2. r \in Ticks
  BY <1>1 DEF Record, Ticks
<1>3. /\ source = <<r>> /\ mirrored = << >> /\ branch = 0 /\ batches = {} /\ mixed = FALSE
      /\ told = NothingTold
  BY <1>1 DEF ReconcileInit
<1>4. ReconcileTypes
  <2>1. source \in Seq(Ticks) /\ source # << >>
    BY <1>2, <1>3
  <2>2. mirrored \in Seq(Ticks)
    BY <1>3
  <2> QED
    BY <1>3, <2>1, <2>2 DEF ReconcileTypes
<1>5. Chain(source) /\ Chain(mirrored)
  BY <1>3 DEF Chain
<1>6. OneBranch /\ Reaches /\ Unmixed
  BY <1>3, <1>5 DEF OneBranch, Reaches, Unmixed
<1>7. ToldOK
  BY <1>3 DEF ToldOK, NothingTold
<1> QED
  BY <1>4, <1>5, <1>6, <1>7 DEF ReconcileInv

\* The source grows: what was its prefix still is.
LEMMA SourceTicksStep == ASSUME ReconcileInv, SourceTicks PROVE ReconcileInv'
<1> USE DEF ReconcileInv
<1>0. UNCHANGED <<branch, mirrored, batches, told, mixed>> /\ source \in Seq(Ticks) /\ source # << >>
  BY DEF SourceTicks, ReconcileTypes
<1>1. PICK r : r = Record(branch, LastBranch(source))
  OBVIOUS
<1>2. Len(source) \in Nat \ {0} /\ LastBranch(source) = source[Len(source)].branch
  BY <1>0, LastOf
<1>3. r \in Ticks /\ r.after = source[Len(source)].branch
  <2>1. source[Len(source)] \in Ticks
    BY <1>0, <1>2
  <2>2. LastBranch(source) \in Nat /\ branch \in Nat
    BY <1>2, <2>1 DEF Ticks, ReconcileTypes
  <2> QED
    BY <1>1, <1>2, <2>2 DEF Record, Ticks
<1>4. /\ source' \in Seq(Ticks) /\ source' # << >> /\ Len(source') = Len(source) + 1
      /\ \A i \in 1..Len(source) : source'[i] = source[i]
      /\ source'[Len(source) + 1] = r
  BY <1>0, <1>1, <1>3, AppendProperties DEF SourceTicks
<1>5. ReconcileTypes'
  BY <1>0, <1>4 DEF ReconcileTypes
<1>6. Chain(source')
  <2>1. ASSUME NEW n \in 2..Len(source') PROVE source'[n].after = source'[n - 1].branch
    <3>1. CASE n = Len(source) + 1
      BY <1>2, <1>3, <1>4, <3>1
    <3>2. CASE n # Len(source) + 1
      <4>1. n \in 2..Len(source) /\ n \in 1..Len(source) /\ n - 1 \in 1..Len(source)
        BY <1>2, <1>4, <3>2
      <4> QED
        BY <1>4, <4>1 DEF Chain
    <3> QED
      BY <3>1, <3>2
  <2> QED
    BY <2>1 DEF Chain
<1>7. OneBranch'
  <2> SUFFICES ASSUME branch = 0 PROVE OneBranch'
    BY <1>0 DEF OneBranch
  <2>1. Len(mirrored) <= Len(source') /\ \A i \in 1..Len(mirrored) : mirrored[i] = source'[i]
    <3>1. Len(mirrored) \in Nat /\ Len(mirrored) <= Len(source)
          /\ \A i \in 1..Len(mirrored) : mirrored[i] = source[i]
      BY DEF OneBranch, ReconcileTypes
    <3> QED
      BY <1>2, <1>4, <3>1
  <2>2. ASSUME NEW b \in batches PROVE BatchOfSource(b)'
    <3>1. b.next \in Nat \ {0} /\ Len(b.records) \in Nat /\ BatchOfSource(b)
      BY DEF ReconcileTypes, Batches, OneBranch
    <3>2. b.next + Len(b.records) - 1 <= Len(source')
      BY <1>2, <1>4, <3>1 DEF BatchOfSource
    <3>3. ASSUME NEW i \in 1..Len(b.records) PROVE b.records[i] = source'[b.next + i - 1]
      <4>1. b.next + i - 1 \in 1..Len(source)
        BY <1>2, <3>1 DEF BatchOfSource
      <4> QED
        BY <1>4, <3>1, <4>1 DEF BatchOfSource
    <3> QED
      BY <3>2, <3>3 DEF BatchOfSource
  <2> QED
    BY <1>0, <2>1, <2>2 DEF OneBranch
<1>8. Reaches' /\ Unmixed'
  BY <1>0 DEF Reaches, Unmixed, Chain, LastBranch
<1>9. ToldOK'
  BY <1>0, <1>2, <1>4 DEF ToldOK
<1> QED
  BY <1>5, <1>6, <1>7, <1>8, <1>9

\* A crash: the source goes back to a prefix, and a request of several records
\* that is under way is from then on one that met a fork.
LEMMA SourceForksStep ==
  ASSUME ReconcileInv, NEW n \in DOMAIN source, SourceForks(n) PROVE ReconcileInv'
<1> USE DEF ReconcileInv
<1>0. /\ UNCHANGED <<mirrored, batches, told>> /\ source \in Seq(Ticks) /\ branch \in Nat
      /\ branch' = branch + 1 /\ branch' # 0 /\ branch' \in Nat
      /\ mixed' = (mixed \/ \E b \in batches : Len(b.records) > 1)
  BY DEF SourceForks, ReconcileTypes
<1>1. n \in 1..Len(source) /\ Len(source) \in Nat /\ n \in Int
  BY <1>0
<1>2. \A i \in 1..n : source[i] \in Ticks
  BY <1>0, <1>1
<1>3. source' \in Seq(Ticks) /\ Len(source') = n /\ \A i \in 1..n : source'[i] = source[i]
  BY <1>1, <1>2, SubSeqProperties, Z3 DEF SourceForks
<1>4. ReconcileTypes'
  BY <1>0, <1>1, <1>3 DEF ReconcileTypes
<1>5. Chain(source')
  <2>1. \A m \in 2..n : m \in 2..Len(source) /\ m \in 1..n /\ m - 1 \in 1..n
    BY <1>1
  <2> QED
    BY <1>3, <2>1 DEF Chain
<1>6. OneBranch' /\ Reaches'
  BY <1>0 DEF OneBranch, Reaches
<1>7. Unmixed'
  <2> SUFFICES ASSUME ~mixed' PROVE Unmixed'
    BY DEF Unmixed
  <2>1. ~mixed /\ \A b \in batches : ~(Len(b.records) > 1)
    BY <1>0
  <2>2. Chain(mirrored)' /\ \A b \in batches : ~(b.checked /\ Len(b.records) > 1)
    BY <1>0, <2>1 DEF Unmixed, Chain
  <2> QED
    BY <1>0, <2>1, <2>2 DEF Unmixed, LastBranch
<1>8. ToldOK'
  BY <1>0 DEF ToldOK
<1> QED
  BY <1>4, <1>5, <1>6, <1>7, <1>8

\* A request arrives: the mirror checked its first record, or not yet.
LEMMA BatchArrives ==
  ASSUME ReconcileInv, NEW first \in 1..Len(source), NEW last \in first..Len(source),
         NEW checked \in BOOLEAN,
         batches' = batches \cup {Batch(first, last, checked)},
         checked => Follows(first, source[first]),
         mixed' \in BOOLEAN, mixed => mixed',
         checked /\ branch > 0 /\ first < last => mixed',
         UNCHANGED <<source, branch, mirrored, told>>
  PROVE  ReconcileInv'
<1> USE DEF ReconcileInv
<1>1. PICK b : b = Batch(first, last, checked)
  OBVIOUS
<1>2. /\ b \in Batches /\ b.records # << >> /\ BatchOfSource(b)
      /\ b.next = first /\ b.checked = checked /\ Len(b.records) = last - first + 1
      /\ b.records[1] = source[first]
  BY <1>1, NewBatch
<1>3. batches' = batches \cup {b}
  BY <1>1
<1>4. ReconcileTypes'
  BY <1>2, <1>3 DEF ReconcileTypes
<1>5. Chain(source') /\ ToldOK'
  BY DEF Chain, ToldOK
<1>6. OneBranch'
  BY <1>2, <1>3 DEF OneBranch, BatchOfSource
<1>7. Reaches'
  <2>1. Len(mirrored) \in Nat /\ first \in Nat
    BY DEF ReconcileTypes
  <2>2. checked => first <= Len(mirrored) + 1
    <3>1. CASE mirrored = << >>
      BY <2>1, <3>1 DEF Follows
    <3>2. CASE mirrored # << >>
      BY <2>1, <3>2 DEF Follows
    <3> QED
      BY <3>1, <3>2
  <2> QED
    BY <1>2, <1>3, <2>2 DEF Reaches
<1>8. Unmixed'
  <2> SUFFICES ASSUME ~mixed' PROVE Unmixed'
    BY DEF Unmixed
  <2>1. ~mixed
    OBVIOUS
  <2>2. b.checked /\ Len(b.records) > 1 => branch = 0
    BY <1>2 DEF ReconcileTypes
  <2>3. b.checked /\ mirrored # << >> => b.records[1].after = LastBranch(mirrored)
    BY <1>2 DEF Follows
  <2>4. Chain(mirrored)' /\ LastBranch(mirrored)' = LastBranch(mirrored)
    BY <2>1 DEF Unmixed, Chain, LastBranch
  <2> QED
    BY <1>3, <2>1, <2>2, <2>3, <2>4 DEF Unmixed
<1> QED
  BY <1>4, <1>5, <1>6, <1>7, <1>8

\* stream_tick and history_dump_chunk check the first record before they insert.
LEMMA CheckStep ==
  ASSUME ReconcileInv, NEW first \in 1..Len(source), NEW last \in first..Len(source),
         Check(first, last, Follows(first, source[first]))
  PROVE  ReconcileInv'
<1>1. /\ Follows(first, source[first]) /\ batches' = batches \cup {Batch(first, last, TRUE)}
      /\ mixed' = (mixed \/ (branch > 0 /\ first < last))
      /\ UNCHANGED <<source, branch, mirrored, told>>
  BY DEF Check, InFlight
<1>2. mixed' \in BOOLEAN /\ (mixed => mixed') /\ (branch > 0 /\ first < last => mixed')
  BY <1>1 DEF ReconcileInv, ReconcileTypes
<1> QED
  BY <1>1, <1>2, BatchArrives

\* ship_batch hands out records that come back in a ship_ack.
LEMMA ShipBatchStep ==
  ASSUME ReconcileInv, NEW first \in DOMAIN source, NEW count \in 1..MaxSourceTicks,
         handle_ship_batch(first, count)
  PROVE  ReconcileInv'
<1>1. Len(source) \in Nat /\ first \in 1..Len(source) /\ count \in Nat \ {0}
  BY ReconcileAssumption DEF ReconcileInv, ReconcileTypes
<1>2. PICK last : last = IF first + count - 1 > Len(source) THEN Len(source) ELSE first + count - 1
  OBVIOUS
<1>3. last \in first..Len(source)
  BY <1>1, <1>2
<1>4. /\ batches' = batches \cup {Batch(first, last, FALSE)}
      /\ UNCHANGED <<source, branch, mirrored, told, mixed>>
  BY <1>2 DEF handle_ship_batch, InFlight
<1>5. mixed' \in BOOLEAN /\ (mixed => mixed')
  BY <1>4 DEF ReconcileInv, ReconcileTypes
<1> QED
  BY <1>1, <1>3, <1>4, <1>5, BatchArrives

\* ship_ack checks its batch by itself, from a genesis, or drops it.
LEMMA ShipAckStep == ASSUME ReconcileInv, NEW b \in batches, handle_ship_ack(b) PROVE ReconcileInv'
<1> USE DEF ReconcileInv
<1>1. /\ ~b.checked /\ UNCHANGED <<source, branch, mirrored, told>>
      /\ mixed' = (mixed \/ (branch > 0 /\ Len(b.records) > 1))
      /\ b \in Batches /\ b.records # << >> /\ mixed \in BOOLEAN
  BY DEF handle_ship_ack, ReconcileTypes
<1>2. PICK c : c = [b EXCEPT !.checked = TRUE]
  OBVIOUS
<1>3. c \in Batches /\ c.checked /\ c.next = b.next /\ c.records = b.records
  BY <1>1, <1>2 DEF Batches
<1>4. batches' \subseteq (batches \ {b}) \cup {c} /\ (c \in batches' => c \in batches \/ b.next = 1)
  BY <1>2 DEF handle_ship_ack, verify_ship_ack_chain, StartsAtGenesis
<1>5. \A d \in batches' : d \in batches \/ (d = c /\ b.next = 1)
  BY <1>4
<1>6. ReconcileTypes'
  BY <1>1, <1>3, <1>5 DEF ReconcileTypes
<1>7. Chain(source') /\ ToldOK'
  BY <1>1 DEF Chain, ToldOK
<1>8. OneBranch'
  <2>1. branch = 0 => BatchOfSource(b)
    BY DEF OneBranch
  <2> QED
    BY <1>1, <1>3, <1>5, <2>1 DEF OneBranch, BatchOfSource
<1>9. Reaches'
  <2>1. Len(mirrored) \in Nat
    BY DEF ReconcileTypes
  <2> QED
    BY <1>1, <1>3, <1>5, <2>1 DEF Reaches
<1>10. Unmixed'
  <2> SUFFICES ASSUME ~mixed' PROVE Unmixed'
    BY DEF Unmixed
  <2>1. ~mixed /\ ~(branch > 0 /\ Len(b.records) > 1) /\ branch \in Nat
    BY <1>1 DEF ReconcileTypes
  <2>2. Chain(mirrored)' /\ LastBranch(mirrored)' = LastBranch(mirrored)
    BY <1>1, <2>1 DEF Unmixed, Chain, LastBranch
  <2>3. Len(mirrored) \in Nat /\ (mirrored # << >> => Len(mirrored) # 0)
    BY DEF ReconcileTypes
  <2>4. \A d \in batches' : d.checked /\ Len(d.records) > 1 => branch = 0
    BY <1>3, <1>5, <2>1 DEF Unmixed
  <2>5. \A d \in batches' : d.checked /\ d.next = Len(mirrored) + 1 /\ mirrored # << >> =>
          d.records[1].after = LastBranch(mirrored)
    BY <1>3, <1>5, <2>1, <2>3 DEF Unmixed
  <2> QED
    BY <1>1, <2>2, <2>4, <2>5 DEF Unmixed
<1> QED
  BY <1>6, <1>7, <1>8, <1>9, <1>10

\* The part of a request that is left once its first record was handled.
Rest(b) == [b EXCEPT !.next = @ + 1, !.records = Tail(@)]

\* What is left of a request are its records from the second on.
LEMMA RestOfBatch ==
  ASSUME NEW b \in Batches, b.records # << >>, Len(b.records) # 1,
         NEW c, c = Rest(b)
  PROVE  /\ c \in Batches /\ c.records # << >> /\ c.checked = b.checked /\ c.next = b.next + 1
         /\ Len(c.records) = Len(b.records) - 1 /\ Len(b.records) > 1
         /\ \A i \in 1..Len(c.records) : c.records[i] = b.records[i + 1]
<1>1. PICK r : r = b.records
  OBVIOUS
<1>2. r \in Seq(Ticks) /\ r # << >> /\ Len(r) # 1 /\ b.next \in Nat \ {0}
  BY <1>1 DEF Batches
<1>3. PICK t : t = Tail(r)
  OBVIOUS
<1>4. t \in Seq(Ticks) /\ Len(t) = Len(r) - 1 /\ \A i \in 1..Len(t) : t[i] = r[i + 1]
  BY <1>2, <1>3, HeadTailProperties
<1>5. Len(r) \in Nat /\ Len(r) > 1
  <2>1. PICK n : n = Len(r)
    OBVIOUS
  <2>2. n \in Nat \ {0} /\ n # 1
    BY <1>2, <2>1, EmptySeq, Zenon
  <2>3. n > 1
    BY <2>2
  <2> QED
    BY <2>1, <2>2, <2>3
<1>6. c.next = b.next + 1 /\ c.records = t /\ c.checked = b.checked
  BY <1>1, <1>3 DEF Batches, Rest
<1>7. c \in Batches
  <2>1. c = [next |-> b.next + 1, records |-> t, checked |-> b.checked] /\ b.checked \in BOOLEAN
    BY <1>1, <1>3 DEF Batches, Rest
  <2> QED
    BY <1>2, <1>4, <2>1 DEF Batches
<1>8. t # << >>
  BY <1>4, <1>5
<1> QED
  BY <1>1, <1>4, <1>5, <1>6, <1>7, <1>8

\* insert_mirrored: the record is appended if it comes next and skipped if held.
LEMMA InsertStep == ASSUME ReconcileInv, NEW b \in batches, insert_mirrored(b) PROVE ReconcileInv'
<1> USE DEF ReconcileInv
<1>1. /\ b.checked /\ UNCHANGED <<source, branch, told, mixed>>
      /\ b \in Batches /\ b.records # << >> /\ mixed \in BOOLEAN /\ branch \in Nat
      /\ source \in Seq(Ticks) /\ mirrored \in Seq(Ticks)
  BY DEF insert_mirrored, ReconcileTypes
<1>2. PICK c : c = Rest(b)
  OBVIOUS
<1>3. Len(b.records) # 1 => /\ c \in Batches /\ c.records # << >> /\ c.checked /\ c.next = b.next + 1
                            /\ Len(c.records) = Len(b.records) - 1 /\ Len(b.records) > 1
                            /\ \A i \in 1..Len(c.records) : c.records[i] = b.records[i + 1]
  <2>1. CASE Len(b.records) # 1
    <3>1. /\ c \in Batches /\ c.records # << >> /\ c.checked = b.checked /\ c.next = b.next + 1
          /\ Len(c.records) = Len(b.records) - 1 /\ Len(b.records) > 1
          /\ \A i \in 1..Len(c.records) : c.records[i] = b.records[i + 1]
      BY <1>1, <1>2, <2>1, RestOfBatch, Zenon
    <3> QED
      BY <1>1, <3>1, Zenon
  <2> QED
    BY <2>1
<1>4. \A d \in batches' : d \in batches \/ (d = c /\ Len(b.records) # 1)
  BY <1>2 DEF insert_mirrored, Rest
<1>5. PICK m \in Nat : m = Len(mirrored)
  BY <1>1
<1>6. b.next \in Nat \ {0} /\ b.next <= m + 1 /\ Len(b.records) \in Nat \ {0} /\ b.records[1] \in Ticks
  <2>1. b.next \in Nat \ {0} /\ b.records \in Seq(Ticks)
    BY <1>1 DEF Batches
  <2>2. b.next <= m + 1
    BY <1>1, <1>5 DEF Reaches
  <2>3. Len(b.records) \in Nat \ {0}
    BY <1>1, <2>1
  <2> QED
    BY <2>1, <2>2, <2>3
<1>7. /\ mirrored' \in Seq(Ticks) /\ \A i \in 1..m : mirrored'[i] = mirrored[i]
      /\ \/ b.next <= m /\ mirrored' = mirrored
         \/ b.next = m + 1 /\ Len(mirrored') = m + 1 /\ mirrored'[m + 1] = b.records[1]
  <2>1. CASE b.next <= m
    BY <1>1, <1>5, <2>1 DEF insert_mirrored
  <2>2. CASE ~(b.next <= m)
    <3>1. b.next = m + 1
      BY <1>6, <2>2
    <3>2. mirrored' = Append(mirrored, b.records[1])
      BY <1>5, <2>2 DEF insert_mirrored
    <3> QED
      BY <1>1, <1>5, <1>6, <3>1, <3>2, AppendProperties
  <2> QED
    BY <2>1, <2>2
<1>8. ReconcileTypes'
  BY <1>1, <1>3, <1>4, <1>7 DEF ReconcileTypes
<1>9. Chain(source')
  BY <1>1 DEF Chain
<1>10. Len(mirrored') >= m /\ b.next <= Len(mirrored') /\ Len(mirrored') \in Nat
       /\ Len(mirrored') <= m + 1
  BY <1>5, <1>6, <1>7
<1>11. ToldOK'
  BY <1>1, <1>5, <1>10 DEF ToldOK
<1>12. Reaches'
  <2>1. ASSUME NEW d \in batches', d.checked PROVE d.next <= Len(mirrored') + 1
    <3>1. CASE d \in batches
      <4>1. d.next <= m + 1 /\ d.next \in Nat
        BY <1>5, <2>1, <3>1 DEF Reaches, ReconcileTypes, Batches
      <4> QED
        BY <1>10, <4>1
    <3>2. CASE d = c /\ Len(b.records) # 1
      BY <1>3, <1>6, <1>10, <3>2
    <3> QED
      BY <1>4, <3>1, <3>2
  <2> QED
    BY <2>1 DEF Reaches
<1>13. branch = 0 => /\ Len(mirrored') <= Len(source)
                     /\ \A i \in 1..Len(mirrored') : mirrored'[i] = source[i]
                     /\ BatchOfSource(b)
  <2> SUFFICES ASSUME branch = 0
               PROVE  /\ Len(mirrored') <= Len(source)
                      /\ \A i \in 1..Len(mirrored') : mirrored'[i] = source[i]
                      /\ BatchOfSource(b)
    OBVIOUS
  <2>1. m <= Len(source) /\ (\A i \in 1..m : mirrored[i] = source[i]) /\ BatchOfSource(b)
    BY <1>5 DEF OneBranch
  <2>2. b.records[1] = source[b.next] /\ b.next <= Len(source)
    <3>1. 1 \in 1..Len(b.records) /\ b.next + 1 - 1 = b.next /\ Len(source) \in Nat
      BY <1>1, <1>6
    <3>2. b.records[1] = source[b.next + 1 - 1]
      BY <2>1, <3>1 DEF BatchOfSource
    <3>3. b.next + Len(b.records) - 1 <= Len(source)
      BY <2>1 DEF BatchOfSource
    <3> QED
      BY <1>6, <3>1, <3>2, <3>3
  <2> QED
    BY <1>5, <1>7, <2>1, <2>2
<1>14. OneBranch'
  <2>1. ASSUME branch = 0, NEW d \in batches' PROVE BatchOfSource(d)
    <3>1. CASE d \in batches
      BY <2>1, <3>1 DEF OneBranch
    <3>2. CASE d = c /\ Len(b.records) # 1
      <4>1. BatchOfSource(b) /\ Len(source) \in Nat
        BY <1>1, <1>13, <2>1
      <4>2. c.next + Len(c.records) - 1 <= Len(source)
        BY <1>3, <1>6, <3>2, <4>1 DEF BatchOfSource
      <4>3. ASSUME NEW i \in 1..Len(c.records) PROVE c.records[i] = source[c.next + i - 1]
        <5>0. PICK l \in Nat, n \in Nat : l = Len(b.records) /\ n = b.next
          BY <1>6
        <5>1. i + 1 \in 1..Len(b.records) /\ b.next + (i + 1) - 1 = c.next + i - 1
          <6>1. i \in 1..l - 1 /\ c.next = n + 1
            BY <1>3, <3>2, <5>0
          <6>2. i + 1 \in 1..l /\ n + (i + 1) - 1 = (n + 1) + i - 1
            BY <6>1
          <6> QED
            BY <5>0, <6>1, <6>2
        <5>2. b.records[i + 1] = source[b.next + (i + 1) - 1]
          BY <4>1, <5>1 DEF BatchOfSource
        <5> QED
          BY <1>3, <3>2, <5>1, <5>2
      <4> QED
        BY <3>2, <4>2, <4>3 DEF BatchOfSource
    <3> QED
      BY <1>4, <3>1, <3>2
  <2> QED
    BY <1>1, <1>13, <2>1 DEF OneBranch, BatchOfSource
<1>15. Unmixed'
  <2> SUFFICES ASSUME ~mixed PROVE Unmixed'
    BY <1>1 DEF Unmixed
  <2>1. Len(b.records) > 1 => branch = 0
    BY <1>1 DEF Unmixed
  <2>2. Chain(mirrored')
    <3>1. ASSUME NEW n \in 2..Len(mirrored') PROVE mirrored'[n].after = mirrored'[n - 1].branch
      <4>1. CASE n <= m
        <5>1. n \in 2..Len(mirrored) /\ n \in 1..m /\ n - 1 \in 1..m
          BY <1>5, <4>1
        <5> QED
          BY <1>7, <5>1 DEF Unmixed, Chain
      <4>2. CASE ~(n <= m)
        <5>1. n = m + 1 /\ b.next = m + 1 /\ mirrored'[n] = b.records[1] /\ m \in 1..m
          BY <1>5, <1>7, <4>2
        <5>2. mirrored # << >>
          BY <1>5, <5>1
        <5>3. b.records[1].after = LastBranch(mirrored)
          BY <1>1, <1>5, <5>1, <5>2 DEF Unmixed
        <5>4. LastBranch(mirrored) = mirrored[m].branch
          BY <1>1, <1>5, <5>2, LastOf
        <5> QED
          BY <1>5, <1>7, <5>1, <5>3, <5>4
      <4> QED
        BY <4>1, <4>2
    <3> QED
      BY <3>1 DEF Chain
  <2>3. \A d \in batches' : d.checked /\ Len(d.records) > 1 => branch = 0
    <3>1. Len(b.records) # 1 => branch = 0
      BY <1>3, <2>1
    <3> QED
      BY <1>4, <3>1 DEF Unmixed
  <2>4. ASSUME NEW d \in batches', d.checked, d.next = Len(mirrored') + 1, mirrored' # << >>
        PROVE  d.records[1].after = LastBranch(mirrored')
    <3>1. CASE d \in batches
      <4>1. d.next <= m + 1 /\ d.next \in Nat
        BY <1>5, <2>4, <3>1 DEF Reaches, ReconcileTypes, Batches
      <4>2. mirrored' = mirrored
        BY <1>7, <2>4, <4>1
      <4> QED
        BY <1>5, <2>4, <3>1, <4>2 DEF Unmixed
    <3>2. CASE d = c /\ Len(b.records) # 1
      <4>0. PICK k \in Nat : k = Len(mirrored')
        BY <1>10
      <4>1. branch = 0 /\ c.next = k + 1 /\ k \in 1..Len(mirrored')
        BY <1>3, <1>6, <1>10, <2>1, <2>4, <3>2, <4>0
      <4>2. BatchOfSource(c) /\ mirrored'[k] = source[k]
        BY <1>1, <1>13, <1>14, <2>4, <3>2, <4>1 DEF OneBranch, BatchOfSource
      <4>3. c.records[1] = source[k + 1] /\ k + 1 <= Len(source) /\ Len(source) \in Nat
        <5>1. 1 \in 1..Len(c.records) /\ c.next + 1 - 1 = k + 1 /\ Len(c.records) \in Nat
          BY <1>3, <1>6, <3>2, <4>1
        <5>2. c.records[1] = source[c.next + 1 - 1] /\ c.next + Len(c.records) - 1 <= Len(source)
          BY <4>2, <5>1 DEF BatchOfSource
        <5>3. Len(source) \in Nat
          BY <1>1
        <5>4. PICK l \in Nat, s \in Nat : l = Len(c.records) /\ s = Len(source)
          BY <5>1, <5>3
        <5>7. 1 \in 1..l /\ (k + 1) + l - 1 <= s
          BY <4>1, <5>1, <5>2, <5>4, Zenon
        <5>5. l >= 1 /\ k + 1 + l - 1 <= s
          BY <5>7
        <5>6. k + 1 <= s
          BY <5>5
        <5> QED
          BY <5>1, <5>2, <5>3, <5>4, <5>6
      <4>4. source[k + 1].after = source[k].branch
        <5>1. k + 1 \in 2..Len(source) /\ (k + 1) - 1 = k
          BY <4>1, <4>3
        <5> QED
          BY <5>1 DEF Chain
      <4>5. LastBranch(mirrored') = mirrored'[k].branch
        BY <1>7, <2>4, <4>0, LastOf
      <4> QED
        BY <3>2, <4>2, <4>3, <4>4, <4>5
    <3> QED
      BY <1>4, <3>1, <3>2
  <2> QED
    BY <1>1, <2>2, <2>3, <2>4 DEF Unmixed
<1> QED
  BY <1>8, <1>9, <1>11, <1>12, <1>14, <1>15

\* An answer changes nothing the mirror holds.
LEMMA AnswerStep ==
  ASSUME ReconcileInv, NEW status, NEW tick, NEW count, NEW of,
         told' = [status |-> status, tick |-> tick, count |-> count, of |-> of, branch |-> branch],
         UNCHANGED <<source, branch, mirrored, batches, mixed>>,
         status # "diverged",
         of = "mirrored" => count \in Nat /\ count <= Len(mirrored),
         status = "behind" => count \in Nat \ {0} /\ tick = count + 1 /\ tick <= Len(source)
  PROVE  ReconcileInv'
<1> USE DEF ReconcileInv
<1>1. ReconcileTypes' /\ Chain(source')
  BY DEF ReconcileTypes, Chain
<1>2. OneBranch' /\ Reaches' /\ Unmixed'
  BY DEF OneBranch, BatchOfSource, Reaches, Unmixed, Chain, LastBranch
<1>3. told'.status = status /\ told'.tick = tick /\ told'.count = count /\ told'.of = of
  OBVIOUS
<1>4. ToldOK'
  BY <1>3 DEF ToldOK
<1> QED
  BY <1>1, <1>2, <1>4

\* mirror_reconcile compares lengths and the numbers of the records: of two
\* calendars from the genesis on, those of equal length are in sync.
LEMMA ReconcileStep == ASSUME ReconcileInv, handle_mirror_reconcile PROVE ReconcileInv'
<1>1. PICK status : status = ReconcileStatus(source)
  OBVIOUS
<1>2. PICK tick : tick = divergence_tick(status)
  OBVIOUS
<1>3. /\ told' = [status |-> status, tick |-> tick, count |-> Len(mirrored), of |-> "mirrored",
                  branch |-> branch]
      /\ UNCHANGED <<source, branch, mirrored, batches, mixed>>
  BY <1>1, <1>2 DEF handle_mirror_reconcile, Tells, NothingTold
<1>4. mirrored \in Seq(Ticks) /\ source \in Seq(Ticks)
  BY DEF ReconcileInv, ReconcileTypes
<1>5. Len(mirrored) \in Nat /\ Len(source) \in Nat
      /\ DOMAIN mirrored = 1..Len(mirrored) /\ DOMAIN source = 1..Len(source)
  BY <1>4
<1>6. status # "diverged"
  <2>1. Len(mirrored) = Len(source) => compute_hash_sanity(mirrored) = compute_hash_sanity(source)
    BY <1>5 DEF compute_hash_sanity
  <2>2. Len(mirrored) = Len(source) \/ Len(mirrored) < Len(source) \/ Len(mirrored) > Len(source)
    <3>1. PICK m \in Nat, n \in Nat : m = Len(mirrored) /\ n = Len(source)
      BY <1>5, Zenon
    <3>2. m = n \/ m < n \/ m > n
      OBVIOUS
    <3> QED
      BY <3>1, <3>2, Zenon
  <2> QED
    BY <1>1, <2>1, <2>2 DEF ReconcileStatus
<1>7. status = "behind" => mirrored # << >> /\ Len(mirrored) < Len(source) /\ tick = Len(mirrored) + 1
  BY <1>1, <1>2 DEF ReconcileStatus, divergence_tick
<1>8. status = "behind" => Len(mirrored) \in Nat \ {0} /\ tick = Len(mirrored) + 1 /\ tick <= Len(source)
  BY <1>4, <1>5, <1>7
<1> QED
  BY <1>3, <1>5, <1>6, <1>8, AnswerStep

\* Every other question is answered with a count of what is mirrored, of the
\* mirror's own calendar or of what the caller sent.
LEMMA AskedStep == ASSUME ReconcileInv, Asked PROVE ReconcileInv'
<1>0. Len(mirrored) \in Nat
  BY DEF ReconcileInv, ReconcileTypes
<1>1. ASSUME NEW room \in BOOLEAN, NEW count, NEW of, Accepts(room, count, of),
             of = "mirrored" => count = Len(mirrored)
      PROVE  ReconcileInv'
  <2>1. PICK status, n : /\ status = (IF can_accept_mirror(room) THEN "accept" ELSE "reject")
                         /\ n = (IF can_accept_mirror(room) THEN count ELSE 0)
    OBVIOUS
  <2>2. /\ told' = [status |-> status, tick |-> 0, count |-> n, of |-> of, branch |-> branch]
        /\ UNCHANGED <<source, branch, mirrored, batches, mixed>>
    BY <1>1, <2>1 DEF Accepts, Tells, NothingTold
  <2>3. status # "diverged" /\ status # "behind"
    BY <2>1
  <2>4. of = "mirrored" => n \in Nat /\ n <= Len(mirrored)
    BY <1>0, <1>1, <2>1
  <2> QED
    BY <2>2, <2>3, <2>4, AnswerStep
<1>2. ASSUME NEW status, Counts(status), status # "diverged", status # "behind" PROVE ReconcileInv'
  <2>1. /\ told' = [status |-> status, tick |-> Len(mirrored), count |-> Len(mirrored),
                    of |-> "mirrored", branch |-> branch]
        /\ UNCHANGED <<source, branch, mirrored, batches, mixed>>
    BY <1>2 DEF Counts, Tells, NothingTold, mirror_tick_count
  <2>2. Len(mirrored) <= Len(mirrored)
    BY <1>0
  <2> QED
    BY <1>0, <1>2, <2>1, <2>2, AnswerStep
<1>3. ASSUME NEW count, Echoes(count) PROVE ReconcileInv'
  <2>1. /\ told' = [status |-> "echo", tick |-> 0, count |-> count, of |-> "caller", branch |-> branch]
        /\ UNCHANGED <<source, branch, mirrored, batches, mixed>>
    BY <1>3 DEF Echoes, Tells, NothingTold
  <2>2. "echo" # "diverged" /\ "echo" # "behind" /\ "caller" # "mirrored"
    OBVIOUS
  <2> QED
    BY <2>1, <2>2, AnswerStep
<1>4. CASE handle_mirror_reconcile
  BY <1>4, ReconcileStep
<1>5. CASE handle_history_dump_complete \/ handle_mirror_health_check
  BY <1>2, <1>5 DEF handle_history_dump_complete, handle_mirror_health_check
<1>6. CASE \/ handle_mirror_accept \/ handle_history_dump_ack
           \/ \E n \in DOMAIN source : handle_stream_ack(n)
  BY <1>3, <1>6 DEF handle_mirror_accept, handle_history_dump_ack, handle_stream_ack
<1>7. ASSUME NEW room \in BOOLEAN,
             \/ handle_mirror_request(room) \/ handle_mirror_mutual(room)
             \/ handle_mirror_announce(room)
             \/ \E first, last \in {1, Len(source)} : handle_history_dump_request(room, first, last)
      PROVE  ReconcileInv'
  <2>1. CASE handle_mirror_request(room) \/ handle_mirror_mutual(room)
    BY <1>1, <2>1 DEF handle_mirror_request, handle_mirror_mutual
  <2>2. CASE \/ handle_mirror_announce(room)
             \/ \E first, last \in {1, Len(source)} : handle_history_dump_request(room, first, last)
    BY <1>1, <2>2 DEF handle_mirror_announce, handle_history_dump_request, mirror_tick_count
  <2> QED
    BY <1>7, <2>1, <2>2
<1> QED
  BY <1>4, <1>5, <1>6, <1>7 DEF Asked

\* Every step preserves the invariant.
LEMMA ReconcileInvNext == ReconcileInv /\ [ReconcileNext]_reconcileVars => ReconcileInv'
<1> SUFFICES ASSUME ReconcileInv, [ReconcileNext]_reconcileVars PROVE ReconcileInv'
  OBVIOUS
<1>0. DOMAIN source = 1..Len(source) /\ Len(source) \in Nat
  BY DEF ReconcileInv, ReconcileTypes
<1>1. CASE SourceTicks
  BY <1>1, SourceTicksStep
<1>2. ASSUME NEW n \in DOMAIN source, SourceForks(n) PROVE ReconcileInv'
  BY <1>2, SourceForksStep
<1>3. ASSUME NEW n \in DOMAIN source, handle_stream_tick(n) PROVE ReconcileInv'
  <2>1. n \in 1..Len(source) /\ n \in n..Len(source)
    BY <1>0, <1>3
  <2> QED
    BY <1>3, <2>1, CheckStep DEF handle_stream_tick
<1>4. ASSUME NEW first \in DOMAIN source, NEW last \in DOMAIN source, first < last,
             handle_history_dump_chunk(first, last)
      PROVE ReconcileInv'
  <2>1. first \in 1..Len(source) /\ last \in first..Len(source)
    BY <1>0, <1>4
  <2> QED
    BY <1>4, <2>1, CheckStep DEF handle_history_dump_chunk
<1>5. ASSUME NEW first \in DOMAIN source, NEW count \in 1..MaxSourceTicks,
             handle_ship_batch(first, count)
      PROVE ReconcileInv'
  BY <1>5, ShipBatchStep
<1>6. ASSUME NEW b \in batches, handle_ship_ack(b) \/ insert_mirrored(b) PROVE ReconcileInv'
  BY <1>6, ShipAckStep, InsertStep
<1>7. CASE Asked
  BY <1>7, AskedStep
<1>8. CASE UNCHANGED reconcileVars
  <2>1. UNCHANGED <<source, branch, mirrored, batches, told, mixed>>
    BY <1>8 DEF reconcileVars
  <2>2. ReconcileTypes' /\ Chain(source')
    BY <2>1 DEF ReconcileInv, ReconcileTypes, Chain
  <2>3. OneBranch' /\ Reaches' /\ Unmixed' /\ ToldOK'
    BY <2>1 DEF ReconcileInv, OneBranch, BatchOfSource, Reaches, Unmixed, Chain, LastBranch, ToldOK
  <2> QED
    BY <2>2, <2>3 DEF ReconcileInv
<1> QED
  BY <1>1, <1>2, <1>3, <1>4, <1>5, <1>6, <1>7, <1>8 DEF ReconcileNext

\* What the answers promise follows.
LEMMA ReconcileInvSuffices == ReconcileInv => ReconcileMeans
<1> SUFFICES ASSUME ReconcileInv PROVE ReconcileMeans
  OBVIOUS
<1>0. /\ source \in Seq(Ticks) /\ mirrored \in Seq(Ticks)
      /\ DOMAIN source = 1..Len(source) /\ Len(source) \in Nat
      /\ DOMAIN mirrored = 1..Len(mirrored) /\ Len(mirrored) \in Nat
  BY DEF ReconcileInv, ReconcileTypes
<1>1. told.status # "diverged" /\ (told.of = "mirrored" => told.count <= Len(mirrored))
  BY DEF ReconcileInv, ToldOK
<1>2. branch = 0 => mirrored = SubSeq(source, 1, Len(mirrored))
  <2> SUFFICES ASSUME branch = 0 PROVE mirrored = SubSeq(source, 1, Len(mirrored))
    OBVIOUS
  <2>1. PICK m \in Nat : m = Len(mirrored)
    BY <1>0
  <2>2. m <= Len(source) /\ \A i \in 1..m : mirrored[i] = source[i]
    BY <2>1 DEF ReconcileInv, OneBranch
  <2>3. PICK r : r = SubSeq(source, 1, m)
    OBVIOUS
  <2>4. \A i \in 1..m : source[i] \in Ticks
    BY <1>0, <2>2
  <2>5. r \in Seq(Ticks) /\ Len(r) = m /\ \A i \in 1..m : r[i] = source[i]
    BY <2>3, <2>4, SubSeqProperties, Z3
  <2>6. mirrored = r
    BY <1>0, <2>1, <2>2, <2>5
  <2> QED
    BY <2>1, <2>3, <2>6
<1>3. ~mixed => integrity_check(mirrored, 1, Len(mirrored))
  <2> SUFFICES ASSUME ~mixed, NEW n \in DOMAIN mirrored, 1 < n PROVE verify_pair(mirrored, n)
    BY DEF integrity_check
  <2>1. n \in 2..Len(mirrored)
    BY <1>0
  <2> QED
    BY <2>1 DEF ReconcileInv, Unmixed, Chain, verify_pair
<1>4. \A start \in 0..Len(source), end \in DOMAIN source : handle_integrity_check(start, end).all_valid
  <2>1. \A n \in 2..Len(source) : verify_pair(source, n)
    BY DEF ReconcileInv, Chain, verify_pair
  <2>2. \A start, end : chronomatter_integrity_check(start, end) = {}
    BY <2>1 DEF chronomatter_integrity_check
  <2> QED
    BY <2>2 DEF handle_integrity_check
<1>5. ASSUME told.status = "behind", branch = 0, told.count = Len(mirrored)
      PROVE told.tick \in DOMAIN source /\ Follows(told.tick, source[told.tick])
  <2>1. PICK k \in Nat : k = Len(mirrored)
    BY <1>0
  <2>2. told.tick = k + 1 /\ k # 0 /\ k + 1 <= Len(source)
    BY <1>5, <2>1 DEF ReconcileInv, ToldOK
  <2>3. mirrored # << >> /\ LastBranch(mirrored) = mirrored[k].branch
    <3>1. mirrored # << >>
      BY <2>1, <2>2
    <3> QED
      BY <1>0, <2>1, <3>1, LastOf
  <2>4. mirrored[k] = source[k]
    <3>1. k \in 1..Len(mirrored)
      BY <2>1, <2>2
    <3> QED
      BY <1>5, <3>1 DEF ReconcileInv, OneBranch
  <2>5. source[k + 1].after = source[k].branch
    <3>1. k + 1 \in 2..Len(source) /\ (k + 1) - 1 = k
      BY <1>0, <2>2
    <3> QED
      BY <3>1 DEF ReconcileInv, Chain
  <2>6. Follows(k + 1, source[k + 1])
    BY <2>1, <2>3, <2>4, <2>5 DEF Follows
  <2> QED
    BY <1>0, <2>2, <2>6
<1> QED
  BY <1>1, <1>2, <1>3, <1>4, <1>5 DEF ReconcileMeans

\* Whatever crashes, races and requests come between, the answers of a mirror mean
\* what the source takes them to mean, and it holds one chain from the genesis.
THEOREM MirrorAnswersMean == ReconcileSpec => []ReconcileMeans
BY ReconcileInvInit, ReconcileInvNext, ReconcileInvSuffices, PTL DEF ReconcileSpec

-----------------------------------------------------------------------------
(* Mutual attestation                                                        *)

TaskKinds == {"chronon", "epoch", "verify"}
WorkerSteps == {"idle", "latest", "slice", "stamp", "transmit", "recorded"}
WorkerStates ==
  [pc : WorkerSteps, kind : TaskKinds \cup {"none"}, tbid : TbidHex \cup {"none"},
   local : Nat, latest : Nat, tries : 0..2]
LocalStamps == [kind : TaskKinds \cup {"none"}, tbid : TbidHex \cup {"none"}]
RemoteStamps == [over : Nat, echo : (TaskKinds \cup {"none"}) \X Nat, number : {1, 2}]

AttestationTypes ==
  /\ tasks \in Seq([kind : TaskKinds, tbid : TbidHex]) /\ queued \in Nat
  /\ worker \in [Workers -> WorkerStates]
  /\ local_stamps \in Seq(LocalStamps) /\ remote_stamps \in Seq(RemoteStamps)
  /\ IsFiniteSet(in_flight)

\* A request, on its way or served, is for a local stamp, names its kind, and was
\* signed.
RequestFor(over, echo) ==
  /\ over \in DOMAIN local_stamps /\ echo = <<local_stamps[over].kind, over>> /\ "key" \in wired
RequestsSigned ==
  /\ \A q \in in_flight : RequestFor(q.over, q.echo)
  /\ \A r \in DOMAIN remote_stamps : RequestFor(remote_stamps[r].over, remote_stamps[r].echo)

\* A worker that transmits has a local stamp of its own that is not attested yet.
Transmitting == {w \in Workers : worker[w].pc = "transmit"}
TransmitsOwn ==
  /\ \A w \in Transmitting :
       /\ worker[w].local \in DOMAIN local_stamps /\ "key" \in wired
       /\ worker[w].kind = local_stamps[worker[w].local].kind
       /\ \A c \in completed : c.local # worker[w].local
  /\ \A w, v \in Transmitting : worker[w].local = worker[v].local => w = v

\* A completed attestation pairs a local stamp with a remote one over it.
PairsMatch ==
  /\ \A c \in completed : /\ c.local \in DOMAIN local_stamps /\ c.remote \in DOMAIN remote_stamps
                          /\ remote_stamps[c.remote].over = c.local
  /\ \A c, d \in completed : c.local = d.local => c.remote = d.remote

\* A local stamp is sent as often as its worker tried, and no more than twice.
ServedFor(l) == {r \in DOMAIN remote_stamps : remote_stamps[r].over = l}
OnTheWayFor(l) == {q \in in_flight : q.over = l}
SentFor(l) == Cardinality(ServedFor(l)) + Cardinality(OnTheWayFor(l))
TriesBound ==
  /\ \A l \in DOMAIN local_stamps : SentFor(l) <= 2
  /\ \A w \in Transmitting : SentFor(worker[w].local) <= worker[w].tries

\* Every task queued is waiting, under way or has made its stamp at most once.
UnderWay == {w \in Workers : worker[w].pc \in {"latest", "stamp"}}
TasksBound == Len(tasks) + Cardinality(UnderWay) + Len(local_stamps) <= queued

SlicesInside ==
  \A f \in fetched : 1 <= f.start /\ 1 <= f.count /\ f.start + f.count - 1 <= f.latest

AttestationInv ==
  /\ AttestationTypes /\ RequestsSigned /\ TransmitsOwn /\ PairsMatch /\ TriesBound
  /\ TasksBound /\ SlicesInside

\* A worker that changes its state enters or leaves the workers under way alone.
LEMMA UnderWayMoves ==
  ASSUME AttestationTypes, NEW w \in Workers, NEW s \in WorkerStates,
         worker' = [worker EXCEPT ![w] = s]
  PROVE  /\ Cardinality(UnderWay) \in Nat /\ Cardinality(UnderWay') \in Nat
         /\ Cardinality(UnderWay') <= Cardinality(UnderWay) + 1
         /\ w \in UnderWay \/ s.pc \notin {"latest", "stamp"} =>
              Cardinality(UnderWay') <= Cardinality(UnderWay)
         /\ w \in UnderWay /\ s.pc \notin {"latest", "stamp"} =>
              Cardinality(UnderWay') = Cardinality(UnderWay) - 1
<1>0. worker \in [Workers -> WorkerStates]
  BY DEF AttestationTypes
<1>1. PICK U, V : U = UnderWay /\ V = UnderWay'
  OBVIOUS
<1>2. \A v \in Workers : worker'[v] = IF v = w THEN s ELSE worker[v]
  BY <1>0
<1>3. V = IF s.pc \in {"latest", "stamp"} THEN U \cup {w} ELSE U \ {w}
  BY <1>1, <1>2 DEF UnderWay
<1>4. IsFiniteSet(U)
  <2>1. U \subseteq Workers
    BY <1>1 DEF UnderWay
  <2> QED
    BY <2>1, FS_Subset, PoolAssumption, Zenon
<1>5. /\ Cardinality(U) \in Nat
      /\ Cardinality(U \cup {w}) = IF w \in U THEN Cardinality(U) ELSE Cardinality(U) + 1
      /\ Cardinality(U \ {w}) = IF w \in U THEN Cardinality(U) - 1 ELSE Cardinality(U)
  BY <1>4, FS_CardinalityType, FS_AddElement, FS_RemoveElement, Zenon
<1>6. /\ Cardinality(U) \in Nat /\ Cardinality(V) \in Nat
      /\ Cardinality(V) <= Cardinality(U) + 1
      /\ w \in U \/ s.pc \notin {"latest", "stamp"} => Cardinality(V) <= Cardinality(U)
      /\ w \in U /\ s.pc \notin {"latest", "stamp"} => Cardinality(V) = Cardinality(U) - 1
  <2>1. w \in U => Cardinality(U) # 0
    BY <1>4, FS_EmptySet
  <2>2. CASE s.pc \in {"latest", "stamp"}
    <3>1. Cardinality(V) = IF w \in U THEN Cardinality(U) ELSE Cardinality(U) + 1
      BY <1>3, <1>5, <2>2
    <3> QED
      BY <1>5, <2>2, <3>1
  <2>3. CASE s.pc \notin {"latest", "stamp"}
    <3>1. Cardinality(V) = IF w \in U THEN Cardinality(U) - 1 ELSE Cardinality(U)
      BY <1>3, <1>5, <2>3
    <3> QED
      BY <1>5, <2>1, <2>3, <3>1
  <2> QED
    BY <2>2, <2>3
<1> QED
  BY <1>1, <1>6, Zenon

\* A step that makes no stamp and sends nothing, after which its worker does not
\* transmit.
LEMMA WorkerMoves ==
  ASSUME AttestationInv, NEW w \in Workers, NEW s \in WorkerStates,
         worker' = [worker EXCEPT ![w] = s], s.pc # "transmit",
         UNCHANGED <<wired, local_stamps, in_flight, remote_stamps, completed>>,
         tasks' \in Seq([kind : TaskKinds, tbid : TbidHex]), queued' \in Nat,
         TasksBound', SlicesInside'
  PROVE  AttestationInv'
<1> USE DEF AttestationInv
<1>0. worker \in [Workers -> WorkerStates]
  BY DEF AttestationTypes
<1>1. AttestationTypes'
  BY DEF AttestationTypes
<1>2. RequestsSigned'
  BY DEF RequestsSigned, RequestFor
<1>3. Transmitting' = Transmitting \ {w} /\ \A v \in Transmitting' : worker'[v] = worker[v]
  BY <1>0 DEF Transmitting
<1>4. TransmitsOwn' /\ PairsMatch'
  BY <1>3 DEF TransmitsOwn, PairsMatch
<1>5. TriesBound'
  <2>1. \A l : SentFor(l)' = SentFor(l)
    BY DEF SentFor, ServedFor, OnTheWayFor
  <2> QED
    BY <1>3, <2>1 DEF TriesBound
<1> QED
  BY <1>1, <1>2, <1>4, <1>5

\* Nothing is under way before the pool starts.
LEMMA AttestationInvInit == AttestationInit => AttestationInv
<1> SUFFICES ASSUME AttestationInit PROVE AttestationInv
  OBVIOUS
<1>0. /\ tasks = << >> /\ queued = 0 /\ worker = [w \in Workers |-> AtRest]
      /\ local_stamps = << >> /\ in_flight = {} /\ remote_stamps = << >>
      /\ completed = {} /\ fetched = {}
  BY DEF AttestationInit
<1>1. AtRest \in WorkerStates /\ AtRest.pc = "idle"
  BY DEF AtRest, WorkerStates, WorkerSteps
<1>2. AttestationTypes
  BY <1>0, <1>1, FS_EmptySet DEF AttestationTypes
<1>3. Transmitting = {} /\ UnderWay = {}
  BY <1>0, <1>1 DEF Transmitting, UnderWay
<1>4. DOMAIN local_stamps = {} /\ DOMAIN remote_stamps = {} /\ Len(tasks) = 0 /\ Len(local_stamps) = 0
  BY <1>0
<1>5. RequestsSigned /\ TransmitsOwn /\ PairsMatch /\ TriesBound /\ SlicesInside
  BY <1>0, <1>3, <1>4 DEF RequestsSigned, TransmitsOwn, PairsMatch, TriesBound, SlicesInside
<1>6. TasksBound
  BY <1>0, <1>3, <1>4, FS_EmptySet DEF TasksBound
<1> QED
  BY <1>2, <1>5, <1>6 DEF AttestationInv

\* A task is queued, or the chronomatter goes dormant.
LEMMA QueueStep ==
  ASSUME AttestationInv,
         UNCHANGED <<wired, worker, local_stamps, in_flight, remote_stamps, completed, fetched>>,
         \/ \E kind \in TaskKinds, tbid \in TbidHex : enqueue_task(kind, tbid)
         \/ UNCHANGED <<tasks, queued>>
  PROVE  AttestationInv'
<1> USE DEF AttestationInv
<1>1. tasks' \in Seq([kind : TaskKinds, tbid : TbidHex]) /\ queued' \in Nat /\ TasksBound'
  <2>0. UnderWay' = UnderWay /\ tasks \in Seq([kind : TaskKinds, tbid : TbidHex]) /\ queued \in Nat
        /\ Len(local_stamps) \in Nat
    BY DEF UnderWay, AttestationTypes
  <2>1. CASE UNCHANGED <<tasks, queued>>
    BY <2>0, <2>1 DEF TasksBound
  <2>2. ASSUME NEW kind \in TaskKinds, NEW tbid \in TbidHex, enqueue_task(kind, tbid)
        PROVE  tasks' \in Seq([kind : TaskKinds, tbid : TbidHex]) /\ queued' \in Nat /\ TasksBound'
    <3>1. PICK t \in [kind : TaskKinds, tbid : TbidHex] : t = [kind |-> kind, tbid |-> tbid]
      OBVIOUS
    <3>2. tasks' = Append(tasks, t) /\ queued' = queued + 1
      BY <2>2, <3>1 DEF enqueue_task
    <3>3. tasks' \in Seq([kind : TaskKinds, tbid : TbidHex]) /\ Len(tasks') = Len(tasks) + 1
      BY <2>0, <3>2, AppendProperties
    <3>4. Cardinality(UnderWay) \in Nat /\ Len(tasks) \in Nat
      <4>1. IsFiniteSet(UnderWay)
        <5>1. UnderWay \subseteq Workers
          BY DEF UnderWay
        <5> QED
          BY <5>1, FS_Subset, PoolAssumption, Zenon
      <4> QED
        BY <2>0, <4>1, FS_CardinalityType
    <3>5. PICK a \in Nat, b \in Nat, c \in Nat :
            a = Cardinality(UnderWay) /\ b = Len(tasks) /\ c = Len(local_stamps)
      BY <2>0, <3>4
    <3>6. b + a + c <= queued
      BY <3>5 DEF TasksBound
    <3>7. (b + 1) + a + c <= queued + 1
      BY <2>0, <3>6
    <3>8. TasksBound'
      BY <2>0, <3>2, <3>3, <3>5, <3>7 DEF TasksBound
    <3> QED
      BY <2>0, <3>2, <3>3, <3>8
  <2> QED
    BY <2>1, <2>2
<1>2. AttestationTypes'
  BY <1>1 DEF AttestationTypes
<1>3. Transmitting' = Transmitting
  BY DEF Transmitting
<1>4. RequestsSigned' /\ TransmitsOwn' /\ PairsMatch' /\ SlicesInside'
  BY <1>3 DEF RequestsSigned, RequestFor, TransmitsOwn, PairsMatch, SlicesInside
<1>5. TriesBound'
  <2>1. \A l : SentFor(l)' = SentFor(l)
    BY DEF SentFor, ServedFor, OnTheWayFor
  <2> QED
    BY <1>3, <2>1 DEF TriesBound
<1> QED
  BY <1>1, <1>2, <1>4, <1>5

\* Fewer workers under way and no more tasks keep the count of tasks.
LEMMA TasksFrame ==
  ASSUME AttestationInv, NEW w \in Workers, NEW s \in WorkerStates,
         worker' = [worker EXCEPT ![w] = s], UNCHANGED <<local_stamps, queued>>,
         \/ tasks' = tasks /\ (w \in UnderWay \/ s.pc \notin {"latest", "stamp"})
         \/ Len(tasks') = Len(tasks) - 1
  PROVE  TasksBound'
<1>1. PICK a \in Nat, b \in Nat, c \in Nat, d \in Nat, e \in Nat :
        /\ a = Cardinality(UnderWay) /\ b = Len(tasks) /\ c = Len(local_stamps)
        /\ d = Cardinality(UnderWay') /\ e = queued
  <2>1. Len(tasks) \in Nat /\ Len(local_stamps) \in Nat /\ queued \in Nat /\ AttestationTypes
    BY DEF AttestationInv, AttestationTypes
  <2> QED
    BY <2>1, UnderWayMoves, Zenon
<1>2. b + a + c <= e
  BY <1>1 DEF AttestationInv, TasksBound
<1>3. d <= a + 1 /\ (w \in UnderWay \/ s.pc \notin {"latest", "stamp"} => d <= a)
  <2>1. AttestationTypes
    BY DEF AttestationInv
  <2> QED
    BY <1>1, <2>1, UnderWayMoves, Zenon
<1>4. CASE tasks' = tasks /\ (w \in UnderWay \/ s.pc \notin {"latest", "stamp"})
  <2>1. b + d + c <= e
    BY <1>2, <1>3, <1>4
  <2> QED
    BY <1>1, <1>4, <2>1 DEF TasksBound
<1>5. CASE Len(tasks') = Len(tasks) - 1
  <2>1. (b - 1) + d + c <= e
    BY <1>2, <1>3
  <2> QED
    BY <1>1, <1>5, <2>1 DEF TasksBound
<1> QED
  BY <1>4, <1>5

\* A worker takes a task, or drops it where the pool lacks what it needs.
LEMMA HandleTaskStep == ASSUME AttestationInv, NEW w \in Workers, handle_task(w) PROVE AttestationInv'
<1>1. /\ worker[w].pc = "idle" /\ tasks # << >> /\ tasks' = Tail(tasks)
      /\ UNCHANGED <<wired, queued, local_stamps, in_flight, remote_stamps, completed, fetched>>
      /\ worker \in [Workers -> WorkerStates] /\ queued \in Nat
      /\ tasks \in Seq([kind : TaskKinds, tbid : TbidHex])
  BY DEF handle_task, AtStep, StampsKept, AttestationInv, AttestationTypes
<1>2. PICK t : t = Head(tasks)
  OBVIOUS
<1>3. /\ t \in [kind : TaskKinds, tbid : TbidHex] /\ Len(tasks') = Len(tasks) - 1
      /\ tasks' \in Seq([kind : TaskKinds, tbid : TbidHex])
  BY <1>1, <1>2, HeadTailProperties
<1>4. PICK s \in WorkerStates : s.pc # "transmit" /\ worker' = [worker EXCEPT ![w] = s]
  <2>1. PICK r : r = [AtRest EXCEPT !.pc = "latest", !.kind = t.kind, !.tbid = t.tbid]
    OBVIOUS
  <2>2. r \in WorkerStates /\ r.pc = "latest"
    <3>1. PICK k \in TaskKinds, b \in TbidHex : k = t.kind /\ b = t.tbid
      BY <1>3
    <3>2. r = [pc |-> "latest", kind |-> k, tbid |-> b, local |-> 0, latest |-> 0, tries |-> 0]
      BY <2>1, <3>1 DEF AtRest
    <3> QED
      BY <3>2 DEF WorkerStates, WorkerSteps
  <2>3. CASE worker' = [worker EXCEPT ![w] = r]
    BY <2>2, <2>3
  <2>4. CASE worker' = worker
    <3>1. worker[w] \in WorkerStates /\ worker = [worker EXCEPT ![w] = worker[w]]
      BY <1>1
    <3> QED
      BY <1>1, <2>4, <3>1
  <2> QED
    BY <1>2, <2>1, <2>3, <2>4 DEF handle_task
<1>5. TasksBound'
  BY <1>1, <1>3, <1>4, TasksFrame
<1>6. SlicesInside' /\ queued' \in Nat
  BY <1>1 DEF AttestationInv, SlicesInside
<1> QED
  BY <1>1, <1>3, <1>4, <1>5, <1>6, WorkerMoves

\* A worker's task ends, or the target's latest record arrived.
LEMMA WorkerStep ==
  ASSUME AttestationInv, NEW w \in Workers,
         \/ LatestFails(w) \/ FetchedLatest(w) \/ get_target_latest_epoch(w)
         \/ get_verify_latest_chronon(w) \/ SliceAnswered(w) \/ TransmitFails(w)
         \/ verify_chronon_attestation_recorded(w)
  PROVE  AttestationInv'
<1>1. /\ UNCHANGED <<wired, tasks, queued, local_stamps, in_flight, remote_stamps, completed>>
      /\ worker \in [Workers -> WorkerStates] /\ queued \in Nat
      /\ tasks \in Seq([kind : TaskKinds, tbid : TbidHex])
  BY DEF LatestFails, FetchedLatest, get_target_latest_epoch, get_verify_latest_chronon,
         SliceAnswered, TransmitFails, verify_chronon_attestation_recorded, StampsKept,
         AttestationInv, AttestationTypes
<1>2. AtRest \in WorkerStates /\ AtRest.pc = "idle"
  BY DEF AtRest, WorkerStates, WorkerSteps
<1>3. PICK s \in WorkerStates :
        /\ s.pc # "transmit" /\ worker' = [worker EXCEPT ![w] = s]
        /\ w \in UnderWay \/ s.pc \notin {"latest", "stamp"}
  <2>1. CASE Ends(w)
    BY <1>2, <2>1 DEF Ends
  <2>2. CASE FetchedLatest(w) \/ get_target_latest_epoch(w) \/ get_verify_latest_chronon(w)
    <3>1. w \in UnderWay
      BY <2>2 DEF FetchedLatest, get_target_latest_epoch, get_verify_latest_chronon, AtStep, UnderWay
    <3>2. worker'[w] \in WorkerStates /\ worker'[w].pc # "transmit"
          /\ worker' = [worker EXCEPT ![w] = worker'[w]]
      <4>1. \/ worker' = [worker EXCEPT ![w].pc = "stamp", ![w].latest = 1]
            \/ worker' = [worker EXCEPT ![w].pc = "slice", ![w].latest = 1]
            \/ worker' = [worker EXCEPT ![w].pc = "stamp"]
        BY <2>2, Zenon DEF FetchedLatest, get_target_latest_epoch, get_verify_latest_chronon, Goes
      <4>2. /\ [worker[w] EXCEPT !.pc = "stamp", !.latest = 1] \in WorkerStates
            /\ [worker[w] EXCEPT !.pc = "slice", !.latest = 1] \in WorkerStates
            /\ [worker[w] EXCEPT !.pc = "stamp"] \in WorkerStates
        <5>1. PICK s : s = worker[w]
          OBVIOUS
        <5>2. s \in WorkerStates /\ 1 \in Nat /\ "stamp" \in WorkerSteps /\ "slice" \in WorkerSteps
          BY <1>1, <5>1 DEF WorkerSteps
        <5>3. /\ [s EXCEPT !.pc = "stamp", !.latest = 1] \in WorkerStates
              /\ [s EXCEPT !.pc = "slice", !.latest = 1] \in WorkerStates
              /\ [s EXCEPT !.pc = "stamp"] \in WorkerStates
          BY <5>2 DEF WorkerStates
        <5> QED
          BY <5>1, <5>3
      <4>3. CASE worker' = [worker EXCEPT ![w].pc = "stamp", ![w].latest = 1]
        <5>1. worker'[w] = [worker[w] EXCEPT !.pc = "stamp", !.latest = 1]
          BY <1>1, <4>3
        <5>2. worker'[w].pc = "stamp"
          BY <1>1, <5>1 DEF WorkerStates
        <5> QED
          BY <1>1, <4>2, <4>3, <5>1, <5>2
      <4>4. CASE worker' = [worker EXCEPT ![w].pc = "slice", ![w].latest = 1]
        <5>1. worker'[w] = [worker[w] EXCEPT !.pc = "slice", !.latest = 1]
          BY <1>1, <4>4
        <5>2. worker'[w].pc = "slice"
          BY <1>1, <5>1 DEF WorkerStates
        <5> QED
          BY <1>1, <4>2, <4>4, <5>1, <5>2
      <4>5. CASE worker' = [worker EXCEPT ![w].pc = "stamp"]
        <5>1. worker'[w] = [worker[w] EXCEPT !.pc = "stamp"]
          BY <1>1, <4>5
        <5>2. worker'[w].pc = "stamp"
          BY <1>1, <5>1 DEF WorkerStates
        <5> QED
          BY <1>1, <4>2, <4>5, <5>1, <5>2
      <4> QED
        BY <4>1, <4>3, <4>4, <4>5
    <3> QED
      BY <3>1, <3>2
  <2> QED
    BY <2>1, <2>2 DEF LatestFails, SliceAnswered, TransmitFails, verify_chronon_attestation_recorded
<1>4. TasksBound'
  BY <1>1, <1>3, TasksFrame
<1>5. SlicesInside'
  <2>1. CASE fetched' = fetched
    BY <2>1 DEF AttestationInv, SlicesInside
  <2>2. CASE get_verify_latest_chronon(w)
    <3>1. PICK f \in pick_verify_range(1) : fetched' = fetched \cup {f}
      BY <2>2 DEF get_verify_latest_chronon
    <3>2. f.latest = 1 /\ f.start = 1 /\ f.count = 1
      BY <3>1, MaxVerifyRecordsAssumption DEF pick_verify_range
    <3>3. 1 <= f.start /\ 1 <= f.count /\ f.start + f.count - 1 <= f.latest
      BY <3>2
    <3> QED
      BY <3>1, <3>3 DEF AttestationInv, SlicesInside
  <2> QED
    BY <2>1, <2>2 DEF LatestFails, FetchedLatest, get_target_latest_epoch, SliceAnswered,
                      TransmitFails, verify_chronon_attestation_recorded
<1> QED
  BY <1>1, <1>3, <1>4, <1>5, WorkerMoves

\* The cardinalities in SentFor are those of finite sets.
LEMMA SentFinite ==
  ASSUME AttestationTypes, NEW l
  PROVE  /\ IsFiniteSet(ServedFor(l)) /\ IsFiniteSet(OnTheWayFor(l))
         /\ Cardinality(ServedFor(l)) \in Nat /\ Cardinality(OnTheWayFor(l)) \in Nat
         /\ SentFor(l) \in Nat
<1>1. Len(remote_stamps) \in Nat /\ DOMAIN remote_stamps = 1..Len(remote_stamps)
  BY DEF AttestationTypes
<1>2. IsFiniteSet(DOMAIN remote_stamps)
  BY <1>1, FS_Interval
<1>3. ServedFor(l) \subseteq DOMAIN remote_stamps /\ OnTheWayFor(l) \subseteq in_flight
  BY DEF ServedFor, OnTheWayFor
<1>4. IsFiniteSet(ServedFor(l)) /\ IsFiniteSet(OnTheWayFor(l))
  BY <1>2, <1>3, FS_Subset DEF AttestationTypes
<1>5. Cardinality(ServedFor(l)) \in Nat /\ Cardinality(OnTheWayFor(l)) \in Nat
  BY <1>4, FS_CardinalityType
<1> QED
  BY <1>4, <1>5 DEF SentFor

\* A local stamp is made; with the calendar's key its worker goes on to transmit it.
LEMMA StampAndSignStep ==
  ASSUME AttestationInv, NEW w \in Workers, stamp_and_sign(w) PROVE AttestationInv'
<1> USE DEF AttestationInv
<1>1. /\ worker[w].pc = "stamp" /\ w \in UnderWay
      /\ UNCHANGED <<wired, tasks, queued, in_flight, remote_stamps, completed, fetched>>
      /\ worker \in [Workers -> WorkerStates] /\ queued \in Nat
      /\ tasks \in Seq([kind : TaskKinds, tbid : TbidHex]) /\ local_stamps \in Seq(LocalStamps)
  BY DEF stamp_and_sign, AtStep, UnderWay, AttestationTypes
<1>2. AtRest \in WorkerStates /\ AtRest.pc = "idle"
  BY DEF AtRest, WorkerStates, WorkerSteps
<1>3. CASE Ends(w) /\ UNCHANGED local_stamps
  <2>1. worker' = [worker EXCEPT ![w] = AtRest]
    BY <1>3 DEF Ends
  <2>2. TasksBound'
    BY <1>1, <1>2, <1>3, <2>1, TasksFrame
  <2>3. SlicesInside'
    BY <1>1 DEF SlicesInside
  <2> QED
    BY <1>1, <1>2, <1>3, <2>1, <2>2, <2>3, WorkerMoves
<1>4. CASE local_stamps' = Append(local_stamps, StampContent(worker[w].kind, worker[w].tbid))
           /\ IF sign_with_calendar_key
              THEN worker' = [worker EXCEPT ![w].pc = "transmit", ![w].local = Len(local_stamps) + 1]
              ELSE Ends(w)
  <2>1. PICK k, b : k = worker[w].kind /\ b = worker[w].tbid
    OBVIOUS
  <2>2. k \in TaskKinds \cup {"none"} /\ b \in TbidHex \cup {"none"}
    BY <1>1, <2>1 DEF WorkerStates
  <2>3. PICK c : c = StampContent(k, b)
    OBVIOUS
  <2>4. c \in LocalStamps /\ c.kind = k
    BY <2>2, <2>3 DEF StampContent, LocalStamps
  <2>5. PICK n \in Nat : n = Len(local_stamps)
    BY <1>1
  <2>6. /\ local_stamps' \in Seq(LocalStamps) /\ Len(local_stamps') = n + 1
        /\ \A i \in 1..n : local_stamps'[i] = local_stamps[i]
        /\ local_stamps'[n + 1] = c
        /\ DOMAIN local_stamps = 1..n /\ DOMAIN local_stamps' = 1..n + 1
    BY <1>1, <1>4, <2>1, <2>3, <2>4, <2>5, AppendProperties
  <2>7. PICK s \in WorkerStates :
          /\ worker' = [worker EXCEPT ![w] = s] /\ s.pc \notin {"latest", "stamp"}
          /\ s.pc = "transmit" => s.local = n + 1 /\ s.kind = k /\ "key" \in wired
    <3>1. CASE Ends(w)
      BY <1>2, <3>1 DEF Ends
    <3>2. CASE sign_with_calendar_key
      <4>1. PICK r : r = worker[w]
        OBVIOUS
      <4>2. r \in WorkerStates /\ r.kind = k
        BY <1>1, <2>1, <4>1
      <4>3. PICK s : s = [r EXCEPT !.pc = "transmit", !.local = n + 1]
        OBVIOUS
      <4>4. s \in WorkerStates /\ s.pc = "transmit" /\ s.local = n + 1 /\ s.kind = k
        <5>1. n + 1 \in Nat /\ "transmit" \in WorkerSteps
          BY DEF WorkerSteps
        <5> QED
          BY <4>2, <4>3, <5>1 DEF WorkerStates
      <4>5. worker' = [worker EXCEPT ![w] = s]
        BY <1>1, <1>4, <2>5, <3>2, <4>1, <4>3
      <4> QED
        BY <3>2, <4>4, <4>5 DEF sign_with_calendar_key
    <3> QED
      BY <1>4, <3>1, <3>2
  <2>8. \A v \in Workers : worker'[v] = IF v = w THEN s ELSE worker[v]
    BY <1>1, <2>7
  <2>9. AttestationTypes'
    <3>1. worker' \in [Workers -> WorkerStates]
      BY <1>1, <2>7
    <3> QED
      BY <1>1, <2>6, <3>1 DEF AttestationTypes
  <2>10. RequestsSigned'
    <3>1. ASSUME NEW over, NEW echo, RequestFor(over, echo) PROVE RequestFor(over, echo)'
      BY <1>1, <2>6, <3>1 DEF RequestFor
    <3> QED
      BY <1>1, <3>1 DEF RequestsSigned
  <2>11. \A q \in in_flight : q.over \in 1..n
    BY <2>6 DEF RequestsSigned, RequestFor
  <2>12. \A r \in DOMAIN remote_stamps : remote_stamps[r].over \in 1..n
    BY <2>6 DEF RequestsSigned, RequestFor
  <2>13. Transmitting' \subseteq Transmitting \cup {w}
         /\ \A v \in Transmitting' : v # w => worker'[v] = worker[v] /\ v \in Transmitting
         /\ (w \in Transmitting' => worker'[w] = s /\ s.pc = "transmit")
    BY <2>8 DEF Transmitting
  <2>18. w \in Transmitting' => /\ worker'[w].local = n + 1 /\ worker'[w].kind = k /\ "key" \in wired
                                /\ worker'[w].tries \in 0..2
    <3>1. s.tries \in 0..2
      BY <2>7 DEF WorkerStates
    <3>2. s.pc = "transmit" => s.local = n + 1 /\ s.kind = k /\ "key" \in wired
      BY <2>7, Zenon
    <3>3. w \in Transmitting' => worker'[w] = s /\ s.pc = "transmit"
      BY <2>8 DEF Transmitting
    <3> SUFFICES ASSUME w \in Transmitting'
                 PROVE  /\ worker'[w].local = n + 1 /\ worker'[w].kind = k /\ "key" \in wired
                        /\ worker'[w].tries \in 0..2
      OBVIOUS
    <3>4. worker'[w] = s
      BY <3>3, Zenon
    <3>5. s.local = n + 1 /\ s.kind = k /\ "key" \in wired
      BY <3>2, <3>3, Zenon
    <3> QED
      BY <3>1, <3>4, <3>5
  <2>14. PairsMatch' /\ SlicesInside'
    BY <1>1, <2>6 DEF PairsMatch, SlicesInside
  <2>15. TransmitsOwn'
    <3>1. \A d \in completed : d.local \in 1..n
      BY <2>6 DEF PairsMatch
    <3>2. \A v \in Transmitting : worker[v].local \in 1..n
      BY <2>6 DEF TransmitsOwn
    <3>3. ASSUME NEW v \in Transmitting'
          PROVE  /\ worker'[v].local \in 1..n + 1 /\ "key" \in wired
                 /\ worker'[v].kind = local_stamps'[worker'[v].local].kind
                 /\ \A d \in completed : d.local # worker'[v].local
      <4>1. CASE v = w
        <5>1. worker'[v].local = n + 1 /\ worker'[v].kind = k /\ "key" \in wired
          BY <2>18, <3>3, <4>1, Zenon
        <5>2. n + 1 \in 1..n + 1 /\ \A d \in completed : d.local # n + 1
          BY <3>1
        <5> QED
          BY <2>4, <2>6, <5>1, <5>2
      <4>2. CASE v # w
        <5>1. worker'[v] = worker[v] /\ v \in Transmitting
          BY <2>13, <4>2
        <5> QED
          BY <2>6, <3>2, <5>1 DEF TransmitsOwn
      <4> QED
        BY <4>1, <4>2
    <3>4. ASSUME NEW u \in Transmitting', NEW v \in Transmitting', worker'[u].local = worker'[v].local
          PROVE  u = v
      <4>1. \A x \in Transmitting' : worker'[x].local = n + 1 <=> x = w
        <5>1. w \in Transmitting' => worker'[w].local = n + 1
          BY <2>18, Zenon
        <5>2. ASSUME NEW y \in Transmitting', y # w PROVE worker'[y].local # n + 1
          <6>1. worker'[y].local \in 1..n
            BY <2>13, <3>2, <5>2
          <6> QED
            BY <6>1
        <5> QED
          BY <5>1, <5>2
      <4>2. CASE u = w \/ v = w
        BY <3>4, <4>1, <4>2
      <4>3. CASE u # w /\ v # w
        BY <2>13, <3>4, <4>3 DEF TransmitsOwn
      <4> QED
        BY <4>2, <4>3
    <3> QED
      BY <1>1, <2>6, <3>3, <3>4 DEF TransmitsOwn
  <2>16. TriesBound'
    <3>1. \A l : SentFor(l)' = SentFor(l)
      BY <1>1 DEF SentFor, ServedFor, OnTheWayFor
    <3>2. SentFor(n + 1) = 0
      <4>1. ServedFor(n + 1) = {} /\ OnTheWayFor(n + 1) = {}
        <5>1. \A x \in 1..n : x # n + 1
          OBVIOUS
        <5> QED
          BY <2>11, <2>12, <5>1 DEF ServedFor, OnTheWayFor
      <4> QED
        <5>1. Cardinality(ServedFor(n + 1)) = 0 /\ Cardinality(OnTheWayFor(n + 1)) = 0
          BY <4>1, FS_EmptySet, Zenon
        <5> QED
          BY <5>1 DEF SentFor
    <3>3. \A l \in DOMAIN local_stamps' : SentFor(l) <= 2
      BY <2>6, <3>2 DEF TriesBound
    <3>4. ASSUME NEW v \in Transmitting' PROVE SentFor(worker'[v].local) <= worker'[v].tries
      <4>1. CASE v = w
        <5>1. worker'[v].local = n + 1 /\ worker'[v].tries \in 0..2
          BY <2>18, <3>4, <4>1, Zenon
        <5> QED
          BY <3>2, <5>1
      <4>2. CASE v # w
        BY <2>13, <4>2 DEF TriesBound
      <4> QED
        BY <4>1, <4>2
    <3> QED
      BY <3>1, <3>3, <3>4 DEF TriesBound
  <2>17. TasksBound'
    <3>1. PICK a, d : a = Cardinality(UnderWay) /\ d = Cardinality(UnderWay')
      OBVIOUS
    <3>2. a \in Nat /\ d \in Nat /\ d = a - 1
      <4>1. AttestationTypes
        OBVIOUS
      <4> QED
        BY <1>1, <2>7, <3>1, <4>1, UnderWayMoves, Zenon
    <3>3. PICK t \in Nat : t = Len(tasks)
      BY <1>1
    <3>4. t + a + n <= queued
      BY <2>5, <3>1, <3>3 DEF TasksBound
    <3>5. t + d + (n + 1) <= queued
      BY <1>1, <3>2, <3>4
    <3> QED
      BY <1>1, <2>6, <3>1, <3>3, <3>5 DEF TasksBound
  <2> QED
    BY <2>9, <2>10, <2>14, <2>15, <2>16, <2>17
<1> QED
  BY <1>3, <1>4 DEF stamp_and_sign

\* do_stamp: one more request for the worker's own stamp is on its way.
LEMMA DoStampStep == ASSUME AttestationInv, NEW w \in Workers, do_stamp(w) PROVE AttestationInv'
<1> USE DEF AttestationInv
<1>1. /\ worker[w].pc = "transmit" /\ worker[w].tries < 2 /\ w \in Transmitting
      /\ UNCHANGED <<wired, tasks, queued, local_stamps, remote_stamps, completed, fetched>>
      /\ worker \in [Workers -> WorkerStates] /\ queued \in Nat
  BY DEF do_stamp, AtStep, Transmitting, AttestationTypes
<1>2. PICK x : x = worker[w]
  OBVIOUS
<1>3. x \in WorkerStates /\ x.pc = "transmit" /\ x.tries \in 0..1
  <2>1. x \in WorkerStates /\ x.tries \in 0..2 /\ x.tries < 2
    BY <1>1, <1>2 DEF WorkerStates
  <2> QED
    BY <1>1, <1>2, <2>1
<1>4. PICK q : q = [over |-> x.local, try |-> x.tries, echo |-> <<x.kind, x.local>>]
  OBVIOUS
<1>5. q.over = x.local /\ q.echo = <<x.kind, x.local>> /\ in_flight' = in_flight \cup {q}
  BY <1>2, <1>4 DEF do_stamp
<1>6. PICK s : s = [x EXCEPT !.tries = @ + 1]
  OBVIOUS
<1>7. /\ s \in WorkerStates /\ s.pc = "transmit" /\ s.local = x.local /\ s.kind = x.kind
      /\ s.tries = x.tries + 1
  BY <1>3, <1>6 DEF WorkerStates
<1>8. worker' = [worker EXCEPT ![w] = s]
  BY <1>1, <1>2, <1>6 DEF do_stamp
<1>9. \A v \in Workers : worker'[v] = IF v = w THEN s ELSE worker[v]
  BY <1>1, <1>8
<1>10. AttestationTypes'
  <2>1. worker' \in [Workers -> WorkerStates]
    BY <1>1, <1>7, <1>8
  <2>2. IsFiniteSet(in_flight')
    BY <1>5, FS_AddElement DEF AttestationTypes
  <2> QED
    BY <1>1, <2>1, <2>2 DEF AttestationTypes
<1>11. x.local \in DOMAIN local_stamps /\ "key" \in wired /\ x.kind = local_stamps[x.local].kind
  BY <1>1, <1>2 DEF TransmitsOwn
<1>12. RequestsSigned'
  <2>1. RequestFor(q.over, q.echo)
    BY <1>5, <1>11 DEF RequestFor
  <2>2. \A y \in in_flight' : RequestFor(y.over, y.echo)
    BY <1>5, <2>1 DEF RequestsSigned
  <2> QED
    BY <1>1, <2>2 DEF RequestsSigned, RequestFor
<1>13. /\ Transmitting' = Transmitting /\ UnderWay' = UnderWay
       /\ \A v \in Transmitting : worker'[v].local = worker[v].local /\ worker'[v].kind = worker[v].kind
  BY <1>1, <1>2, <1>7, <1>9 DEF Transmitting, UnderWay
<1>14. TransmitsOwn'
  BY <1>1, <1>13 DEF TransmitsOwn
<1>15. PairsMatch' /\ SlicesInside' /\ TasksBound'
  BY <1>1, <1>13 DEF PairsMatch, SlicesInside, TasksBound
<1>16. TriesBound'
  <2>1. \A l : ServedFor(l)' = ServedFor(l)
    BY <1>1 DEF ServedFor
  <2>2. ASSUME NEW l, l # x.local PROVE SentFor(l)' = SentFor(l)
    <3>1. OnTheWayFor(l)' = OnTheWayFor(l)
      BY <1>5, <2>2 DEF OnTheWayFor
    <3> QED
      BY <2>1, <3>1 DEF SentFor
  <2>3. SentFor(x.local)' <= x.tries + 1 /\ SentFor(x.local)' <= 2
    <3>1. PICK O, P, S : O = OnTheWayFor(x.local) /\ P = OnTheWayFor(x.local)' /\ S = ServedFor(x.local)
      OBVIOUS
    <3>2. P = O \cup {q}
      BY <1>5, <3>1 DEF OnTheWayFor
    <3>3. IsFiniteSet(O) /\ Cardinality(O) \in Nat /\ Cardinality(S) \in Nat
      BY <3>1, SentFinite
    <3>4. Cardinality(P) = IF q \in O THEN Cardinality(O) ELSE Cardinality(O) + 1
      BY <3>2, <3>3, FS_AddElement
    <3>5. Cardinality(S) + Cardinality(O) <= x.tries
      BY <1>1, <1>2, <3>1 DEF TriesBound, SentFor
    <3>6. Cardinality(S) + Cardinality(P) <= x.tries + 1 /\ Cardinality(S) + Cardinality(P) <= 2
      BY <1>3, <3>3, <3>4, <3>5
    <3>7. SentFor(x.local)' = Cardinality(S) + Cardinality(P)
      BY <2>1, <3>1 DEF SentFor
    <3> QED
      BY <3>6, <3>7
  <2>5. ASSUME NEW l \in DOMAIN local_stamps PROVE SentFor(l)' <= 2
    BY <2>2, <2>3 DEF TriesBound
  <2>6. ASSUME NEW v \in Transmitting PROVE SentFor(worker[v].local)' <= worker'[v].tries
    <3>1. PICK l : l = worker[v].local
      OBVIOUS
    <3>2. worker'[v].local = l
      BY <1>13, <3>1
    <3>3. SentFor(l)' <= worker'[v].tries
      <4>1. CASE v = w
        BY <1>2, <1>7, <1>9, <2>3, <3>1, <4>1 DEF Transmitting
      <4>2. CASE v # w
        <5>1. l # x.local
          BY <1>1, <1>2, <3>1, <4>2 DEF TransmitsOwn
        <5>2. SentFor(l) <= worker[v].tries /\ worker'[v] = worker[v]
          BY <1>9, <3>1, <4>2 DEF TriesBound, Transmitting
        <5> QED
          BY <2>2, <5>1, <5>2
      <4> QED
        BY <4>1, <4>2
    <3> QED
      BY <3>2, <3>3
  <2> QED
    BY <1>1, <1>13, <2>5, <2>6 DEF TriesBound
<1> QED
  BY <1>10, <1>12, <1>14, <1>15, <1>16

\* A request leaves the wire: the target stamped it, or it was lost.
LEMMA RequestStep ==
  ASSUME AttestationInv, NEW r \in in_flight, TargetStamps(r) \/ RequestLost(r)
  PROVE  AttestationInv'
<1> USE DEF AttestationInv
<1>1. /\ in_flight' = in_flight \ {r}
      /\ UNCHANGED <<wired, tasks, queued, worker, local_stamps, completed, fetched>>
      /\ remote_stamps \in Seq(RemoteStamps) /\ IsFiniteSet(in_flight)
  BY DEF TargetStamps, RequestLost, AttestationTypes
<1>2. PICK m \in Nat : m = Len(remote_stamps) /\ DOMAIN remote_stamps = 1..m
  BY <1>1
<1>3. PICK o, e : o = r.over /\ e = r.echo
  OBVIOUS
<1>4. RequestFor(o, e)
  BY <1>3 DEF RequestsSigned
<1>5. /\ remote_stamps' \in Seq(RemoteStamps)
      /\ \A i \in 1..m : remote_stamps'[i] = remote_stamps[i]
      /\ \/ DOMAIN remote_stamps' = 1..m
         \/ /\ DOMAIN remote_stamps' = 1..m + 1
            /\ remote_stamps'[m + 1].over = o /\ remote_stamps'[m + 1].echo = e
  <2>1. CASE RequestLost(r)
    <3>1. remote_stamps' = remote_stamps
      BY <2>1 DEF RequestLost
    <3> QED
      BY <1>1, <1>2, <3>1
  <2>2. CASE TargetStamps(r)
    <3>1. PICK n \in 1..2 : remote_stamps' = Append(remote_stamps,
                                                    [over |-> r.over, echo |-> r.echo, number |-> n])
      BY <2>2 DEF TargetStamps
    <3>2. PICK z : z = [over |-> o, echo |-> e, number |-> n]
      OBVIOUS
    <3>3. z.over = o /\ z.echo = e /\ z \in RemoteStamps
      <4>1. o \in Nat /\ e \in (TaskKinds \cup {"none"}) \X Nat
        <5>1. local_stamps \in Seq(LocalStamps)
          BY DEF AttestationTypes
        <5>2. o \in 1..Len(local_stamps) /\ Len(local_stamps) \in Nat
          BY <1>4, <5>1 DEF RequestFor
        <5>3. local_stamps[o] \in LocalStamps
          BY <5>1, <5>2
        <5> QED
          BY <1>4, <5>2, <5>3 DEF RequestFor, LocalStamps
      <4> QED
        BY <3>2, <4>1 DEF RemoteStamps
    <3>4. remote_stamps' = Append(remote_stamps, z)
      BY <1>3, <3>1, <3>2
    <3> QED
      BY <1>1, <1>2, <3>3, <3>4, AppendProperties
  <2> QED
    BY <2>1, <2>2
<1>6. IsFiniteSet(in_flight') /\ AttestationTypes'
  <2>1. IsFiniteSet(in_flight')
    BY <1>1, FS_RemoveElement
  <2> QED
    BY <1>1, <1>5, <2>1 DEF AttestationTypes
<1>7. RequestsSigned'
  <2>1. \A over, echo : RequestFor(over, echo)' <=> RequestFor(over, echo)
    BY <1>1 DEF RequestFor
  <2>2. \A q \in in_flight' : RequestFor(q.over, q.echo)
    BY <1>1 DEF RequestsSigned
  <2>3. ASSUME NEW i \in DOMAIN remote_stamps'
        PROVE  RequestFor(remote_stamps'[i].over, remote_stamps'[i].echo)
    <3>1. CASE i \in 1..m
      BY <1>2, <1>5, <3>1 DEF RequestsSigned
    <3>2. CASE i = m + 1 /\ i \notin 1..m
      BY <1>4, <1>5, <3>2
    <3> QED
      BY <1>5, <3>1, <3>2
  <2> QED
    BY <1>1, <2>2, <2>3 DEF RequestsSigned, RequestFor
<1>8. Transmitting' = Transmitting /\ UnderWay' = UnderWay
  BY <1>1 DEF Transmitting, UnderWay
<1>9. TransmitsOwn' /\ SlicesInside' /\ TasksBound'
  BY <1>1, <1>8 DEF TransmitsOwn, SlicesInside, TasksBound
<1>10. PairsMatch'
  <2>1. ASSUME NEW c \in completed
        PROVE  c.remote \in DOMAIN remote_stamps' /\ remote_stamps'[c.remote].over = c.local
    <3>1. c.remote \in 1..m /\ remote_stamps[c.remote].over = c.local
      BY <1>2 DEF PairsMatch
    <3> QED
      BY <1>5, <3>1
  <2> QED
    BY <1>1, <2>1 DEF PairsMatch
<1>11. ASSUME NEW l PROVE SentFor(l)' <= SentFor(l) /\ SentFor(l)' \in Nat /\ SentFor(l) \in Nat
  <2>1. PICK O, P, S, T : /\ O = OnTheWayFor(l) /\ P = OnTheWayFor(l)'
                          /\ S = ServedFor(l) /\ T = ServedFor(l)'
    OBVIOUS
  <2>2. IsFiniteSet(O) /\ IsFiniteSet(S) /\ Cardinality(O) \in Nat /\ Cardinality(S) \in Nat
    BY <2>1, SentFinite
  <2>3. CASE l # o
    <3>1. P = O
      BY <1>1, <1>3, <2>1, <2>3 DEF OnTheWayFor
    <3>2. T = S
      BY <1>2, <1>5, <2>1, <2>3 DEF ServedFor
    <3> QED
      BY <2>1, <2>2, <3>1, <3>2 DEF SentFor
  <2>4. CASE l = o
    <3>1. P = O \ {r} /\ r \in O
      BY <1>1, <1>3, <2>1, <2>4 DEF OnTheWayFor
    <3>2. Cardinality(P) = Cardinality(O) - 1 /\ Cardinality(P) \in Nat
      <4>1. IsFiniteSet(P)
        BY <2>2, <3>1, FS_RemoveElement
      <4>2. Cardinality(P) \in Nat
        BY <4>1, FS_CardinalityType
      <4> QED
        BY <2>2, <3>1, <4>2, FS_RemoveElement
    <3>3. T = S \/ T = S \cup {m + 1}
      BY <1>2, <1>5, <2>1, <2>4 DEF ServedFor
    <3>4. Cardinality(T) \in Nat /\ Cardinality(T) <= Cardinality(S) + 1
      <4>1. CASE T = S
        BY <2>2, <4>1
      <4>2. CASE T = S \cup {m + 1}
        <5>1. Cardinality(T) = IF m + 1 \in S THEN Cardinality(S) ELSE Cardinality(S) + 1
          BY <2>2, <4>2, FS_AddElement
        <5> QED
          BY <2>2, <5>1
      <4> QED
        BY <3>3, <4>1, <4>2
    <3>5. Cardinality(T) + Cardinality(P) <= Cardinality(S) + Cardinality(O)
      BY <2>2, <3>2, <3>4
    <3> QED
      BY <2>1, <2>2, <3>2, <3>4, <3>5 DEF SentFor
  <2> QED
    BY <2>3, <2>4
<1>12. TriesBound'
  <2>1. ASSUME NEW l \in DOMAIN local_stamps PROVE SentFor(l)' <= 2
    <3>1. SentFor(l) <= 2
      BY DEF TriesBound
    <3> QED
      BY <1>11, <3>1
  <2>2. ASSUME NEW v \in Transmitting PROVE SentFor(worker[v].local)' <= worker'[v].tries
    <3>1. PICK l, t : l = worker[v].local /\ t = worker[v].tries
      OBVIOUS
    <3>2. worker'[v].local = l /\ worker'[v].tries = t /\ t \in Nat
      <4>1. worker[v] \in WorkerStates
        BY DEF AttestationTypes, Transmitting
      <4>2. t \in 0..2
        BY <3>1, <4>1 DEF WorkerStates
      <4> QED
        BY <1>1, <3>1, <4>2
    <3>3. SentFor(l) <= t
      BY <3>1 DEF TriesBound
    <3>4. SentFor(l)' <= t
      BY <1>11, <3>2, <3>3
    <3> QED
      BY <3>2, <3>4
  <2> QED
    BY <1>1, <1>8, <2>1, <2>2 DEF TriesBound
<1> QED
  BY <1>6, <1>7, <1>9, <1>10, <1>12

\* An attestation is completed with a stamp over the worker's own, which is then
\* no worker's to transmit.
LEMMA CompletesStep ==
  ASSUME AttestationInv, NEW w \in Workers, NEW r \in DOMAIN remote_stamps,
         transmit_chronon_attestation(w, r) \/ transmit_epoch_attestation(w, r)
  PROVE  AttestationInv'
<1> USE DEF AttestationInv
<1>1. /\ Completes(w, r) /\ w \in Transmitting
      /\ UNCHANGED <<wired, tasks, queued, local_stamps, in_flight, remote_stamps, fetched>>
      /\ worker \in [Workers -> WorkerStates]
  BY DEF transmit_chronon_attestation, transmit_epoch_attestation, Completes, AtStep,
         Transmitting, AttestationTypes
<1>2. PICK l : l = worker[w].local
  OBVIOUS
<1>3. PICK c : c = [local |-> l, remote |-> r]
  OBVIOUS
<1>4. /\ c.local = l /\ c.remote = r /\ completed' = completed \cup {c}
      /\ remote_stamps[r].over = l
  BY <1>1, <1>2, <1>3 DEF Completes, Passes
<1>5. /\ l \in DOMAIN local_stamps /\ \A d \in completed : d.local # l
      /\ \A v \in Transmitting : worker[v].local = l => v = w
  BY <1>1, <1>2 DEF TransmitsOwn
<1>6. PICK s \in WorkerStates :
        worker' = [worker EXCEPT ![w] = s] /\ s.pc \in {"idle", "recorded"}
  <2>1. CASE Ends(w)
    <3>1. AtRest \in WorkerStates /\ AtRest.pc = "idle"
      BY DEF AtRest, WorkerStates, WorkerSteps
    <3> QED
      BY <2>1, <3>1 DEF Ends
  <2>2. CASE Goes(w, "recorded")
    <3>1. PICK x : x = worker[w]
      OBVIOUS
    <3>2. x \in WorkerStates
      BY <1>1, <3>1
    <3>3. PICK s : s = [x EXCEPT !.pc = "recorded"]
      OBVIOUS
    <3>4. s \in WorkerStates /\ s.pc = "recorded"
      <4>1. "recorded" \in WorkerSteps
        BY DEF WorkerSteps
      <4> QED
        BY <3>2, <3>3, <4>1 DEF WorkerStates
    <3>5. worker' = [worker EXCEPT ![w] = s]
      BY <1>1, <2>2, <3>1, <3>3 DEF Goes
    <3> QED
      BY <3>4, <3>5
  <2> QED
    BY <2>1, <2>2 DEF transmit_chronon_attestation, transmit_epoch_attestation
<1>7. AttestationTypes'
  <2>1. worker' \in [Workers -> WorkerStates]
    BY <1>1, <1>6
  <2> QED
    BY <1>1, <2>1 DEF AttestationTypes
<1>8. RequestsSigned' /\ SlicesInside'
  BY <1>1 DEF RequestsSigned, RequestFor, SlicesInside
<1>9. Transmitting' = Transmitting \ {w} /\ \A v \in Transmitting' : worker'[v] = worker[v]
  BY <1>1, <1>6 DEF Transmitting
<1>10. TransmitsOwn'
  <2>1. ASSUME NEW v \in Transmitting' PROVE \A d \in completed' : d.local # worker[v].local
    <3>1. v \in Transmitting /\ v # w
      BY <1>9
    <3>2. worker[v].local # l
      BY <1>5, <3>1
    <3> QED
      BY <1>4, <3>1, <3>2 DEF TransmitsOwn
  <2> QED
    BY <1>1, <1>9, <2>1 DEF TransmitsOwn
<1>11. PairsMatch'
  <2>1. ASSUME NEW d \in completed'
        PROVE  /\ d.local \in DOMAIN local_stamps /\ d.remote \in DOMAIN remote_stamps
               /\ remote_stamps[d.remote].over = d.local
    BY <1>4, <1>5 DEF PairsMatch
  <2>2. ASSUME NEW d \in completed', NEW f \in completed', d.local = f.local
        PROVE  d.remote = f.remote
    <3>1. CASE d = c /\ f = c
      BY <3>1
    <3>2. CASE d \in completed /\ f \in completed
      BY <2>2, <3>2 DEF PairsMatch
    <3>3. CASE (d = c /\ f \in completed) \/ (d \in completed /\ f = c)
      BY <1>4, <1>5, <2>2, <3>3
    <3> QED
      BY <1>4, <3>1, <3>2, <3>3
  <2> QED
    BY <1>1, <2>1, <2>2 DEF PairsMatch
<1>12. TriesBound'
  <2>1. \A k : SentFor(k)' = SentFor(k)
    BY <1>1 DEF SentFor, ServedFor, OnTheWayFor
  <2> QED
    BY <1>1, <1>9, <2>1 DEF TriesBound
<1>13. TasksBound'
  BY <1>1, <1>6, TasksFrame
<1> QED
  BY <1>7, <1>8, <1>10, <1>11, <1>12, <1>13

LEMMA AttestationInvNext == AttestationInv /\ [AttestationNext]_attestationVars => AttestationInv'
<1> SUFFICES ASSUME AttestationInv, [AttestationNext]_attestationVars PROVE AttestationInv'
  OBVIOUS
<1>1. ASSUME NEW t \in TbidHex, handle_stamp_my_chronon(t) \/ handle_stamp_my_chronon_block(t)
      PROVE  AttestationInv'
  <2>1. \E kind \in TaskKinds, tbid \in TbidHex : enqueue_task(kind, tbid)
    BY <1>1 DEF handle_stamp_my_chronon, handle_stamp_my_chronon_block, TaskKinds
  <2>2. QueueKept
    BY <1>1 DEF handle_stamp_my_chronon, handle_stamp_my_chronon_block
  <2> QED
    BY <2>1, <2>2, QueueStep DEF QueueKept
<1>2. CASE on_tick_advance
  <2>1. \E kind \in TaskKinds, tbid \in TbidHex : enqueue_task(kind, tbid)
    BY <1>2 DEF on_tick_advance, TaskKinds, TbidHex
  <2>2. QueueKept
    BY <1>2 DEF on_tick_advance
  <2> QED
    BY <2>1, <2>2, QueueStep DEF QueueKept
<1>3. CASE ChronomatterDormant
  BY <1>3, QueueStep DEF ChronomatterDormant
<1>4. CASE UNCHANGED attestationVars
  BY <1>4, QueueStep DEF attestationVars
<1>5. ASSUME NEW w \in Workers,
             \/ LatestFails(w) \/ FetchedLatest(w) \/ get_target_latest_epoch(w)
             \/ get_verify_latest_chronon(w) \/ SliceAnswered(w) \/ TransmitFails(w)
             \/ verify_chronon_attestation_recorded(w)
      PROVE  AttestationInv'
  BY <1>5, WorkerStep
<1>6. ASSUME NEW w \in Workers,
             stamp_and_sign_chronon_attestation(w) \/ stamp_and_sign_epoch_attestation(w)
      PROVE  AttestationInv'
  BY <1>6, StampAndSignStep
     DEF stamp_and_sign_chronon_attestation, stamp_and_sign_epoch_attestation
<1> QED
  BY <1>1, <1>2, <1>3, <1>4, <1>5, <1>6, HandleTaskStep, DoStampStep, CompletesStep, RequestStep
     DEF AttestationNext

LEMMA AttestationInvSuffices == AttestationInv => AttestationPaired
<1> SUFFICES ASSUME AttestationInv PROVE AttestationPaired
  OBVIOUS
<1> USE DEF AttestationInv
<1>1. ASSUME NEW c \in completed
      PROVE  /\ remote_stamps[c.remote].over = c.local
             /\ remote_stamps[c.remote].echo = <<local_stamps[c.local].kind, c.local>>
             /\ \A d \in completed : c.local = d.local <=> c.remote = d.remote
  <2>1. c.remote \in DOMAIN remote_stamps /\ remote_stamps[c.remote].over = c.local
    BY DEF PairsMatch
  <2>2. remote_stamps[c.remote].echo = <<local_stamps[c.local].kind, c.local>>
    BY <2>1 DEF RequestsSigned, RequestFor
  <2>3. ASSUME NEW d \in completed PROVE c.local = d.local <=> c.remote = d.remote
    BY DEF PairsMatch
  <2> QED
    BY <2>1, <2>2, <2>3
<1>2. remote_stamps # << >> => "key" \in wired
  <2> SUFFICES ASSUME remote_stamps # << >> PROVE "key" \in wired
    OBVIOUS
  <2>1. 1 \in DOMAIN remote_stamps
    <3>1. remote_stamps \in Seq(RemoteStamps)
      BY DEF AttestationTypes
    <3>2. PICK m \in Nat : m = Len(remote_stamps) /\ DOMAIN remote_stamps = 1..m /\ m # 0
      BY <3>1, EmptySeq
    <3> QED
      BY <3>2
  <2> QED
    BY <2>1 DEF RequestsSigned, RequestFor
<1>3. ASSUME NEW l \in DOMAIN local_stamps
      PROVE  Cardinality({r \in DOMAIN remote_stamps : remote_stamps[r].over = l}) <= 2
  <2>1. PICK a, b : a = Cardinality(ServedFor(l)) /\ b = Cardinality(OnTheWayFor(l))
    OBVIOUS
  <2>2. a \in Nat /\ b \in Nat /\ a + b <= 2
    BY <2>1, SentFinite DEF TriesBound, SentFor
  <2>3. a <= 2
    BY <2>2
  <2> QED
    BY <2>1, <2>3 DEF ServedFor
<1>4. \A r \in DOMAIN remote_stamps : remote_stamps[r].over \in DOMAIN local_stamps
  BY DEF RequestsSigned, RequestFor
<1>5. Len(local_stamps) <= queued
  <2>1. Cardinality(UnderWay) \in Nat
    <3>1. UnderWay \subseteq Workers
      BY DEF UnderWay
    <3>2. IsFiniteSet(UnderWay)
      BY <3>1, FS_Subset, PoolAssumption, Zenon
    <3> QED
      BY <3>2, FS_CardinalityType
  <2>2. PICK a \in Nat, b \in Nat, c \in Nat :
          a = Cardinality(UnderWay) /\ b = Len(tasks) /\ c = Len(local_stamps)
    BY <2>1 DEF AttestationTypes
  <2>3. b + a + c <= queued /\ queued \in Nat
    BY <2>2 DEF TasksBound, AttestationTypes
  <2>4. c <= queued
    BY <2>3
  <2> QED
    BY <2>2, <2>4
<1> QED
  BY <1>1, <1>2, <1>3, <1>4, <1>5 DEF AttestationPaired, SlicesInside

\* AttestationPaired for every pool of workers: two workers that attest to one
\* target at once, and a request served twice, never share a stamp
\* (calendar/task_queue.rs, handle_do_chronon_attestation and do_stamp).
THEOREM AttestationsPaired == AttestationSpec => []AttestationPaired
BY AttestationInvInit, AttestationInvNext, AttestationInvSuffices, PTL DEF AttestationSpec
=============================================================================
