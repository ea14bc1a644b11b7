-------------------------- MODULE NmbmPromiseProofs --------------------------
(***************************************************************************)
(* Proofs about Nmbm: what is on the chip, for every chip and every number *)
(* of failures.  The tables the driver knows of are there and agree, one   *)
(* of two survives every power cut, what the user wrote is what is read    *)
(* back, and the tables implement the register of NmbmStore.               *)
(***************************************************************************)
EXTENDS NmbmLayoutProofs, NmbmRefinement

(* A table on the chip with the mapping last written or loaded.            *)
Copy(b) == b \in Tables /\ phys[b].img.map = cache.map
BothCopies == /\ mainBa # 0 => Copy(mainBa)
              /\ backupBa # 0 => Copy(backupBa)

(* Which tables are on the chip while one of them is being written, or the *)
(* blocks between two are erased.                                          *)
Copies ==
    /\ Writing => wr.k \in Jobs \ {"none", "sign"}
    /\ pc = "clean" => wr.k \in {"second", "front", "behind"}
    /\ pc \notin {"rebuild", "main", "erase", "prog", "clean"} => BothCopies
    /\ Cleans("second") \/ Cleans("front") => BothCopies
    /\ pc = "rebuild" \/ Writes("rebuild") => backupBa = 0
    /\ Writes("backup") => mainBa \in Tables
    /\ (pc = "main" \/ Writes("main") \/ Writes("tmp") \/ Writes("syncmain")) /\ backupBa # 0
       => Copy(backupBa)
    /\ Writes("rescue") \/ Cleans("behind") => Copy(wr.limit)
    /\ \/ Writes("second") \/ Writes("front") \/ Writes("behind") \/ Writes("syncbackup")
       \/ Cleans("behind")
       => Copy(mainBa)

CInv == ~ skipped => Copies

-----------------------------------------------------------------------------
(* A step that changes no table but the one of a block it programs keeps   *)
(* the copies there are.                                                   *)
LEMMA CopyStays ==
  ASSUME cache' = cache, NEW b, Copy(b), b \in Tables', phys'[b] = phys[b]
  PROVE  b \in Tables' /\ phys'[b].img.map = cache'.map
  BY DEF Copy

(* A loop of a table write or a range erase touches one block only, in     *)
(* what is left of its range.                                              *)
LEMMA LoopSpares ==
  ASSUME TInv, SInv, Here, LoopStep
  PROVE  /\ \A c \in PB : c < wr.from \/ wr.limit <= c =>
                phys'[c] = phys[c] /\ (c \in bad' => c \in bad)
         /\ Attached /\ pc \in {"erase", "prog", "clean"} /\ pc' \in {"erase", "prog", "clean"}
         /\ (pc' = "clean") = (pc = "clean")
         /\ wr'.k = wr.k /\ wr'.limit = wr.limit
         /\ UNCHANGED <<cache, mainBa, backupBa, skipped>>
<1>1. TypeOK /\ Attached /\ pc \in {"erase", "prog", "clean"}
  BY DEF TInv, LoopStep, MgmtErased, MgmtEraseFails, MgmtProgramFails, CleanStep, CleanFails,
         Attached
<1>2. PICK b \in PB, n \in Nat :
           /\ wr.ba <= b /\ b < wr.limit
           /\ UNCHANGED <<map, wc, cache, layout, fixed, ret, cur, history>>
           /\ wr' = [wr EXCEPT !.ba = n]
           /\ \/ n = b /\ pc' = "prog" /\ pc = "erase"
              \/ n = b + 1 /\ pc' = "erase" /\ pc \in {"erase", "prog"}
              \/ n = b + 1 /\ pc' = "clean" /\ pc = "clean"
  BY <1>1, LoopEffect
<1>3. wr'.k = wr.k /\ wr'.limit = wr.limit
  BY <1>1, <1>2, Numeric
<1>4. \A c \in PB : c < wr.from \/ wr.limit <= c =>
         phys'[c] = phys[c] /\ (c \in bad' => c \in bad)
  <2> DEFINE l == Lowest(Usable(wr.ba, wr.limit))
  <2>1. PICK d : /\ wr.from <= d /\ d < wr.limit /\ d \in Nat
                 /\ \A c \in PB \ {d} : phys'[c] = phys[c] /\ (c \in bad' => c \in bad)
    <3>1. wr.from <= wr.ba /\ wr.ba \in Nat /\ wr.from \in Nat /\ wr.limit \in Nat
      BY <1>1, Numeric DEF Here, Layout, Passed, Writing
    <3>2. CASE pc = "prog"
      <4>1. wr.ba < wr.limit /\ phys' = phys /\ bad' \subseteq bad \cup {wr.ba}
        BY <3>2 DEF LoopStep, MgmtErased, MgmtEraseFails, MgmtProgramFails, CleanStep,
                    CleanFails, Fail, TInv, Control
      <4> QED
        BY <3>1, <4>1
    <3>3. CASE pc # "prog"
      <4>1. /\ Usable(wr.ba, wr.limit) # {}
            /\ phys' = [phys EXCEPT ![l] = Torn] \/ phys' = [phys EXCEPT ![l] = Blank]
            /\ bad' \subseteq bad \cup {l}
        BY <3>3 DEF LoopStep, MgmtErased, MgmtEraseFails, MgmtProgramFails, CleanStep,
                    CleanFails, Fail, Spoil
      <4>2. l \in PB /\ wr.ba <= l /\ l < wr.limit
        <5>1. wr.limit \in PB
          BY <1>1, Numeric
        <5> QED
          BY <3>1, <4>1, <5>1, UsableIn
      <4> HIDE DEF l
      <4>3. l \in Nat /\ wr.from <= l
        BY <3>1, <4>2, BlockNumbers
      <4>4. \A c \in PB \ {l} : phys'[c] = phys[c] /\ (c \in bad' => c \in bad)
        BY <1>1, <4>1 DEF TypeOK
      <4> QED
        BY <4>2, <4>3, <4>4
    <3> QED
      BY <3>2, <3>3
  <2>2. ASSUME NEW c \in PB, c < wr.from \/ wr.limit <= c PROVE c # d
    <3>1. c \in Nat /\ wr.from \in Nat /\ wr.limit \in Nat
      BY <1>1, Numeric, BlockNumbers
    <3> QED
      BY <2>1, <2>2, <3>1
  <2> QED
    BY <2>1, <2>2
<1> QED
  BY <1>1, <1>2, <1>3, <1>4 DEF layout, history

(* So the tables that are not in that range stay.                          *)
LEMMA LoopLeaves ==
  ASSUME TInv, SInv, Here, LoopStep, NEW c \in Tables, c < wr.from \/ wr.limit <= c
  PROVE  c \in Tables' /\ phys'[c] = phys[c]
<1>1. c \in PB /\ phys[c].kind = "table" /\ c \notin bad
  BY DEF Tables
<1> QED
  BY <1>1, LoopSpares DEF Tables

(* A loop keeps the copies that its caller relies on.                      *)
LEMMA LoopCopies ==
  ASSUME TInv, SInv, Here, Copies, LoopStep
  PROVE  Copies'
<1>1. /\ pc \in {"erase", "prog", "clean"} /\ pc' \in {"erase", "prog", "clean"}
      /\ (pc' = "clean") = (pc = "clean") /\ wr'.k = wr.k /\ wr'.limit = wr.limit
      /\ cache' = cache /\ mainBa' = mainBa /\ backupBa' = backupBa
  BY LoopSpares
<1>2. \A k : Writes(k)' = Writes(k) /\ Cleans(k)' = Cleans(k)
  BY <1>1 DEF Writes, Cleans, Writing
<1>3. /\ TypeOK /\ Underway /\ Regions /\ Passed
      /\ mainBa \in Nat /\ backupBa \in Nat /\ mapBa \in Nat /\ wr.limit \in Nat
      /\ wr.from \in Nat /\ MgmtStart \in Nat
  BY <1>1, Numeric DEF Here, Layout, TInv
<1>4. ASSUME NEW c, Copy(c), c < wr.from \/ wr.limit <= c
      PROVE  c \in Tables' /\ phys'[c].img.map = cache'.map
  BY <1>1, <1>4, LoopLeaves DEF Copy
<1>5. CASE Writes("second") \/ Writes("behind") \/ Writes("syncbackup")
  BY <1>1, <1>2, <1>3, <1>4, <1>5
  DEF Copies, BothCopies, Copy, Underway, Regions, From, Writes, Cleans, Writing
<1>6. CASE Writes("front") \/ Writes("rebuild")
  BY <1>1, <1>2, <1>3, <1>4, <1>6
  DEF Copies, BothCopies, Copy, Underway, Regions, From, Writes, Cleans, Writing
<1>7. CASE Writes("backup")
  <2>1. mainBa \in Tables /\ mainBa < wr.from
    BY <1>1, <1>3, <1>7 DEF Copies, Underway, Regions, From, Writes, Writing
  <2>2. mainBa' \in Tables'
    BY <1>1, <2>1, LoopLeaves
  <2> QED
    BY <1>1, <1>2, <1>7, <2>2 DEF Copies, Writes, Cleans, Writing, Jobs
<1>8. CASE Writes("main") \/ Writes("tmp") \/ Writes("syncmain")
  BY <1>1, <1>2, <1>3, <1>4, <1>8
  DEF Copies, BothCopies, Copy, Underway, Regions, From, MainLimit, Writes, Cleans, Writing
<1>9. CASE Writes("rescue") \/ Cleans("behind")
  BY <1>1, <1>2, <1>3, <1>4, <1>9
  DEF Copies, BothCopies, Copy, Underway, Regions, From, Writes, Cleans, Writing
<1>10. CASE Cleans("second") \/ Cleans("front")
  BY <1>1, <1>2, <1>3, <1>4, <1>10
  DEF Copies, BothCopies, Copy, Underway, Regions, From, Writes, Cleans, Writing
<1>11. CASE /\ \A k \in {"second", "behind", "syncbackup", "front", "rebuild", "backup", "main",
                         "tmp", "syncmain", "rescue"} : ~ Writes(k)
           /\ \A k \in {"behind", "second", "front"} : ~ Cleans(k)
  BY <1>1, <1>11 DEF Copies, Writes, Cleans, Writing, Jobs
<1> QED
  BY <1>5, <1>6, <1>7, <1>8, <1>9, <1>10, <1>11

-----------------------------------------------------------------------------
(* A table that is written is a copy, and the other copies stay.           *)
LEMMA WrittenCopy ==
  ASSUME TInv, SInv, Here, pc = "prog", phys' = [phys EXCEPT ![wr.ba] = Table(cache)],
         bad' = bad, cache' = cache
  PROVE  /\ wr.ba \in Tables' /\ phys'[wr.ba].img.map = cache'.map
         /\ \A c \in Tables : c \in Tables'
         /\ \A c : Copy(c) => c \in Tables' /\ phys'[c].img.map = cache'.map
<1>1. TypeOK /\ wr.ba \in PB /\ wr.ba \notin bad
  <2>1. TypeOK /\ wr.ba \in Nat /\ wr.ba < wr.limit /\ wr.limit \in PB
    BY WritingFacts, Numeric
  <2>2. wr.ba \in PB
    BY <2>1, BlockNumbers
  <2> QED
    BY <2>1, <2>2 DEF Here, Layout, Passed
<1>2. \A c \in PB : phys'[c] = IF c = wr.ba THEN Table(cache) ELSE phys[c]
  BY <1>1 DEF TypeOK
<1>3. Table(cache).kind = "table" /\ Table(cache).img = cache
  BY DEF Table
<1>4. wr.ba \in Tables' /\ phys'[wr.ba].img = cache
  BY <1>1, <1>2, <1>3 DEF Tables
<1>5. \A c \in Tables : c \in Tables' /\ (c # wr.ba => phys'[c] = phys[c])
  BY <1>1, <1>2, <1>3 DEF Tables
<1> QED
  BY <1>4, <1>5 DEF Copy

(* The driver rests with both tables on the chip, or begins to erase what  *)
(* is left between them.                                                   *)
LEMMA RestsCopied ==
  ASSUME pc' \notin {"rebuild", "main", "erase", "prog", "clean"},
         mainBa' # 0 => mainBa' \in Tables' /\ phys'[mainBa'].img.map = cache'.map,
         backupBa' # 0 => backupBa' \in Tables' /\ phys'[backupBa'].img.map = cache'.map
  PROVE  Copies'
  BY DEF Copies, BothCopies, Copy, Writes, Cleans, Writing, Jobs

(* The end of a write that made a table: its job's other tables stay.      *)
LEMMA WrittenCopies ==
  ASSUME TInv, SInv, Here, Copies,
         \/ RebuildWritten \/ SecondWritten \/ BackupWritten \/ MainWritten
         \/ TmpWritten \/ RescueWritten \/ FrontWritten \/ BehindWritten
         \/ SyncMainWritten \/ SyncBackupWritten
  PROVE  Copies'
<1>1. /\ pc = "prog" /\ phys' = [phys EXCEPT ![wr.ba] = Table(cache)] /\ bad' = bad
      /\ cache' = cache
  BY DEF RebuildWritten, SecondWritten, BackupWritten, MainWritten, TmpWritten, RescueWritten,
         FrontWritten, BehindWritten, SyncMainWritten, SyncBackupWritten, Written, tables
<1>2. /\ wr.ba \in Tables' /\ phys'[wr.ba].img.map = cache'.map
      /\ \A c \in Tables : c \in Tables'
      /\ \A c : Copy(c) => c \in Tables' /\ phys'[c].img.map = cache'.map
  BY <1>1, WrittenCopy
<1>3. Writing /\ pc # "clean" /\ Underway
  BY <1>1, WritingFacts
<1>4. CASE RebuildWritten
  <2>1. backupBa' = 0 /\ mainBa' = wr.ba /\ wr.k = "rebuild"
    BY <1>3, <1>4 DEF RebuildWritten, Written, Underway, Writes
  <2>2. \/ pc' \in {"create", "update"}
        \/ pc' = "erase" /\ wr'.k = "second"
    BY <1>4 DEF RebuildWritten, Go, Start, Job, Returned
  <2>3. CASE pc' \in {"create", "update"}
    BY <1>2, <2>1, <2>3, RestsCopied
  <2>4. CASE pc' = "erase" /\ wr'.k = "second"
    BY <1>2, <2>1, <2>4 DEF Copies, Copy, Writes, Cleans, Writing, Jobs
  <2> QED
    BY <2>2, <2>3, <2>4
<1>5. CASE SecondWritten
  <2>1. /\ wr.k = "second" /\ mainBa' = mainBa /\ backupBa' = wr.ba /\ pc' = "clean"
        /\ wr'.k = "second"
    BY <1>5 DEF SecondWritten, Written, Clean, Job
  <2>2. Copy(mainBa)
    BY <1>3, <2>1 DEF Copies, Writes
  <2> QED
    BY <1>2, <2>1, <2>2 DEF Copies, BothCopies, Copy, Writes, Cleans, Writing, Jobs
<1>6. CASE BackupWritten
  <2>1. backupBa' = wr.ba /\ pc' = "main"
    BY <1>6 DEF BackupWritten, Go
  <2> QED
    BY <1>2, <2>1 DEF Copies, Copy, Writes, Cleans, Writing, Jobs
<1>7. CASE MainWritten \/ SyncMainWritten
  <2>1. /\ wr.k \in {"main", "syncmain"} /\ mainBa' = wr.ba /\ backupBa' = backupBa
        /\ pc' \in {"update", "idle"}
    BY <1>7 DEF MainWritten, SyncMainWritten, Written, Go, LoadDone, Rest
  <2>2. backupBa # 0 => Copy(backupBa)
    BY <1>3, <2>1 DEF Copies, Writes
  <2> QED
    BY <1>2, <2>1, <2>2, RestsCopied
<1>8. CASE TmpWritten
  <2>1. pc' = "erase" /\ wr'.k = "rescue" /\ wr'.limit = wr.ba
    BY <1>8 DEF TmpWritten, Start, Job
  <2> QED
    BY <1>2, <2>1 DEF Copies, Copy, Writes, Cleans, Writing, Jobs
<1>9. CASE RescueWritten
  <2>1. wr.k = "rescue" /\ mainBa' = wr.ba /\ backupBa' = wr.limit /\ pc' = "update"
    BY <1>9 DEF RescueWritten, Written, Go
  <2>2. Copy(wr.limit)
    BY <1>3, <2>1 DEF Copies, Writes
  <2> QED
    BY <1>2, <2>1, <2>2, RestsCopied
<1>10. CASE FrontWritten
  <2>1. /\ wr.k = "front" /\ mainBa' = wr.ba /\ backupBa' = mainBa /\ pc' = "clean"
        /\ wr'.k = "front"
    BY <1>10 DEF FrontWritten, Written, Clean, Job
  <2>2. Copy(mainBa)
    BY <1>3, <2>1 DEF Copies, Writes
  <2> QED
    BY <1>2, <2>1, <2>2 DEF Copies, BothCopies, Copy, Writes, Cleans, Writing, Jobs
<1>11. CASE BehindWritten
  <2>1. /\ wr.k = "behind" /\ mainBa' = mainBa /\ pc' = "clean" /\ wr'.k = "behind"
        /\ wr'.limit = wr.ba
    BY <1>11 DEF BehindWritten, Written, Clean, Job, layout
  <2>2. Copy(mainBa)
    BY <1>3, <2>1 DEF Copies, Writes
  <2> QED
    BY <1>2, <2>1, <2>2 DEF Copies, Copy, Writes, Cleans, Writing, Jobs
<1>12. CASE SyncBackupWritten
  <2>1. wr.k = "syncbackup" /\ mainBa' = mainBa /\ backupBa' = wr.ba /\ pc' = "idle"
    BY <1>12 DEF SyncBackupWritten, Written, LoadDone, Rest
  <2>2. Copy(mainBa)
    BY <1>3, <2>1 DEF Copies, Writes
  <2> QED
    BY <1>2, <2>1, <2>2, RestsCopied
<1> QED
  BY <1>4, <1>5, <1>6, <1>7, <1>8, <1>9, <1>10, <1>11, <1>12

(* A table write that gives up, or a range erase that is through, changes  *)
(* no table.                                                               *)
LEMMA EndedCopies ==
  ASSUME TInv, SInv, Here, Copies,
         \/ RebuildFailed \/ SecondFailed \/ SecondCleaned \/ BackupFailed \/ MainFailed
         \/ TmpFailed \/ RescueFailed \/ FrontCleaned \/ FrontFailed \/ BehindFailed
         \/ BehindCleaned \/ SyncMainFailed \/ SyncBackupFailed
  PROVE  Copies'
<1>1. pc \in {"erase", "clean"} /\ Usable(wr.ba, wr.limit) = {} /\ UNCHANGED flash
      /\ cache' = cache
  BY DEF RebuildFailed, SecondFailed, SecondCleaned, BackupFailed, MainFailed, TmpFailed,
         RescueFailed, FrontCleaned, FrontFailed, BehindFailed, BehindCleaned, SyncMainFailed,
         SyncBackupFailed, GaveUp, Cleaned
<1>2. \A c : Copy(c) => c \in Tables' /\ phys'[c].img.map = cache'.map
  BY <1>1, SameTables DEF Copy
<1>3. (Writing <=> pc = "erase") /\ Underway /\ Regions
  BY <1>1, EndedFacts DEF Writing
<1>4. CASE RebuildFailed
  <2>1. /\ mainBa = 0 /\ backupBa = 0 /\ UNCHANGED <<mainBa, backupBa>>
        /\ pc' = IF ret \in {"create", "created"} THEN "gone" ELSE ret
    BY <1>3, <1>4 DEF RebuildFailed, GaveUp, Go, Underway, Writes, layout
  <2>2. pc' \in {"gone"} \cup Rets
    BY <2>1 DEF TInv, TypeOK
  <2> QED
    BY <2>1, <2>2, RestsCopied DEF Rets
<1>5. CASE SecondFailed
  <2>1. /\ Copy(mainBa) /\ backupBa = 0 /\ UNCHANGED <<mainBa, backupBa>>
        /\ pc' \in {"create", "update"}
    BY <1>3, <1>5 DEF SecondFailed, GaveUp, Go, Returned, Underway, Copies, Writes, layout
  <2> QED
    BY <1>2, <2>1, RestsCopied
<1>6. CASE SecondCleaned \/ FrontCleaned
  <2>1. BothCopies /\ UNCHANGED <<mainBa, backupBa>> /\ pc' \in {"create", "update", "idle"}
    BY <1>3, <1>6 DEF SecondCleaned, FrontCleaned, Cleaned, Go, LoadDone, Rest, Returned, Copies,
                      Cleans, layout
  <2> QED
    BY <1>2, <2>1, RestsCopied DEF BothCopies
<1>7. CASE BackupFailed
  <2>1. backupBa' = 0 /\ pc' = "main"
    BY <1>7 DEF BackupFailed, Go
  <2> QED
    BY <2>1 DEF Copies, Writes, Cleans, Writing, Jobs
<1>8. CASE MainFailed
  <2>1. backupBa # 0 => Copy(backupBa)
    BY <1>3, <1>8 DEF MainFailed, GaveUp, Copies, Writes
  <2>2. \/ backupBa = 0 /\ backupBa' = 0 /\ pc' = "rebuild"
        \/ backupBa # 0 /\ mainBa' = backupBa /\ backupBa' = 0 /\ pc' = "update"
        \/ backupBa # 0 /\ backupBa' = backupBa /\ pc' = "erase" /\ wr'.k = "tmp"
    BY <1>8 DEF MainFailed, Go, Start, Job, KeepBackupOnly, layout
  <2>3. CASE pc' = "rebuild"
    BY <2>2, <2>3 DEF Copies, Writes, Cleans, Writing, Jobs
  <2>4. CASE pc' = "update"
    BY <1>2, <2>1, <2>2, <2>4, RestsCopied
  <2>5. CASE pc' = "erase"
    BY <1>2, <2>1, <2>2, <2>5 DEF Copies, Copy, Writes, Cleans, Writing, Jobs
  <2> QED
    BY <2>2, <2>3, <2>4, <2>5
<1>9. CASE TmpFailed
  <2>1. backupBa # 0 /\ Copy(backupBa)
    BY <1>3, <1>9 DEF TmpFailed, GaveUp, Copies, Writes, Underway
  <2>2. \/ mainBa' = backupBa /\ backupBa' = 0 /\ pc' = "update"
        \/ backupBa' = backupBa /\ pc' = "erase" /\ wr'.k = "tmp"
    BY <1>9 DEF TmpFailed, Go, Start, Job, KeepBackupOnly, layout
  <2>3. CASE pc' = "update"
    BY <1>2, <2>1, <2>2, <2>3, RestsCopied
  <2>4. CASE pc' = "erase"
    BY <1>2, <2>1, <2>2, <2>4 DEF Copies, Copy, Writes, Cleans, Writing, Jobs
  <2> QED
    BY <2>2, <2>3, <2>4
<1>10. CASE RescueFailed
  <2>1. Copy(wr.limit) /\ mainBa' = wr.limit /\ backupBa' = 0 /\ pc' = "update"
    BY <1>3, <1>10 DEF RescueFailed, GaveUp, Go, Copies, Writes
  <2> QED
    BY <1>2, <2>1, RestsCopied
<1>11. CASE FrontFailed \/ BehindFailed
  <2>1. Copy(mainBa) /\ backupBa = 0 /\ UNCHANGED <<mainBa, backupBa>>
    BY <1>3, <1>11 DEF FrontFailed, BehindFailed, GaveUp, Copies, Writes, Underway, layout
  <2>2. pc' = "idle" \/ (pc' = "erase" /\ wr'.k = "behind")
    BY <1>11 DEF FrontFailed, BehindFailed, LoadDone, Rest, Start, Job
  <2>3. CASE pc' = "idle"
    BY <1>2, <2>1, <2>3, RestsCopied
  <2>4. CASE pc' = "erase" /\ wr'.k = "behind"
    BY <1>2, <2>1, <2>4 DEF Copies, Copy, Writes, Cleans, Writing, Jobs
  <2> QED
    BY <2>2, <2>3, <2>4
<1>12. CASE BehindCleaned
  <2>1. Copy(mainBa) /\ Copy(wr.limit) /\ mainBa' = mainBa /\ backupBa' = wr.limit /\ pc' = "idle"
    BY <1>3, <1>12 DEF BehindCleaned, Cleaned, Copies, Cleans, LoadDone, Rest
  <2> QED
    BY <1>2, <2>1, RestsCopied
<1>13. CASE SyncMainFailed
  <2>1. backupBa # 0 /\ Copy(backupBa) /\ mainBa' = backupBa /\ pc' = "erase" /\ wr'.k = "front"
    BY <1>3, <1>13 DEF SyncMainFailed, GaveUp, Copies, Writes, Underway, KeepBackupOnly, Start, Job
  <2> QED
    BY <1>2, <2>1 DEF Copies, Copy, Writes, Cleans, Writing, Jobs
<1>14. CASE SyncBackupFailed
  <2>1. Copy(mainBa) /\ mainBa' = mainBa /\ backupBa' = 0 /\ pc' = "idle"
    BY <1>3, <1>14 DEF SyncBackupFailed, GaveUp, Copies, Writes, LoadDone, Rest
  <2> QED
    BY <1>2, <2>1, RestsCopied
<1> QED
  BY <1>4, <1>5, <1>6, <1>7, <1>8, <1>9, <1>10, <1>11, <1>12, <1>13, <1>14

-----------------------------------------------------------------------------
(* The steps of nmbm_update_info_table() and of creating the tables that   *)
(* do no flash operation.                                                  *)
LEMMA QuietCopies ==
  ASSUME TInv, SInv, Here, Copies,
         \/ RebuildStart \/ UpdateBegin \/ UpdateDone \/ MainBegin
         \/ CreateRemap \/ CreateEnd \/ CreateNoSpare \/ Detach
  PROVE  Copies'
<1>1. UNCHANGED flash /\ Tables' = Tables /\ phys' = phys
  <2>1. UNCHANGED flash
    BY DEF RebuildStart, UpdateBegin, UpdateDone, MainBegin, CreateRemap, CreateEnd,
           CreateNoSpare, Detach
  <2> QED
    BY <2>1, SameTables DEF flash
<1>2. CASE RebuildStart
  <2>1. backupBa' = 0 /\ pc' = "erase" /\ wr'.k = "rebuild"
    BY <1>2 DEF RebuildStart, Start, Job
  <2> QED
    BY <2>1 DEF Copies, Writes, Cleans, Writing, Jobs
<1>3. CASE UpdateBegin
  <2>1. /\ pc = "update" /\ backupBa' = backupBa /\ mainBa' = mainBa
        /\ \/ backupBa = 0 /\ pc' = "main"
           \/ backupBa # 0 /\ pc' = "erase" /\ wr'.k = "backup"
    BY <1>3 DEF UpdateBegin, Go, Start, Job, layout
  <2>2. backupBa # 0 => mainBa \in Tables
    <3>1. Regions
      BY <2>1 DEF Here, Layout
    <3> QED
      BY <2>1, <3>1 DEF Copies, BothCopies, Copy, Regions
  <2> QED
    BY <1>1, <2>1, <2>2 DEF Copies, Writes, Cleans, Writing, Jobs
<1>4. CASE MainBegin
  <2>1. /\ pc = "main" /\ UNCHANGED <<backupBa, cache>>
        /\ \/ mainBa = 0 /\ pc' = "rebuild"
           \/ mainBa # 0 /\ pc' = "erase" /\ wr'.k = "main"
    BY <1>4 DEF MainBegin, Go, Start, Job, layout, tables
  <2>2. mainBa = 0 => backupBa = 0
    BY <2>1 DEF Here, Layout, Regions
  <2> QED
    BY <1>1, <2>1, <2>2 DEF Copies, Copy, Writes, Cleans, Writing, Jobs
<1>5. CASE UpdateDone \/ CreateRemap \/ CreateEnd \/ CreateNoSpare \/ Detach
  <2>1. /\ pc \in {"update", "create", "nospare", "idle"} /\ pc' \in {"update", "create"} \cup Rets
        /\ UNCHANGED <<mainBa, backupBa, cache>>
    BY <1>5 DEF UpdateDone, CreateRemap, CreateEnd, CreateNoSpare, Detach, Update, Go, Rest,
                Rets, TInv, TypeOK, layout, tables, control
  <2> QED
    BY <1>1, <2>1, RestsCopied DEF Copies, BothCopies, Copy, Rets
<1> QED
  BY <1>2, <1>3, <1>4, <1>5

(* An operation on a logical block changes no table,                       *)
LEMMA BlockTables ==
  ASSUME TInv, SInv, Here, BlockStep
  PROVE  Tables' = Tables /\ \A c \in Tables' : phys'[c] = phys[c]
<1>1. pc \in {"idle", "erase_lb", "unmap"}
  BY DEF BlockStep, WriteOk, WriteFails, EraseBegin, MarkBad, Refused, ErasedBlock,
         EraseFails, EraseLeavesBlock, EraseUnmaps, Writable, Accepts
<1>2. /\ TypeOK /\ mapBa \in Nat /\ \A c \in Tables : c \in Nat /\ MgmtStart <= c
  BY <1>1, RestingFacts
<1>3. \E b \in PB : /\ b \notin Tables
                    /\ \/ phys' = phys
                       \/ \E x : x.kind # "table" /\ phys' = [phys EXCEPT ![b] = x]
                    /\ bad \subseteq bad' /\ bad' \subseteq bad \cup {b}
  <2>1. ASSUME NEW lb \in LB, WriteOk(lb) \/ WriteFails(lb) \/ MarkBad(lb)
        PROVE  /\ map[lb] # None
               /\ \/ phys' = phys
                  \/ \E x : x.kind # "table" /\ phys' = [phys EXCEPT ![map[lb]] = x]
               /\ bad \subseteq bad' /\ bad' \subseteq bad \cup {map[lb]}
    BY <2>1, NoTable DEF WriteOk, WriteFails, MarkBad, Writable, Spoil, Fail
  <2>2. ASSUME ErasedBlock \/ EraseFails \/ EraseLeavesBlock
        PROVE  /\ map[cur] # None /\ cur \in LB
               /\ \/ phys' = phys
                  \/ \E x : x.kind # "table" /\ phys' = [phys EXCEPT ![map[cur]] = x]
               /\ bad \subseteq bad' /\ bad' \subseteq bad \cup {map[cur]}
    BY <1>2, <2>2, NoTable DEF ErasedBlock, EraseFails, EraseLeavesBlock, Spoil, Fail, flash,
         TInv, Control, TypeOK
  <2>3. 0 \in PB /\ 0 \notin Tables
    BY <1>2, BlockNumbers
  <2>4. CASE \E lb \in LB : EraseBegin(lb) \/ Refused(lb)
    BY <2>3, <2>4 DEF EraseBegin, Refused, vars, flash
  <2>5. CASE EraseUnmaps
    BY <2>3, <2>5 DEF EraseUnmaps, flash
  <2>6. CASE \E lb \in LB : WriteOk(lb) \/ WriteFails(lb) \/ MarkBad(lb)
    BY <1>1, <2>1, <2>6, BlockOutside
  <2>7. CASE ErasedBlock \/ EraseFails \/ EraseLeavesBlock
    BY <1>1, <2>2, <2>7, BlockOutside
  <2> QED
    BY <2>4, <2>5, <2>6, <2>7 DEF BlockStep
<1> QED
  BY <1>2, <1>3, OutsideChanged

(* and no copy.                                                            *)
LEMMA BlockCopies ==
  ASSUME TInv, SInv, Here, Copies, BlockStep
  PROVE  Copies'
<1>1. /\ pc \in {"idle", "erase_lb", "unmap"} /\ pc' \in {"idle", "update", "erase_lb"}
      /\ UNCHANGED <<mainBa, backupBa, cache>>
  BY DEF BlockStep, WriteOk, WriteFails, EraseBegin, MarkBad, Refused, ErasedBlock,
         EraseFails, EraseLeavesBlock, EraseUnmaps, RemapBlock, UpdateFirst, Update, Rest,
         Writable, Accepts, vars, layout, tables, control
<1>2. Tables' = Tables /\ \A c \in Tables' : phys'[c] = phys[c]
  BY BlockTables
<1>3. BothCopies
  BY <1>1 DEF Copies
<1> QED
  BY <1>1, <1>2, <1>3, RestsCopied DEF BothCopies, Copy

(* The tables that are loaded have the mapping that is loaded, except the  *)
(* older of two.                                                           *)
LEMMA LoadCopies ==
  ASSUME TInv, SInv, Chip, NEW ecc \in UnreadableSets,
         AttachOne(ecc) \/ AttachUnequal(ecc) \/ AttachEqual(ecc)
  PROVE  Copies'
<1> DEFINE f == Found(ecc)
           at == IF Newer(f) THEN f.second ELSE f.first
           last == IF f.second = None THEN f.first ELSE f.second
<1>1. /\ Load(f)
      /\ \/ f.second = None /\ pc' = "erase" /\ wr'.k = "front"
         \/ /\ f.second # None /\ pc' = "erase"
            /\ \/ phys[f.first].img.wc < phys[f.second].img.wc /\ wr'.k = "syncmain"
               \/ /\ phys[f.first].img.wc # phys[f.second].img.wc
                  /\ ~ (phys[f.first].img.wc < phys[f.second].img.wc)
                  /\ wr'.k = "syncbackup"
         \/ /\ f.second # None /\ phys[f.first].img.wc = phys[f.second].img.wc /\ pc' = "idle"
  BY DEF AttachOne, AttachUnequal, AttachEqual, Start, LoadDone, Rest, Job
<1>2. /\ f.first \in Tables /\ last \in Tables /\ at \in Tables
      /\ map' = Img(at).map /\ cache' = [wc |-> wc', st |-> st', map |-> map']
      /\ mainBa' = f.first /\ backupBa' = (IF f.second = None THEN 0 ELSE last)
      /\ UNCHANGED flash
      /\ (f.second # None => f.second = last) /\ (f.second = None => f.first = last)
  BY <1>1, LoadedImage
<1>3. Tables' = Tables /\ phys' = phys
  BY <1>2, SameTables DEF flash
<1>4. cache'.map = phys[at].img.map
  BY <1>2 DEF Img
<1>5. CASE f.second = None
  <2>1. at = f.first
    BY <1>5 DEF Newer
  <2> QED
    BY <1>1, <1>2, <1>3, <1>4, <1>5, <2>1 DEF Copies, Copy, Writes, Cleans, Writing, Jobs
<1>6. \A b \in Tables : phys[b].img.wc \in Nat
  BY Numeric, ImagesTyped DEF TInv, Img
<1>7. CASE f.second # None /\ phys[f.first].img.wc = phys[f.second].img.wc
  <2>1. phys[f.first].img = phys[f.second].img
    BY <1>2, <1>7 DEF Chip, TablesOrdered, Img
  <2>2. /\ mainBa' \in Tables' /\ phys'[mainBa'].img.map = cache'.map
        /\ backupBa' \in Tables' /\ phys'[backupBa'].img.map = cache'.map
    BY <1>2, <1>3, <1>4, <1>7, <2>1
  <2> QED
    BY <1>1, <1>2, <1>6, <1>7, <2>2, RestsCopied
<1>8. CASE /\ f.second # None /\ pc' = "erase"
           /\ phys[f.first].img.wc < phys[f.second].img.wc /\ wr'.k = "syncmain"
  <2>1. at = f.second
    BY <1>2, <1>6, <1>8 DEF Newer
  <2> QED
    BY <1>2, <1>3, <1>4, <1>8, <2>1 DEF Copies, Copy, Writes, Cleans, Writing, Jobs
<1>9. CASE /\ f.second # None /\ pc' = "erase"
           /\ ~ (phys[f.first].img.wc < phys[f.second].img.wc) /\ wr'.k = "syncbackup"
  <2>1. at = f.first
    BY <1>2, <1>6, <1>9 DEF Newer
  <2> QED
    BY <1>2, <1>3, <1>4, <1>9, <2>1 DEF Copies, Copy, Writes, Cleans, Writing, Jobs
<1> QED
  BY <1>1, <1>5, <1>7, <1>8, <1>9

(* A driver without tables, because it creates them or is off.             *)
LEMMA NoneCopied ==
  ASSUME mainBa' = 0, backupBa' = 0, pc' \notin {"main", "erase", "prog", "clean"}
  PROVE  Copies'
  BY DEF Copies, BothCopies, Writes, Cleans, Writing

(* The steps of an attach that creates the tables.                         *)
LEMMA NewCopies ==
  ASSUME TInv, SInv,
         \/ AttachNew \/ SignatureWritten \/ SignatureFails \/ NoSignatureBlock
         \/ \E ecc \in UnreadableSets : AttachNoTable(ecc)
  PROVE  Copies'
<1>1. pc \in {"off", "sign"} /\ UNCHANGED <<mainBa, backupBa>>
      /\ pc' \in {"sign", "gone", "rebuild"}
  BY DEF AttachNew, SignatureWritten, SignatureFails, NoSignatureBlock, AttachNoTable,
         CreateTables, Begin, Go, layout
<1>2. mainBa = 0 /\ backupBa = 0
  BY <1>1 DEF SInv, Unsigned
<1> QED
  BY <1>1, <1>2, NoneCopied

(* Every step keeps the copies that its caller relies on.                  *)
LEMMA NextCopies ==
  ASSUME TInv, SInv, LInv, CInv, [Next]_vars
  PROVE  CInv'
<1> SUFFICES ASSUME ~ skipped' PROVE Copies'
  BY DEF CInv
<1>1. ~ skipped /\ Copies /\ InjectiveMap(map) /\ Chip /\ (Attached => Here)
  BY SkippedStays DEF CInv, LInv, Here
<1>2. CASE LoopStep
  <2>1. Attached
    BY <1>2 DEF LoopStep, MgmtErased, MgmtEraseFails, MgmtProgramFails, CleanStep, CleanFails,
                Attached
  <2> QED
    BY <1>1, <1>2, <2>1, LoopCopies
<1>3. CASE \/ RebuildWritten \/ SecondWritten \/ BackupWritten \/ MainWritten
           \/ TmpWritten \/ RescueWritten \/ FrontWritten \/ BehindWritten
           \/ SyncMainWritten \/ SyncBackupWritten
  <2>1. Attached
    BY <1>3 DEF RebuildWritten, SecondWritten, BackupWritten, MainWritten, TmpWritten,
         RescueWritten, FrontWritten, BehindWritten, SyncMainWritten, SyncBackupWritten,
         Written, Attached
  <2> QED
    BY <1>1, <1>3, <2>1, WrittenCopies
<1>4. CASE \/ RebuildFailed \/ SecondFailed \/ SecondCleaned \/ BackupFailed \/ MainFailed
           \/ TmpFailed \/ RescueFailed \/ FrontCleaned \/ FrontFailed \/ BehindFailed
           \/ BehindCleaned \/ SyncMainFailed \/ SyncBackupFailed
  <2>1. Attached
    BY <1>4 DEF RebuildFailed, SecondFailed, SecondCleaned, BackupFailed, MainFailed, TmpFailed,
         RescueFailed, FrontCleaned, FrontFailed, BehindFailed, BehindCleaned, SyncMainFailed,
         SyncBackupFailed, GaveUp, Cleaned, Attached
  <2> QED
    BY <1>1, <1>4, <2>1, EndedCopies
<1>5. CASE \/ RebuildStart \/ UpdateBegin \/ UpdateDone \/ MainBegin
           \/ CreateRemap \/ CreateEnd \/ CreateNoSpare \/ Detach
  <2>1. Attached
    BY <1>5 DEF RebuildStart, UpdateBegin, UpdateDone, MainBegin, CreateRemap, CreateEnd,
         CreateNoSpare, Detach, Attached
  <2> QED
    BY <1>1, <1>5, <2>1, QuietCopies
<1>6. CASE BlockStep
  <2>1. Attached
    BY <1>6 DEF BlockStep, WriteOk, WriteFails, EraseBegin, MarkBad, Refused, ErasedBlock,
         EraseFails, EraseLeavesBlock, EraseUnmaps, Writable, Accepts, Attached
  <2> QED
    BY <1>1, <1>6, <2>1, BlockCopies
<1>7. CASE \E ecc \in UnreadableSets : AttachOne(ecc) \/ AttachUnequal(ecc) \/ AttachEqual(ecc)
  BY <1>1, <1>7, LoadCopies
<1>8. CASE \/ AttachNew \/ SignatureWritten \/ SignatureFails \/ NoSignatureBlock
           \/ \E ecc \in UnreadableSets : AttachNoTable(ecc)
  BY <1>8, NewCopies
<1>9. CASE Leave \/ Crash \/ CutShort
  BY <1>9, NoneCopied DEF Leave, Crash, CutShort, PowerOff
<1>10. CASE UNCHANGED vars
  BY <1>1, <1>10 DEF vars, flash, tables, layout, control, Copies, BothCopies, Copy, Tables,
                     Writes, Cleans, Writing
<1> QED
  BY <1>2, <1>3, <1>4, <1>5, <1>6, <1>7, <1>8, <1>9, <1>10
  DEF Next, TableStep, AttachStep, LoopStep, StaysOff

(* The four invariants together.                                           *)
LEMMA SpecCopies == Spec => [](TInv /\ SInv /\ LInv /\ CInv)
<1>1. Init => CInv
  BY DEF Init, Off, CInv, Copies, BothCopies, Writes, Cleans, Writing
<1>2. TInv /\ SInv /\ LInv /\ CInv /\ [Next]_vars => CInv'
  BY NextCopies
<1> QED
  BY <1>1, <1>2, SpecLaidOut, PTL DEF Spec

(* Between operations the tables the driver knows of are on the chip and   *)
(* have the same mapping, whatever nmbm_update_info_table_once() and its   *)
(* rescues had to do, until nmbm_map_block() passes over a bad block.      *)
THEOREM CopiesStayEqual == Spec => []CopiesAgree
<1>1. CInv => CopiesAgree
  <2> SUFFICES ASSUME Copies, pc = "idle", mainBa # 0
               PROVE  /\ phys[mainBa].kind = "table"
                      /\ backupBa # 0 => /\ phys[backupBa].kind = "table"
                                         /\ phys[backupBa].img.map = phys[mainBa].img.map
    BY DEF CInv, CopiesAgree
  <2> QED
    BY DEF Copies, BothCopies, Copy, Tables
<1> QED
  BY <1>1, SpecCopies, PTL

(* While the driver has two tables, there is one on the chip:              *)
LEMMA TwoTables ==
  ASSUME TInv, Copies, Attached => Here, backupBa # 0
  PROVE  Tables # {}
<1>1. CASE pc \in {"erase", "prog", "clean"}
  <2>1. Underway /\ Regions /\ TypeOK
    BY <1>1 DEF Here, Attached, Layout, TInv
  <2>2. mainBa # 0
    BY <2>1 DEF Regions
  <2> QED
    BY <1>1, <2>1, <2>2 DEF Copies, BothCopies, Copy, Underway, Writes, Cleans, Writing, Jobs
<1>2. CASE pc \notin {"erase", "prog", "clean"}
  BY <1>2 DEF Copies, BothCopies, Copy
<1> QED
  BY <1>1, <1>2

(* one that the table write or range erase under way does not touch.       *)
LEMMA TableSpared ==
  ASSUME TInv, Here, Copies, backupBa # 0, pc \in {"erase", "prog", "clean"}
  PROVE  \E c \in Tables : c < wr.from \/ wr.limit <= c
<1>1. /\ TypeOK /\ Underway /\ Regions /\ Passed
      /\ mainBa \in Nat /\ backupBa \in Nat /\ mapBa \in Nat /\ wr.limit \in Nat
      /\ wr.from \in Nat /\ MgmtStart \in Nat
  BY Numeric DEF Here, Layout, TInv
<1>2. CASE Writes("second") \/ Writes("front") \/ Writes("behind") \/ Writes("syncbackup")
  BY <1>1, <1>2 DEF Copies, Copy, Underway, Regions, From, Writes, Cleans, Writing
<1>3. CASE Writes("backup")
  BY <1>1, <1>3 DEF Copies, Underway, Regions, From, Writes, Writing
<1>4. CASE Writes("main") \/ Writes("tmp") \/ Writes("syncmain")
  BY <1>1, <1>4 DEF Copies, Copy, Underway, Regions, From, MainLimit, Writes, Cleans, Writing
<1>5. CASE Writes("rescue") \/ Cleans("behind")
  BY <1>1, <1>5 DEF Copies, Copy, Writes, Cleans, Writing
<1>6. CASE Cleans("second") \/ Cleans("front")
  BY <1>1, <1>6 DEF Copies, BothCopies, Copy, Underway, Regions, From, Writes, Cleans, Writing
<1>7. ~ Writes("rebuild")
  BY DEF Copies
<1> QED
  BY <1>1, <1>2, <1>3, <1>4, <1>5, <1>6, <1>7 DEF Copies, Writes, Cleans, Writing, Jobs

(* Whenever power is cut while the driver has two tables, the next         *)
(* nmbm_load_info_table() finds one, whichever torn blocks it cannot read, *)
(* until nmbm_map_block() passes over a bad block.                         *)
THEOREM NeverLost == Spec => []Recoverable
<1>1. TInv /\ SInv /\ LInv /\ CInv => Recoverable
  <2> SUFFICES ASSUME TInv, SInv, LInv, CInv, sigBa # 0, backupBa # 0, ~ skipped,
                      NEW ecc \in UnreadableSets
               PROVE  Found(ecc).first # None
    BY DEF Recoverable
  <2>1. Chip /\ Copies
    BY DEF LInv, CInv
  <2>2. Tables # {}
    BY <2>1, TwoTables DEF LInv, Here
  <2>3. Found(ecc).sig # None
    <3>1. sigBa \in Signed /\ Found(ecc).sig = FindSignature(phys, bad)
      BY DEF SInv, Below, Found
    <3>2. sigBa \in MgmtStart - 1 .. BlockCount - 1
      BY <3>1, BlockNumbers DEF SInv, OneSignature, Signed
    <3> QED
      BY <3>1, <3>2, FindSignatureNone DEF Signed
  <2> QED
    BY <2>1, <2>2, <2>3, FoundTables
<1> QED
  BY <1>1, SpecCopies, PTL

-----------------------------------------------------------------------------
(* The logical blocks with a promise, and the block that keeps it.         *)
Vowed == {lb \in LB : promise[lb] # "none"}
Keeps(lb, p) == /\ phys[p] = (IF promise[lb] = "data" THEN Data(lb) ELSE Blank)
                /\ p \notin bad

(* A device that has no table any more, and writes none.                   *)
Lost == protected /\ Tables = {}

(* Where a promise is kept: in every table, and in what is in memory and   *)
(* will be written.                                                        *)
OnChip(lb, p) == \A b \in Tables : phys[b].img.map[lb] = p /\ phys[b].img.st[p] = "good"
InMemory(lb, p) == /\ map[lb] = p /\ st[p] = "good" /\ lb < dataCount
                   /\ cache.map[lb] = p \/ Lost
Vow(lb, p) == Keeps(lb, p) /\ OnChip(lb, p) /\ (Attached => InMemory(lb, p))
Vows == \A lb \in Vowed : \E p \in PB : Vow(lb, p)

(* A mapping that differs from the one last written is about to be written.*)
Pending == dirty /\ ~ protected /\ pc \in {"update", "create", "nospare", "unmap"}
Flushed == \A lb \in LB : map[lb] # None => cache.map[lb] = map[lb] \/ Pending \/ Lost

(* Where the erase of a logical block and the attach have got to; which    *)
(* steps find the device writable; and that a device is protected while it *)
(* erases only for want of any table.                                      *)
Erasing == pc \in {"erase_lb", "unmap"} \/ ret \in {"erase_lb", "unmap"}
Phases ==
    /\ pc = "idle" => ret = "idle"
    /\ pc \in {"off", "sign", "create", "rebuild", "main", "erase", "prog", "clean"} => ~ protected
    /\ ret = "create" /\ pc # "gone" => ~ protected
    /\ Erasing => cur < dataCount /\ (protected => Tables = {})

FInv == ~ skipped => (Attached => Flushed) /\ Phases

(* Nothing is promised of a chip that has no table when it is switched on, *)
(* before the first tables are created, nor of the logical block that is   *)
(* being erased.                                                           *)
Unpromised ==
    /\ pc = "off" /\ Tables = {} => Vowed = {}
    /\ pc = "sign" => Vowed = {}
    /\ Erasing => cur \notin Vowed

VInv == ~ skipped => Vows /\ Unpromised

-----------------------------------------------------------------------------
(* What holds of a promise while the driver is attached: its block is      *)
(* outside the management area, or above the spare pool.                   *)
LEMMA VowedBlock ==
  ASSUME TypeOK, Memory, NEW lb \in LB, NEW p \in PB, map[lb] = p
  PROVE  p < MgmtStart \/ topBa < p
  BY DEF Memory, Sound

(* A step that writes or erases between MgmtStart and the top of the spare *)
(* pool only, and writes no table but the one in memory, keeps them all.   *)
LEMMA AwayKeeps ==
  ASSUME TypeOK, Memory, Vows, Attached, UNCHANGED <<promise, map, dataCount>>,
         cache' = cache \/ cache'.map = map,
         \A a \in PB : a < MgmtStart \/ topBa < a => phys'[a] = phys[a] /\ (a \in bad' => a \in bad),
         \A a \in PB : st[a] = "good" => st'[a] = "good" \/ a \in bad',
         Lost => Lost',
         \A b \in Tables' : \/ b \in Tables /\ phys'[b] = phys[b]
                            \/ phys'[b].img = cache /\ ~ Lost
  PROVE  Vows'
<1> SUFFICES ASSUME NEW lb \in LB, promise[lb] # "none"
             PROVE  \E p \in PB : Vow(lb, p)'
  BY DEF Vows, Vowed
<1>1. PICK p \in PB : Vow(lb, p)
  BY DEF Vows, Vowed
<1>2. /\ Keeps(lb, p) /\ OnChip(lb, p) /\ map[lb] = p /\ st[p] = "good" /\ lb < dataCount
      /\ cache.map[lb] = p \/ Lost
  BY <1>1 DEF Vow, InMemory
<1>3. phys'[p] = phys[p] /\ p \notin bad'
  BY <1>2, VowedBlock DEF Keeps
<1>4. Keeps(lb, p)'
  BY <1>2, <1>3 DEF Keeps
<1>5. cache.st[p] = "good"
  BY <1>2 DEF Memory, NoMore
<1>6. OnChip(lb, p)'
  BY <1>2, <1>5 DEF OnChip
<1>7. InMemory(lb, p)'
  BY <1>2, <1>3 DEF InMemory
<1> QED
  BY <1>4, <1>6, <1>7 DEF Vow

(* A write of tables does, from block to block,                            *)
LEMMA LoopVows ==
  ASSUME TInv, SInv, Here, Vows, Phases, LoopStep
  PROVE  Vows'
<1>1. /\ Attached /\ pc \in {"erase", "prog", "clean"} /\ cache' = cache
      /\ \A c \in PB : c < wr.from \/ wr.limit <= c => phys'[c] = phys[c] /\ (c \in bad' => c \in bad)
  BY LoopSpares
<1>2. /\ UNCHANGED <<promise, map, dataCount>>
      /\ Tables' \subseteq Tables /\ \A c \in Tables' : phys'[c] = phys[c]
      /\ \A a \in PB : st'[a] = st[a] \/ (st'[a] = "bad" /\ a \in bad')
  <2>1. \E b \in PB, n \in Nat :
           /\ Tables' \subseteq Tables /\ b \notin Tables'
           /\ \A c \in Tables' : phys'[c] = phys[c]
           /\ \A a \in PB : st'[a] = st[a] \/ (st'[a] = "bad" /\ a \in bad')
           /\ UNCHANGED <<map, wc, cache, layout, fixed, ret, cur, history>>
    BY <1>1, LoopEffect
  <2> QED
    BY <2>1 DEF fixed, history
<1>3. TypeOK /\ Memory /\ ~ Lost
  BY <1>1 DEF TInv, Here, Layout, Phases, Lost
<1>4. \A a \in PB : a < MgmtStart \/ topBa < a => a < wr.from \/ wr.limit <= a
  <2>1. /\ MgmtStart \in Nat /\ topBa \in Nat /\ wr.from \in Nat /\ wr.limit \in Nat
        /\ PB \subseteq Nat /\ MgmtStart <= wr.from /\ wr.limit <= topBa
    BY <1>1, <1>3, Numeric DEF Here, Layout, Passed, Writing
  <2> QED
    BY <2>1
<1> QED
  BY <1>1, <1>2, <1>3, <1>4, AwayKeeps

(* when it ends with a table,                                              *)
LEMMA WrittenVows ==
  ASSUME TInv, SInv, Here, Vows, Phases,
         \/ RebuildWritten \/ SecondWritten \/ BackupWritten \/ MainWritten
         \/ TmpWritten \/ RescueWritten \/ FrontWritten \/ BehindWritten
         \/ SyncMainWritten \/ SyncBackupWritten
  PROVE  Vows'
<1>1. /\ pc = "prog" /\ phys' = [phys EXCEPT ![wr.ba] = Table(cache)] /\ bad' = bad
      /\ UNCHANGED <<cache, st, promise, map, dataCount>>
  BY DEF RebuildWritten, SecondWritten, BackupWritten, MainWritten, TmpWritten, RescueWritten,
         FrontWritten, BehindWritten, SyncMainWritten, SyncBackupWritten, Written, tables, fixed,
         history
<1>2. /\ TypeOK /\ Attached /\ Memory /\ ~ Lost /\ MgmtStart \in Nat /\ topBa \in Nat
      /\ wr.ba \in Nat /\ MgmtStart <= wr.ba /\ wr.ba <= topBa
  <2>1. TypeOK /\ Attached /\ Memory /\ ~ Lost
    BY <1>1, WritingFacts DEF Here, Layout, Phases, Lost
  <2>2. /\ wr.ba \in Nat /\ wr.limit \in Nat /\ wr.from \in Nat /\ topBa \in Nat /\ MgmtStart \in Nat
        /\ MgmtStart <= wr.from /\ wr.from <= wr.ba /\ wr.ba < wr.limit /\ wr.limit <= topBa
    BY <1>1, WritingFacts
  <2> QED
    BY <2>1, <2>2
<1>3. \A a \in PB : phys'[a] = IF a = wr.ba THEN Table(cache) ELSE phys[a]
  BY <1>1, <1>2 DEF TypeOK
<1>4. \A a \in PB : a < MgmtStart \/ topBa < a => phys'[a] = phys[a]
  BY <1>2, <1>3, BlockNumbers
<1>5. Table(cache).img = cache
  BY DEF Table
<1>6. \A b \in Tables' : (b \in Tables /\ phys'[b] = phys[b]) \/ phys'[b].img = cache
  BY <1>1, <1>3, <1>5 DEF Tables
<1> QED
  BY <1>1, <1>2, <1>4, <1>6, AwayKeeps

(* when it ends without one,                                               *)
LEMMA EndedVows ==
  ASSUME TInv, SInv, Here, Vows, Phases,
         \/ RebuildFailed \/ SecondFailed \/ SecondCleaned \/ BackupFailed \/ MainFailed
         \/ TmpFailed \/ RescueFailed \/ FrontCleaned \/ FrontFailed \/ BehindFailed
         \/ BehindCleaned \/ SyncMainFailed \/ SyncBackupFailed
  PROVE  Vows'
<1>1. /\ pc \in {"erase", "clean"} /\ Usable(wr.ba, wr.limit) = {} /\ UNCHANGED flash
      /\ st' = Seen(wr.ba, wr.limit) /\ UNCHANGED <<cache, promise, map, dataCount>>
  BY DEF RebuildFailed, SecondFailed, SecondCleaned, BackupFailed, MainFailed, TmpFailed,
         RescueFailed, FrontCleaned, FrontFailed, BehindFailed, BehindCleaned, SyncMainFailed,
         SyncBackupFailed, GaveUp, Cleaned, fixed, history
<1>2. TypeOK /\ Attached /\ Memory /\ ~ Lost
  BY <1>1, EndedFacts DEF Here, Layout, Phases, Lost
<1>3. Tables' = Tables /\ phys' = phys /\ bad' = bad
  BY <1>1, SameTables DEF flash
<1>4. \A a \in PB : st[a] = "good" => st'[a] = "good" \/ a \in bad'
  BY <1>1, <1>3 DEF Seen, Marked
<1> QED
  BY <1>1, <1>2, <1>3, <1>4, AwayKeeps

(* and between the flash operations.                                       *)
LEMMA QuietVows ==
  ASSUME TInv, SInv, Here, Vows,
         \/ RebuildStart \/ UpdateBegin \/ UpdateDone \/ MainBegin
         \/ CreateEnd \/ CreateNoSpare \/ Detach
  PROVE  Vows'
<1>1. /\ UNCHANGED flash /\ UNCHANGED <<st, promise, map, dataCount, protected>> /\ Attached
      /\ cache' = cache \/ cache'.map = map
  BY DEF RebuildStart, UpdateBegin, UpdateDone, MainBegin, CreateEnd, CreateNoSpare, Detach,
         tables, fixed, history, Attached
<1>2. Tables' = Tables /\ phys' = phys /\ bad' = bad
  BY <1>1, SameTables DEF flash
<1>3. TypeOK /\ Memory
  BY DEF TInv, Here, Layout
<1>4. Lost => Lost'
  BY <1>1, <1>2 DEF Lost
<1> QED
  BY <1>1, <1>2, <1>3, <1>4, AwayKeeps

-----------------------------------------------------------------------------
(* A step of one logical block touches its block and no table: it keeps    *)
(* the promises to the others.                                             *)
LEMMA OthersVowed ==
  ASSUME TypeOK, InjectiveMap(map), Vows, Attached, NEW l \in LB, NEW k \in LB, k # l,
         promise'[k] = promise[k], promise[k] # "none",
         Tables' \subseteq Tables, \A c \in Tables' : phys'[c] = phys[c],
         \A a \in PB : a # map[l] => phys'[a] = phys[a] /\ (a \in bad' => a \in bad),
         Attached' =>
            /\ map'[k] = map[k] /\ cache' = cache /\ protected' = protected
            /\ dataCount' = dataCount \/ dataCount' = dataCount + 1
            /\ \A a \in PB : a # map[l] => st'[a] = st[a]
  PROVE  \E p \in PB : Vow(k, p)'
<1>1. PICK p \in PB : Vow(k, p)
  BY DEF Vows, Vowed
<1>2. /\ Keeps(k, p) /\ OnChip(k, p) /\ map[k] = p /\ st[p] = "good" /\ k < dataCount
      /\ cache.map[k] = p \/ Lost
  BY <1>1 DEF Vow, InMemory
<1>3. p # map[l]
  <2>1. p # None
    BY BlockNumbers DEF None
  <2> QED
    BY <1>2, <2>1 DEF InjectiveMap
<1>4. Keeps(k, p)'
  BY <1>2, <1>3 DEF Keeps
<1>5. OnChip(k, p)'
  BY <1>2 DEF OnChip
<1>6. ASSUME Attached' PROVE InMemory(k, p)'
  <2>1. Lost => Lost'
    BY <1>6 DEF Lost
  <2>2. k < dataCount'
    BY <1>2, <1>6, BlockNumbers DEF TypeOK
  <2> QED
    BY <1>2, <1>3, <1>6, <2>1, <2>2 DEF InMemory
<1> QED
  BY <1>4, <1>5, <1>6 DEF Vow

(* The steps that map the logical blocks left over at first,               *)
LEMMA CreateRemapVows ==
  ASSUME TInv, SInv, Here, Vows, TInv', CreateRemap
  PROVE  Vows'
<1>1. /\ dataCount < MgmtStart /\ dataCount' = dataCount + 1 /\ pc = "create" /\ UNCHANGED flash
      /\ UNCHANGED <<st, promise, cache, protected>>
      /\ \E b : map' = [map EXCEPT ![dataCount] = b]
  BY DEF CreateRemap, Mapped
<1>2. TypeOK /\ Attached /\ dataCount \in LB /\ InjectiveMap(map)
  BY <1>1, BlockNumbers DEF TInv, TypeOK, Attached, Here
<1>3. Tables' = Tables /\ phys' = phys /\ bad' = bad
  BY <1>1, SameTables DEF flash
<1> SUFFICES ASSUME NEW k \in LB, promise[k] # "none"
             PROVE  \E p \in PB : Vow(k, p)'
  BY <1>1 DEF Vows, Vowed
<1>4. k # dataCount
  <2>1. k < dataCount
    BY <1>2 DEF Vows, Vowed, Vow, InMemory
  <2> QED
    BY <2>1, <1>2, BlockNumbers
<1>5. map'[k] = map[k]
  BY <1>1, <1>4 DEF TInv, TypeOK, Mappings
<1> QED
  BY <1>1, <1>2, <1>3, <1>4, <1>5, OthersVowed

-----------------------------------------------------------------------------
(* What a step of logical block l changes: its physical block, what memory *)
(* says of it, and no table.                                               *)
Touches(l) ==
    /\ UNCHANGED <<cache, dataCount, protected>>
    /\ Tables' = Tables /\ \A c \in Tables' : phys'[c] = phys[c]
    /\ \A a \in PB : a # map[l] =>
           phys'[a] = phys[a] /\ (a \in bad' => a \in bad) /\ st'[a] = st[a]
    /\ \A k \in LB : k # l => map'[k] = map[k] /\ promise'[k] = promise[k]

(* The calls on logical block l,                                           *)
LEMMA CallTouches ==
  ASSUME TInv, SInv, Here, NEW l \in LB,
         WriteOk(l) \/ WriteFails(l) \/ EraseBegin(l) \/ MarkBad(l)
  PROVE  Touches(l)
<1>1. /\ pc = "idle" /\ map[l] # None
      /\ \/ phys' = phys
         \/ \E x : x.kind # "table" /\ phys' = [phys EXCEPT ![map[l]] = x]
      /\ bad' = bad \/ bad' = bad \cup {map[l]}
      /\ st' = st \/ \E s : st' = [st EXCEPT ![map[l]] = s]
      /\ map' = map \/ map' = [map EXCEPT ![l] = None]
      /\ \E x : promise' = [promise EXCEPT ![l] = x]
      /\ UNCHANGED <<cache, dataCount, protected>>
  <2>1. CASE WriteOk(l)
    BY <2>1, NoTable DEF WriteOk, Writable, Accepts, Promise, tables, fixed
  <2>2. CASE WriteFails(l)
    BY <2>2, NoTable DEF WriteFails, Writable, Accepts, Spoil, SetState, Promise, fixed
  <2>3. CASE EraseBegin(l)
    BY <2>3 DEF EraseBegin, Accepts, Promise, flash, tables, fixed
  <2>4. CASE MarkBad(l)
    BY <2>4 DEF MarkBad, Accepts, Fail, SetState, Promise, fixed
  <2> QED
    BY <2>1, <2>2, <2>3, <2>4
<1>2. TypeOK /\ map[l] \in PB /\ map[l] \notin Tables
  BY <1>1, BlockOutside DEF TInv
<1>3. Tables' = Tables /\ \A c \in Tables' : phys'[c] = phys[c]
  BY <1>1, <1>2, OutsideChanged
<1>4. \A a \in PB : a # map[l] => phys'[a] = phys[a]
  BY <1>1, <1>2 DEF TypeOK
<1>5. \A a \in PB : a # map[l] => st'[a] = st[a]
  BY <1>1, <1>2 DEF TypeOK
<1>6. \A a \in PB : a # map[l] => (a \in bad' => a \in bad)
  BY <1>1
<1>7. \A k \in LB : k # l => map'[k] = map[k] /\ promise'[k] = promise[k]
  BY <1>1, <1>2 DEF TypeOK, Mappings
<1> QED
  BY <1>1, <1>3, <1>4, <1>5, <1>6, <1>7 DEF Touches

(* and the steps of an erase, for the logical block cur.                   *)
LEMMA EraseTouches ==
  ASSUME TInv, SInv, Here, ErasedBlock \/ EraseFails \/ EraseLeavesBlock \/ EraseUnmaps
  PROVE  Touches(cur)
<1>1. /\ pc \in {"erase_lb", "unmap"} /\ cur \in LB
      /\ map[cur] # None \/ UNCHANGED flash
      /\ \/ phys' = phys
         \/ \E x : x.kind # "table" /\ phys' = [phys EXCEPT ![map[cur]] = x]
      /\ bad' = bad \/ bad' = bad \cup {map[cur]}
      /\ \E s : map' = map \/ map' = [map EXCEPT ![cur] = s]
      /\ \E x : promise' = promise \/ promise' = [promise EXCEPT ![cur] = x]
      /\ UNCHANGED <<cache, dataCount, protected>>
  <2>1. CASE ErasedBlock
    BY <2>1, NoTable DEF ErasedBlock, Promise, tables, fixed, TInv, Control, TypeOK
  <2>2. CASE EraseFails
    BY <2>2, NoTable DEF EraseFails, RemapBlock, Mapped, Fail, Spoil, fixed, TInv, Control, TypeOK
  <2>3. CASE EraseLeavesBlock
    BY <2>3, NoTable DEF EraseLeavesBlock, RemapBlock, Mapped, flash, fixed, TInv, Control, TypeOK
  <2>4. CASE EraseUnmaps
    BY <2>4 DEF EraseUnmaps, flash, fixed, history, TInv, Control, TypeOK
  <2> QED
    BY <2>1, <2>2, <2>3, <2>4
<1>2. TypeOK /\ (map[cur] # None => map[cur] \in PB /\ map[cur] \notin Tables)
  BY <1>1, BlockOutside DEF TInv
<1>3. Tables' = Tables /\ \A c \in Tables' : phys'[c] = phys[c]
  BY <1>1, <1>2, OutsideChanged, SameTables DEF flash
<1>4. \A a \in PB : a # map[cur] => phys'[a] = phys[a]
  BY <1>1, <1>2 DEF TypeOK
<1>5. \A a \in PB : a # map[cur] => st'[a] = st[a]
  <2>1. \A a \in PB : a # map[cur] =>
           /\ st[a] = Marked(st, {map[cur]})[a]
           /\ st[a] = Left(st, map[cur])[a]
           /\ st[a] = Left(Marked(st, {map[cur]}), map[cur])[a]
    BY <1>2 DEF TypeOK, Marked, Left
  <2>2. \/ st' = st \/ st' = Marked(st, {map[cur]}) \/ st' = Left(st, map[cur])
        \/ st' = Left(Marked(st, {map[cur]}), map[cur])
    BY DEF ErasedBlock, EraseFails, EraseLeavesBlock, EraseUnmaps, RemapBlock, tables
  <2> QED
    BY <2>1, <2>2
<1>6. \A a \in PB : a # map[cur] => (a \in bad' => a \in bad)
  BY <1>1
<1>7. \A k \in LB : k # cur => map'[k] = map[k] /\ promise'[k] = promise[k]
  BY <1>1, <1>2 DEF TypeOK, Mappings
<1> QED
  BY <1>1, <1>3, <1>4, <1>5, <1>6, <1>7 DEF Touches

(* So every operation on a logical block keeps the promises to the others. *)
LEMMA OthersKept ==
  ASSUME TypeOK, InjectiveMap(map), Vows, Attached, NEW l \in LB, Touches(l),
         promise'[l] # "none" => \E p \in PB : Vow(l, p)'
  PROVE  Vows'
<1> SUFFICES ASSUME NEW k \in LB, promise'[k] # "none"
             PROVE  \E p \in PB : Vow(k, p)'
  BY DEF Vows, Vowed
<1>1. CASE k = l
  BY <1>1
<1>2. CASE k # l
  <2>1. promise'[k] = promise[k] /\ promise[k] # "none" /\ map'[k] = map[k] /\ cache' = cache
        /\ protected' = protected /\ dataCount' = dataCount
    BY <1>2 DEF Touches
  <2>2. /\ Tables' \subseteq Tables /\ \A c \in Tables' : phys'[c] = phys[c]
        /\ \A a \in PB : a # map[l] => phys'[a] = phys[a] /\ (a \in bad' => a \in bad)
        /\ \A a \in PB : a # map[l] => st'[a] = st[a]
    BY DEF Touches
  <2> QED
    BY <1>2, <2>1, <2>2, OthersVowed
<1> QED
  BY <1>1, <1>2

(* An erase promises an erased block.                                      *)
LEMMA ErasedVow ==
  ASSUME TInv, SInv, Here, Copies, Flushed, Phases, ErasedBlock,
         NEW l \in LB, l = cur, NEW p \in PB, p = map[l]
  PROVE  Vow(l, p)'
<1>1. /\ pc = "erase_lb" /\ phys' = [phys EXCEPT ![p] = Blank]
      /\ promise' = [promise EXCEPT ![l] = "blank"]
      /\ st[p] = "good" /\ p \notin bad /\ p # None /\ l < dataCount /\ p = map[l]
      /\ bad' = bad /\ UNCHANGED <<st, map, cache, dataCount, protected>>
  BY DEF ErasedBlock, Erasable, Promise, tables, fixed, TInv, Control, Phases, Erasing
<1>2. l \in LB /\ TypeOK /\ p \in PB /\ p \notin Tables
  BY <1>1, BlockOutside DEF TInv, TypeOK
<1>3. Tables' = Tables /\ \A c \in Tables' : phys'[c] = phys[c]
  BY <1>1, <1>2, NoTable, OutsideChanged
<1>4. cache.map[l] = p \/ Lost
  BY <1>1, <1>2 DEF Flushed, Pending
<1>5. Keeps(l, p)'
  <2>1. phys'[p] = Blank /\ promise'[l] = "blank"
    BY <1>1, <1>2 DEF TypeOK
  <2> QED
    BY <1>1, <2>1 DEF Keeps
<1>6. OnChip(l, p)'
  <2> SUFFICES ASSUME NEW b \in Tables
               PROVE  phys[b].img.map[l] = p /\ phys[b].img.st[p] = "good"
    BY <1>1, <1>3 DEF OnChip
  <2>1. BothCopies /\ b \in {mainBa, backupBa} /\ MgmtStart <= b /\ b \in Nat /\ Memory /\ Known
        /\ MgmtStart \in Nat /\ 0 < MgmtStart
    BY <1>1, RestingFacts DEF Copies
  <2>2. phys[b].img.map = cache.map
    BY <2>1 DEF BothCopies, Copy
  <2>3. cache.map[l] = p
    BY <1>4 DEF Lost
  <2>4. phys[b].img.st[p] = "good"
    BY <1>1, <1>2, <2>1 DEF Memory, Known, NoMore, Img
  <2> QED
    BY <2>2, <2>3, <2>4
<1>7. InMemory(l, p)'
  <2>1. Lost => Lost'
    BY <1>1, <1>3 DEF Lost
  <2> QED
    BY <1>1, <1>4, <2>1 DEF InMemory
<1> QED
  BY <1>1, <1>5, <1>6, <1>7 DEF Vow

(* A write to an erased block promises what it wrote.                      *)
LEMMA WriteVow ==
  ASSUME TInv, SInv, Here, Vows, NEW l \in LB, WriteOk(l), promise'[l] # "none",
         NEW p \in PB, p = map[l]
  PROVE  Vow(l, p)'
<1>1. /\ pc = "idle" /\ p # None /\ p = map[l] /\ phys' = [phys EXCEPT ![p] = Data(l)]
      /\ promise' = [promise EXCEPT ![l] = IF promise[l] = "blank" THEN "data" ELSE "none"]
      /\ bad' = bad /\ UNCHANGED <<st, map, cache, dataCount, protected>>
  BY DEF WriteOk, Writable, Accepts, Promise, tables, fixed
<1>2. TypeOK /\ Attached /\ p \in PB
  BY <1>1, BlockOutside DEF TInv, Attached
<1>3. promise[l] = "blank" /\ promise'[l] = "data"
  BY <1>1, <1>2 DEF TypeOK
<1>4. Vow(l, p)
  BY <1>2, <1>3 DEF Vows, Vowed, Vow, InMemory
<1>5. Tables' = Tables /\ \A c \in Tables' : phys'[c] = phys[c]
  BY CallTouches DEF Touches
<1>6. phys'[p] = Data(l)
  BY <1>1, <1>2 DEF TypeOK
<1>7. Lost => Lost'
  BY <1>1, <1>5 DEF Lost
<1>8. Keeps(l, p)'
  BY <1>1, <1>3, <1>4, <1>6 DEF Vow, Keeps
<1>9. OnChip(l, p)'
  BY <1>1, <1>4, <1>5 DEF Vow, OnChip
<1>10. InMemory(l, p)'
  BY <1>1, <1>2, <1>4, <1>7 DEF Vow, InMemory
<1> QED
  BY <1>1, <1>8, <1>9, <1>10 DEF Vow

(* The operations on a logical block keep all promises.                    *)
LEMMA BlockVows ==
  ASSUME TInv, SInv, Here, Copies, Vows, Flushed, Phases, Unpromised, TInv', BlockStep
  PROVE  Vows'
<1>1. TypeOK /\ InjectiveMap(map) /\ cur \in LB
  BY DEF TInv, TypeOK, Here
<1>2. ASSUME NEW l \in LB, WriteOk(l) \/ WriteFails(l) \/ EraseBegin(l) \/ MarkBad(l)
      PROVE  Vows'
  <2>1. Attached /\ Touches(l)
    BY <1>2, CallTouches DEF WriteOk, WriteFails, EraseBegin, MarkBad, Writable, Accepts, Attached
  <2>2. map[l] \in PB
    BY <1>2, BlockOutside DEF WriteOk, WriteFails, EraseBegin, MarkBad, Writable, Accepts
  <2>3. WriteOk(l) \/ promise'[l] = "none"
    BY <1>1, <1>2 DEF WriteFails, EraseBegin, MarkBad, Promise, TypeOK
  <2>4. WriteOk(l) /\ promise'[l] # "none" => \E p \in PB : Vow(l, p)'
    BY <2>2, WriteVow
  <2> QED
    BY <1>1, <2>1, <2>3, <2>4, OthersKept
<1>3. CASE ErasedBlock \/ EraseFails \/ EraseLeavesBlock \/ EraseUnmaps
  <2>1. Attached /\ Touches(cur)
    BY <1>3, EraseTouches DEF ErasedBlock, EraseFails, EraseLeavesBlock, EraseUnmaps, Attached
  <2>2. ErasedBlock \/ promise'[cur] = "none"
    <3>1. promise[cur] = "none"
      BY <1>1, <1>3 DEF Unpromised, Erasing, Vowed, ErasedBlock, EraseFails, EraseLeavesBlock,
                        EraseUnmaps
    <3> QED
      BY <1>3, <3>1 DEF EraseFails, EraseLeavesBlock, EraseUnmaps, RemapBlock, history
  <2>3. ErasedBlock => map[cur] \in PB
    BY <1>1, BlockOutside DEF ErasedBlock, TInv, Control
  <2>4. PICK l \in LB : l = cur
    BY <1>1
  <2>5. ErasedBlock => \E p \in PB : Vow(l, p)'
    BY <2>3, <2>4, ErasedVow
  <2>6. promise'[l] # "none" => ErasedBlock
    BY <2>2, <2>4
  <2> QED
    BY <1>1, <2>1, <2>4, <2>5, <2>6, OthersKept
<1>4. CASE \E l \in LB : Refused(l)
  <2>1. UNCHANGED vars
    BY <1>4 DEF Refused
  <2>2. Vows' = Vows
    BY <2>1 DEF vars, flash, tables, layout, fixed, control, history, Vows, Vowed, Vow, Keeps,
                OnChip, InMemory, Lost, Tables, Attached
  <2> QED
    BY <2>2
<1> QED
  BY <1>2, <1>3, <1>4 DEF BlockStep

(* A table that is loaded keeps the promises: no block with one is torn.   *)
LEMMA LoadVows ==
  ASSUME TInv, SInv, Chip, Vows, NEW ecc \in UnreadableSets, NEW f, f = Found(ecc), Load(f)
  PROVE  Vows'
<1> DEFINE at == IF Newer(f) THEN f.second ELSE f.first
           last == IF f.second = None THEN f.first ELSE f.second
<1>1. /\ at \in Tables /\ Img(at) \in Image /\ map' = Img(at).map
      /\ cache' = [wc |-> wc', st |-> st', map |-> map'] /\ UNCHANGED flash
  BY LoadedImage
<1>2. /\ dataCount' = LoadedCount(Img(at).map) /\ promise' = promise
      /\ st' = IF Newer(f) THEN Img(at).st ELSE Marked(Img(at).st, f.lost2)
  BY DEF Load, Img, history
<1>3. f.lost2 \subseteq bad \cup ecc /\ \A b \in ecc : phys[b] = Torn
  BY DEF Found, UnreadableSets
<1>4. at \in PB /\ Img(at).map \in Mappings /\ Img(at).st \in [PB -> BlockStates]
  BY <1>1 DEF Tables, Image
<1> HIDE DEF at, last
<1>5. Tables' = Tables /\ phys' = phys /\ bad' = bad
  BY <1>1, SameTables DEF flash
<1>6. cache'.map = map'
  BY <1>1
<1>7. ASSUME NEW lb \in LB, promise'[lb] # "none"
      PROVE  \E p \in PB : Vow(lb, p)'
  <2>1. PICK p \in PB : Keeps(lb, p) /\ OnChip(lb, p)
    BY <1>2, <1>7 DEF Vows, Vowed, Vow
  <2>2. Img(at).map[lb] = p /\ Img(at).st[p] = "good"
    BY <1>1, <2>1 DEF OnChip, Img
  <2>3. phys[p] # Torn /\ p \notin bad
    BY <2>1 DEF Keeps, Data, Blank, Torn
  <2>4. st'[p] = "good"
    BY <1>2, <1>3, <1>4, <2>2, <2>3 DEF Marked
  <2>5. lb < dataCount'
    <3> DEFINE used == {k \in LB : Img(at).map[k] # None}
    <3>1. lb \in used
      BY <2>2, BlockNumbers DEF None
    <3>2. used \subseteq 0 .. MgmtStart /\ MgmtStart \in Nat
      BY BlockNumbers DEF LB
    <3>3. Highest(used) \in used /\ lb <= Highest(used)
      BY <3>1, <3>2, HighestIn
    <3>4. dataCount' = Highest(used) + 1
      BY <1>2, <3>1 DEF LoadedCount
    <3> HIDE DEF used
    <3>5. lb \in 0 .. MgmtStart /\ Highest(used) \in 0 .. MgmtStart
      BY <3>1, <3>2, <3>3
    <3> QED
      BY <3>2, <3>3, <3>4, <3>5
  <2>6. Keeps(lb, p)'
    BY <1>2, <1>5, <2>1 DEF Keeps
  <2>7. OnChip(lb, p)'
    BY <1>5, <2>1 DEF OnChip
  <2>8. InMemory(lb, p)'
    BY <1>1, <1>6, <2>2, <2>4, <2>5 DEF InMemory
  <2> QED
    BY <2>6, <2>7, <2>8 DEF Vow
<1> QED
  BY <1>7 DEF Vows, Vowed

(* A chip with a table has a signature that is found.                      *)
LEMMA SignatureThere ==
  ASSUME SInv, Chip, NEW b \in Tables, NEW f, f = Found({})
  PROVE  f.sig # None
<1>1. PICK s \in Signed : MgmtStart <= b /\ b + 1 < s
  BY DEF Chip, TablesPlaced
<1>2. s \in MgmtStart - 1 .. BlockCount - 1
  BY <1>1, BlockNumbers DEF SInv, OneSignature, Signed
<1>3. f.sig = FindSignature(phys, bad)
  BY DEF Found
<1> QED
  BY <1>1, <1>2, <1>3, FindSignatureNone DEF Signed

-----------------------------------------------------------------------------
(* A chip without promises: the driver creates its first tables.           *)
LEMMA NewVows ==
  ASSUME TInv, SInv, Chip, Unpromised,
         \/ AttachNew \/ SignatureWritten \/ SignatureFails \/ NoSignatureBlock
         \/ \E ecc \in UnreadableSets : AttachNoTable(ecc)
  PROVE  Vows' /\ Unpromised'
<1>1. /\ pc \in {"off", "sign"} /\ pc' \in {"sign", "gone", "rebuild"}
      /\ promise' = promise
      /\ pc' = "sign" => UNCHANGED <<ret, cur>>
  <2>1. CASE AttachNew
    BY <2>1 DEF AttachNew, Begin, history
  <2>2. CASE SignatureWritten
    BY <2>2 DEF SignatureWritten, CreateTables, Go, history
  <2>3. CASE SignatureFails
    BY <2>3 DEF SignatureFails, history
  <2>4. CASE NoSignatureBlock
    BY <2>4 DEF NoSignatureBlock, Go, history
  <2>5. CASE \E ecc \in UnreadableSets : AttachNoTable(ecc)
    BY <2>5 DEF AttachNoTable, Begin, CreateTables, Go, history
  <2> QED
    BY <2>1, <2>2, <2>3, <2>4, <2>5
<1>2. Vowed = {}
  <2>1. CASE AttachNew
    <3>1. pc = "off" /\ FindSignature(phys, bad) = None
      BY <2>1 DEF AttachNew, Begin
    <3>2. \A b \in Tables : Found({}).sig # None
      BY SignatureThere
    <3>3. Tables = {}
      BY <3>1, <3>2 DEF Found
    <3> QED
      BY <3>1, <3>3 DEF Unpromised
  <2>2. CASE \E ecc \in UnreadableSets : AttachNoTable(ecc)
    <3>1. PICK ecc \in UnreadableSets : AttachNoTable(ecc)
      BY <2>2
    <3>2. PICK f : f = Found(ecc)
      OBVIOUS
    <3>3. f.sig # None /\ f.first = None /\ pc = "off"
      BY <3>1, <3>2 DEF AttachNoTable, Begin
    <3>4. Tables = {}
      BY <3>2, <3>3, FoundTables
    <3> QED
      BY <3>3, <3>4 DEF Unpromised
  <2>3. CASE SignatureWritten \/ SignatureFails \/ NoSignatureBlock
    BY <2>3 DEF SignatureWritten, SignatureFails, NoSignatureBlock, Unpromised
  <2> QED
    BY <2>1, <2>2, <2>3
<1>3. Vowed' = {}
  BY <1>1, <1>2 DEF Vowed
<1> QED
  BY <1>1, <1>3 DEF Vows, Unpromised

(* and comes to the first table with its mapping in memory.                *)
LEMMA NewPhases ==
  ASSUME TInv, Phases,
         \/ AttachNew \/ SignatureWritten \/ SignatureFails \/ NoSignatureBlock
         \/ \E ecc \in UnreadableSets : AttachNoTable(ecc)
  PROVE  (Attached => Flushed)' /\ Phases'
<1>1. /\ pc \in {"off", "sign"} /\ pc' \in {"sign", "gone", "rebuild"}
      /\ protected' = protected
      /\ pc = "off" \/ UNCHANGED dataCount
      /\ pc' = "rebuild" => cache'.map = map' /\ ret' = "create"
      /\ pc' # "rebuild" => UNCHANGED <<ret, cur>>
  <2>1. CASE AttachNew
    BY <2>1 DEF AttachNew, Begin
  <2>2. CASE SignatureWritten
    BY <2>2 DEF SignatureWritten, CreateTables, Go
  <2>3. CASE SignatureFails
    BY <2>3 DEF SignatureFails, fixed
  <2>4. CASE NoSignatureBlock
    BY <2>4 DEF NoSignatureBlock, Go, fixed
  <2>5. CASE \E ecc \in UnreadableSets : AttachNoTable(ecc)
    BY <2>5 DEF AttachNoTable, Begin, CreateTables, Go
  <2> QED
    BY <2>1, <2>2, <2>3, <2>4, <2>5
<1>2. (Attached => Flushed)'
  BY <1>1 DEF Attached, Flushed
<1>3. ~ protected /\ (Erasing' => pc = "sign" /\ Erasing /\ UNCHANGED <<cur, dataCount>>)
  BY <1>1 DEF Erasing, Phases, TInv, Control
<1>4. Phases'
  BY <1>1, <1>3 DEF Phases
<1> QED
  BY <1>2, <1>4

(* A power cut that takes a table away leaves another, or there was but    *)
(* one.                                                                    *)
LEMMA TableSurvives ==
  ASSUME TInv, SInv, Copies, Attached => Here, backupBa # 0, Leave \/ Crash \/ CutShort
  PROVE  Tables' # {}
<1>1. TypeOK /\ bad' = bad /\ Tables # {}
  BY TwoTables DEF TInv, Leave, Crash, CutShort, flash
<1>2. CASE Leave \/ Crash
  BY <1>1, <1>2, SameTables DEF Leave, Crash
<1>3. CASE /\ pc \in {"erase", "clean"} /\ Usable(wr.ba, wr.limit) # {}
           /\ Spoil(Lowest(Usable(wr.ba, wr.limit)))
  <2> DEFINE b == Lowest(Usable(wr.ba, wr.limit))
  <2>1. Here /\ Passed
    BY <1>3 DEF Attached, Here, Layout
  <2>2. /\ wr.from \in Nat /\ wr.ba \in Nat /\ wr.limit \in PB /\ wr.limit \in Nat
        /\ wr.from <= wr.ba
    BY <1>1, <1>3, <2>1, Numeric DEF Passed, Writing
  <2>3. b \in PB /\ wr.ba <= b /\ b < wr.limit
    BY <1>3, <2>2, UsableIn
  <2>4. phys' = [phys EXCEPT ![b] = Torn]
    BY <1>3 DEF Spoil
  <2> HIDE DEF b
  <2>5. PICK c \in Tables : c < wr.from \/ wr.limit <= c
    BY <1>3, <2>1, TableSpared
  <2>6. c \in PB /\ c \in Nat /\ b \in Nat
    BY <2>3, BlockNumbers DEF Tables
  <2>7. c # b
    BY <2>2, <2>3, <2>5, <2>6
  <2>8. phys'[c] = phys[c]
    BY <1>1, <2>4, <2>6, <2>7 DEF TypeOK
  <2>9. c \in Tables'
    BY <1>1, <2>6, <2>8 DEF Tables
  <2> QED
    BY <2>9
<1>4. pc # "sign"
  BY DEF SInv, Unsigned
<1>5. ASSUME NEW lb \in LB, map[lb] # None, Spoil(map[lb]), pc \in {"erase_lb", "idle"}
      PROVE  Tables' # {}
  <2>1. Here
    BY <1>5 DEF Attached
  <2>2. map[lb] \in PB /\ map[lb] \notin Tables
    BY <1>5, <2>1, BlockOutside
  <2>3. phys' = [phys EXCEPT ![map[lb]] = Torn]
    BY <1>5 DEF Spoil
  <2>4. Tables' = Tables
    BY <1>1, <2>2, <2>3, NoTable, OutsideChanged
  <2> QED
    BY <1>1, <2>4
<1>6. CASE pc = "erase_lb" /\ Spoil(map[cur])
  <2>1. cur \in LB /\ map[cur] # None
    BY <1>6 DEF TInv, TypeOK, Control
  <2> QED
    BY <1>5, <1>6, <2>1
<1>7. CASE \E lb \in LB : Writable(lb) /\ Spoil(map[lb])
  BY <1>5, <1>7 DEF Writable, Accepts
<1> QED
  BY <1>2, <1>3, <1>4, <1>6, <1>7 DEF CutShort

(* It spoils no block with a promise, or ends the promise.                 *)
LEMMA OffVows ==
  ASSUME TInv, SInv, Copies, Unpromised, Vows, InjectiveMap(map), Attached => Here,
         Leave \/ Crash \/ CutShort
  PROVE  Vows' /\ Unpromised'
<1>1. pc' = "off" /\ ret' = "idle" /\ bad' = bad
  BY DEF Leave, Crash, CutShort, PowerOff, flash
<1>2. Unpromised' /\ ~ Attached'
  <2>1. \E p : GiveUp(p)
    BY DEF Leave, Crash, CutShort
  <2>2. CASE TableLost
    <3>1. Vowed' = {}
      BY <2>1, <2>2 DEF GiveUp, Vowed
    <3> QED
      BY <1>1, <3>1 DEF Unpromised, Erasing, Attached
  <2>3. CASE ~ TableLost
    <3>1. backupBa = 0 => Tables' # {}
      BY <1>1, <2>3 DEF TableLost, Tables
    <3>2. backupBa # 0 => Tables' # {}
      BY TableSurvives
    <3>3. Tables' # {}
      BY <3>1, <3>2
    <3> QED
      BY <1>1, <3>3 DEF Unpromised, Erasing, Attached
  <2> QED
    BY <2>2, <2>3
<1>3. /\ TypeOK /\ Tables' \subseteq Tables /\ \A b \in Tables' : phys'[b] = phys[b]
      /\ \A k \in LB : promise'[k] # "none" => promise'[k] = promise[k]
  <2>1. CASE Leave \/ Crash
    BY <2>1, SameTables DEF Leave, Crash, GiveUp, TInv
  <2>2. CASE CutShort
    <3>1. PICK b : phys' = [phys EXCEPT ![b] = Torn]
      BY <2>2 DEF CutShort, Spoil
    <3>2. \A c \in PB : phys'[c] = phys[c] \/ phys'[c] = Torn
      BY <3>1 DEF TInv, TypeOK
    <3>3. \A k \in LB : promise'[k] # "none" => promise'[k] = promise[k]
      BY <2>2 DEF CutShort, GiveUp, TInv, TypeOK
    <3> QED
      BY <1>1, <3>2, <3>3, NoTable DEF Tables, TInv
  <2> QED
    BY <2>1, <2>2
<1>4. ASSUME NEW k \in LB, promise'[k] # "none", NEW p \in PB, Vow(k, p)
      PROVE  phys'[p] = phys[p]
  <2>1. CASE Leave \/ Crash
    BY <2>1 DEF Leave, Crash, flash
  <2>2. CASE /\ pc \in {"erase", "clean"} /\ Usable(wr.ba, wr.limit) # {}
             /\ Spoil(Lowest(Usable(wr.ba, wr.limit)))
    <3> DEFINE b == Lowest(Usable(wr.ba, wr.limit))
    <3>1. Attached /\ Here /\ Memory
      BY <2>2 DEF Attached, Here, Layout
    <3>2. p < MgmtStart \/ topBa < p
      BY <1>3, <1>4, <3>1, VowedBlock DEF Vow, InMemory
    <3>3. /\ MgmtStart \in Nat /\ topBa \in Nat /\ wr.from \in Nat /\ wr.ba \in Nat
          /\ wr.limit \in PB /\ wr.limit \in Nat
          /\ MgmtStart <= wr.from /\ wr.from <= wr.ba /\ wr.limit <= topBa
      BY <1>3, <2>2, <3>1, Numeric DEF Here, Layout, Passed, Writing
    <3>4. b \in PB /\ wr.ba <= b /\ b < wr.limit
      BY <2>2, <3>3, UsableIn
    <3>5. phys' = [phys EXCEPT ![b] = Torn]
      BY <2>2 DEF Spoil
    <3> HIDE DEF b
    <3>6. b \in Nat /\ p \in Nat
      BY <3>4, BlockNumbers
    <3>7. p # b
      BY <3>2, <3>3, <3>4, <3>6
    <3> QED
      BY <3>5, <3>7, <1>3 DEF TypeOK
  <2>3. CASE pc = "sign"
    BY <1>3, <1>4, <2>3 DEF Unpromised, Vowed
  <2>4. ASSUME NEW l \in LB, k # l, Spoil(map[l]), Attached PROVE phys'[p] = phys[p]
    <3>1. p = map[k] /\ p # None
      BY <1>4, <2>4, BlockNumbers DEF Vow, InMemory, None
    <3>2. p # map[l]
      BY <2>4, <3>1 DEF InjectiveMap
    <3> QED
      BY <2>4, <3>2, <1>3 DEF Spoil, TypeOK
  <2>5. CASE pc = "erase_lb" /\ Spoil(map[cur])
    <3>1. k # cur
      BY <1>3, <1>4, <2>5 DEF Unpromised, Erasing, Vowed
    <3>2. cur \in LB /\ Attached
      BY <1>3, <2>5 DEF TypeOK, Attached
    <3> QED
      BY <2>4, <2>5, <3>1, <3>2
  <2>6. ASSUME NEW l \in LB, Writable(l), Spoil(map[l]), GiveUp([promise EXCEPT ![l] = "none"])
        PROVE  phys'[p] = phys[p]
    <3>1. k # l
      BY <1>3, <1>4, <2>6 DEF GiveUp, TypeOK
    <3>2. Attached
      BY <2>6 DEF Writable, Accepts, Attached
    <3> QED
      BY <2>4, <2>6, <3>1, <3>2
  <2> QED
    BY <2>1, <2>2, <2>3, <2>5, <2>6 DEF CutShort
<1>5. Vows'
  <2> SUFFICES ASSUME NEW k \in LB, promise'[k] # "none" PROVE \E p \in PB : Vow(k, p)'
    BY DEF Vows, Vowed
  <2>1. promise'[k] = promise[k]
    BY <1>3
  <2>2. PICK p \in PB : Vow(k, p)
    BY <2>1 DEF Vows, Vowed
  <2>3. phys'[p] = phys[p]
    BY <1>4, <2>2
  <2>4. Keeps(k, p)' /\ OnChip(k, p)'
    BY <1>1, <1>3, <2>1, <2>2, <2>3 DEF Vow, Keeps, OnChip
  <2> QED
    BY <1>2, <2>4 DEF Vow
<1> QED
  BY <1>2, <1>5

LEMMA OffPhases ==
  ASSUME Leave \/ Crash \/ CutShort
  PROVE  ~ Attached' /\ Phases'
  BY DEF Leave, Crash, CutShort, PowerOff, Attached, Phases, Erasing

-----------------------------------------------------------------------------
(* A mapping that differs from the one last written is written:            *)
LEMMA FlushedStays ==
  ASSUME Flushed, cache' = cache, \A lb \in LB : map'[lb] = map[lb] \/ map'[lb] = None,
         Pending => Pending' \/ Lost', Lost => Lost'
  PROVE  Flushed'
  BY DEF Flushed

(* the steps of a write change neither,                                    *)
LEMMA WritesFlushed ==
  ASSUME Flushed, Phases,
         \/ LoopStep
         \/ RebuildWritten \/ SecondWritten \/ BackupWritten \/ MainWritten
         \/ TmpWritten \/ RescueWritten \/ FrontWritten \/ BehindWritten
         \/ SyncMainWritten \/ SyncBackupWritten
         \/ RebuildFailed \/ SecondFailed \/ SecondCleaned \/ BackupFailed \/ MainFailed
         \/ TmpFailed \/ RescueFailed \/ FrontCleaned \/ FrontFailed \/ BehindFailed
         \/ BehindCleaned \/ SyncMainFailed \/ SyncBackupFailed
         \/ RebuildStart \/ MainBegin
  PROVE  Flushed'
<1>1. /\ pc \in {"rebuild", "main", "erase", "prog", "clean"} /\ map' = map /\ cache' = cache
  BY DEF LoopStep, MgmtErased, MgmtEraseFails, MgmtProgramFails, CleanStep, CleanFails,
         RebuildWritten, SecondWritten, BackupWritten, MainWritten, TmpWritten, RescueWritten,
         FrontWritten, BehindWritten, SyncMainWritten, SyncBackupWritten, RebuildFailed,
         SecondFailed, SecondCleaned, BackupFailed, MainFailed, TmpFailed, RescueFailed,
         FrontCleaned, FrontFailed, BehindFailed, BehindCleaned, SyncMainFailed,
         SyncBackupFailed, RebuildStart, MainBegin, Written, GaveUp, Cleaned, tables
<1>2. ~ Pending /\ ~ Lost
  BY <1>1 DEF Pending, Lost, Phases
<1> QED
  BY <1>1, <1>2, FlushedStays

(* the update does, and what changes the mapping asks for one.             *)
LEMMA QuietFlushed ==
  ASSUME TInv, SInv, Here, Flushed, Phases, TInv',
         UpdateBegin \/ UpdateDone \/ CreateRemap \/ CreateEnd \/ CreateNoSpare \/ Detach
  PROVE  Flushed'
<1>1. CASE UpdateBegin
  <2>1. cache'.map = map'
    BY <1>1 DEF UpdateBegin
  <2> QED
    BY <2>1 DEF Flushed
<1>2. CASE CreateRemap
  <2>1. Pending'
    BY <1>2 DEF CreateRemap, control, Phases, Pending
  <2> QED
    BY <2>1 DEF Flushed
<1>3. CASE UpdateDone \/ CreateEnd \/ CreateNoSpare \/ Detach
  <2>1. UNCHANGED flash /\ UNCHANGED <<map, cache, dirty, protected>>
        /\ (Pending => Pending')
    BY <1>3 DEF UpdateDone, CreateEnd, CreateNoSpare, Detach, Update, NeedsUpdate, Pending,
                tables, fixed
  <2>2. Lost => Lost'
    BY <2>1, SameTables DEF Lost
  <2> QED
    BY <2>1, <2>2, FlushedStays
<1> QED
  BY <1>1, <1>2, <1>3

(* So do the operations on a logical block.                                *)
LEMMA BlockFlushed ==
  ASSUME TInv, SInv, Here, Flushed, Phases, BlockStep
  PROVE  Flushed'
<1>1. TypeOK
  BY DEF TInv
<1>2. ASSUME NEW l \in LB, WriteOk(l) \/ WriteFails(l) \/ EraseBegin(l) \/ MarkBad(l)
      PROVE  Flushed'
  <2>1. ~ Pending /\ cache' = cache /\ (map' = map \/ map' = [map EXCEPT ![l] = None])
    BY <1>2 DEF WriteOk, WriteFails, EraseBegin, MarkBad, Writable, Accepts, Pending, tables
  <2>2. Lost => Lost'
    BY <1>2, CallTouches DEF Touches, Lost
  <2> QED
    BY <1>1, <2>1, <2>2, FlushedStays DEF TypeOK, Mappings
<1>3. CASE ErasedBlock \/ EraseFails \/ EraseLeavesBlock \/ EraseUnmaps
  <2>1. Touches(cur) /\ cur \in LB
    BY <1>1, <1>3, EraseTouches DEF TypeOK
  <2>2. cache' = cache /\ (Lost => Lost')
    BY <2>1 DEF Touches, Lost
  <2>3. CASE /\ map' = map \/ map' = [map EXCEPT ![cur] = None]
             /\ Pending => Pending'
    BY <1>1, <2>1, <2>2, <2>3, FlushedStays DEF TypeOK, Mappings
  <2>4. CASE dirty' = TRUE /\ pc' = "update" /\ pc = "erase_lb"
    <3>1. Pending' \/ Lost'
      BY <2>1, <2>4 DEF Phases, Erasing, Touches, Pending, Lost
    <3> QED
      BY <3>1 DEF Flushed
  <2>5. CASE ErasedBlock
    BY <2>3, <2>5 DEF ErasedBlock, tables, Pending
  <2>6. CASE EraseUnmaps
    <3>1. Pending => Pending'
      BY <2>6 DEF EraseUnmaps, KeepDirty, Update, Pending, fixed
    <3>2. map' = [map EXCEPT ![cur] = None]
      BY <2>6 DEF EraseUnmaps
    <3> QED
      BY <2>3, <3>1, <3>2
  <2>7. CASE EraseFails \/ EraseLeavesBlock
    <3>1. pc = "erase_lb" /\ \E s : RemapBlock(s)
      BY <2>7 DEF EraseFails, EraseLeavesBlock
    <3>2. ~ Pending
      BY <3>1 DEF Pending
    <3>3. \/ map' = map \/ map' = [map EXCEPT ![cur] = None]
          \/ dirty' = TRUE /\ pc' = "update"
      BY <3>1 DEF RemapBlock, UpdateFirst, Update
    <3> QED
      BY <2>3, <2>4, <3>1, <3>2, <3>3
  <2> QED
    BY <1>3, <2>5, <2>6, <2>7
<1>4. CASE \E l \in LB : Refused(l)
  <2>1. UNCHANGED vars
    BY <1>4 DEF Refused
  <2>2. Flushed' = Flushed
    BY <2>1 DEF vars, flash, tables, fixed, control, Flushed, Pending, Lost, Tables
  <2> QED
    BY <2>2
<1> QED
  BY <1>2, <1>3, <1>4 DEF BlockStep

-----------------------------------------------------------------------------
(* The stages of an erase and of the attach: a step that goes on with one  *)
(* or rests, or that writes for it.                                        *)
LEMMA PhasesStay ==
  ASSUME TypeOK, Phases, Attached, UNCHANGED <<promise, dataCount>>,
         pc' \notin {"off", "sign", "erase_lb", "unmap"},
         \/ /\ UNCHANGED <<ret, cur>>
            /\ protected' = FALSE
            /\ pc' # "idle"
         \/ pc' = "idle" /\ ret' = "idle"
  PROVE  Phases' /\ (Unpromised => Unpromised')
<1>1. Vowed' = Vowed
  BY DEF Vowed
<1>2. Erasing' => Erasing /\ cur' = cur /\ protected' = FALSE
  BY DEF Erasing
<1> QED
  BY <1>1, <1>2 DEF Phases, Unpromised

(* The steps of a write of tables.                                         *)
LEMMA WritesPhases ==
  ASSUME TInv, Here, Phases,
         \/ LoopStep
         \/ RebuildWritten \/ SecondWritten \/ BackupWritten \/ MainWritten
         \/ TmpWritten \/ RescueWritten \/ FrontWritten \/ BehindWritten
         \/ SyncMainWritten \/ SyncBackupWritten
         \/ SecondFailed \/ SecondCleaned \/ BackupFailed \/ MainFailed
         \/ TmpFailed \/ RescueFailed \/ FrontCleaned \/ FrontFailed \/ BehindFailed
         \/ BehindCleaned \/ SyncMainFailed \/ SyncBackupFailed
         \/ RebuildStart \/ MainBegin
  PROVE  Phases' /\ (Unpromised => Unpromised')
<1>1. pc \in {"rebuild", "main", "erase", "prog", "clean"}
  BY DEF LoopStep, MgmtErased, MgmtEraseFails, MgmtProgramFails, CleanStep, CleanFails,
         RebuildWritten, SecondWritten, BackupWritten, MainWritten, TmpWritten, RescueWritten,
         FrontWritten, BehindWritten, SyncMainWritten, SyncBackupWritten,
         SecondFailed, SecondCleaned, BackupFailed, MainFailed, TmpFailed, RescueFailed,
         FrontCleaned, FrontFailed, BehindFailed, BehindCleaned, SyncMainFailed,
         SyncBackupFailed, RebuildStart, MainBegin, Written, GaveUp, Cleaned
<1>2. UNCHANGED <<promise, dataCount>>
  BY DEF LoopStep, MgmtErased, MgmtEraseFails, MgmtProgramFails, CleanStep, CleanFails,
         RebuildWritten, SecondWritten, BackupWritten, MainWritten, TmpWritten, RescueWritten,
         FrontWritten, BehindWritten, SyncMainWritten, SyncBackupWritten,
         SecondFailed, SecondCleaned, BackupFailed, MainFailed, TmpFailed, RescueFailed,
         FrontCleaned, FrontFailed, BehindFailed, BehindCleaned, SyncMainFailed,
         SyncBackupFailed, RebuildStart, MainBegin, history, fixed
<1>3. \/ UNCHANGED <<ret, cur, protected>>
         /\ pc' \in {"rebuild", "create", "update", "main", "erase", "prog", "clean"}
      \/ pc' = "idle" /\ ret' = "idle"
  BY <1>1
  DEF LoopStep, MgmtErased, MgmtEraseFails, MgmtProgramFails, CleanStep, CleanFails,
         RebuildWritten, SecondWritten, BackupWritten, MainWritten, TmpWritten, RescueWritten,
         FrontWritten, BehindWritten, SyncMainWritten, SyncBackupWritten,
         SecondFailed, SecondCleaned, BackupFailed, MainFailed, TmpFailed, RescueFailed,
         FrontCleaned, FrontFailed, BehindFailed, BehindCleaned, SyncMainFailed,
         SyncBackupFailed, RebuildStart, MainBegin, fixed, Go, Start, Clean, LoadDone, Rest,
         Returned
<1>4. TypeOK /\ Attached /\ protected = FALSE
  BY <1>1 DEF TInv, TypeOK, Attached, Phases
<1> QED
  BY <1>1, <1>2, <1>3, <1>4, PhasesStay

(* A rebuild that fails leaves a chip without tables.                      *)
LEMMA RebuildFailedPhases ==
  ASSUME TInv, Here, Phases, RebuildFailed
  PROVE  Phases' /\ (Unpromised => Unpromised')
<1>1. /\ pc = "erase" /\ wr.k = "rebuild" /\ UNCHANGED flash /\ ret' = ret /\ cur' = cur
      /\ UNCHANGED <<promise, dataCount>>
      /\ pc' = IF ret \in {"create", "created"} THEN "gone" ELSE ret
  BY DEF RebuildFailed, GaveUp, Go, history
<1>2. Tables = {} /\ Tables' = {}
  <2>1. Writes("rebuild")
    BY <1>1 DEF Writes, Writing
  <2> QED
    BY <1>1, <2>1, SameTables DEF Here, Layout, Place
<1>3. ret \in Rets /\ Vowed' = Vowed
  BY <1>1 DEF TInv, TypeOK, Vowed
<1>4. Erasing' => Erasing
  BY <1>1 DEF Erasing
<1> QED
  BY <1>1, <1>2, <1>3, <1>4 DEF Phases, Unpromised, Rets

(* The steps between the flash operations of an update.                    *)
LEMMA QuietPhases ==
  ASSUME TInv, TInv', Here, Phases,
         UpdateBegin \/ UpdateDone \/ CreateRemap \/ CreateEnd \/ CreateNoSpare \/ Detach
  PROVE  Phases' /\ (Unpromised => Unpromised')
<1>1. /\ pc \in {"update", "create", "nospare", "idle"} /\ UNCHANGED flash
      /\ UNCHANGED <<promise, protected>>
      /\ dataCount' = dataCount \/ (dataCount < MgmtStart /\ dataCount' = dataCount + 1)
  BY DEF UpdateBegin, UpdateDone, CreateRemap, CreateEnd, CreateNoSpare, Detach, fixed, history
<1>2. Tables' = Tables
  BY <1>1, SameTables DEF flash
<1>3. \/ UNCHANGED <<ret, cur>> /\ pc' \in {"main", "erase"} /\ ~ protected
      \/ UNCHANGED <<ret, cur>> /\ pc = "update" /\ pc' = ret /\ ret # "idle"
      \/ UNCHANGED <<ret, cur>> /\ pc = "create" /\ pc' = "create"
      \/ pc' = "idle" /\ ret' = "idle"
      \/ pc' = "update" /\ ret' \in {"created", "nospare", "gone"}
  BY DEF UpdateBegin, UpdateDone, CreateRemap, CreateEnd, CreateNoSpare, Detach, NeedsUpdate,
         Go, Start, Rest, Update, control
<1>4. ret \in Rets /\ Vowed' = Vowed
  BY <1>1 DEF TInv, TypeOK, Vowed
<1>5. cur < dataCount => cur < dataCount'
  BY <1>1, BlockNumbers DEF TInv, TypeOK
<1>6. Erasing' => Erasing /\ cur' = cur
  BY <1>3 DEF Erasing
<1> QED
  BY <1>1, <1>2, <1>3, <1>4, <1>5, <1>6 DEF Phases, Unpromised, Rets

(* An erase ends the promise to its block before it begins.                *)
LEMMA BlockPhases ==
  ASSUME TInv, SInv, Here, Phases, BlockStep
  PROVE  Phases' /\ (Unpromised => Unpromised')
<1>1. TypeOK
  BY DEF TInv
<1>2. CASE \E l \in LB : WriteOk(l) \/ WriteFails(l) \/ MarkBad(l)
  <2>1. /\ pc = "idle" /\ ret' = "idle" /\ pc' \in {"idle", "update"}
    BY <1>2 DEF WriteOk, WriteFails, MarkBad, Writable, Accepts, Update, Phases, control
  <2> QED
    BY <2>1 DEF Phases, Unpromised, Erasing
<1>3. ASSUME NEW l \in LB, EraseBegin(l) PROVE Phases' /\ (Unpromised => Unpromised')
  <2>1. /\ pc = "idle" /\ pc' = "erase_lb" /\ cur' = l /\ ret' = ret /\ ret = "idle"
        /\ ~ protected /\ l < dataCount /\ UNCHANGED <<dataCount, protected>>
        /\ promise' = [promise EXCEPT ![l] = "none"]
    BY <1>3 DEF EraseBegin, Accepts, Promise, Phases, fixed
  <2>2. l \notin Vowed'
    BY <1>1, <2>1 DEF TypeOK, Vowed
  <2> QED
    BY <2>1, <2>2 DEF Phases, Unpromised, Erasing
<1>4. CASE ErasedBlock
  <2>1. pc' = "idle" /\ ret' = "idle"
    BY <1>4 DEF ErasedBlock, Rest
  <2> QED
    BY <2>1 DEF Phases, Unpromised, Erasing
<1>5. CASE EraseFails \/ EraseLeavesBlock
  <2>1. /\ pc = "erase_lb" /\ pc' = "update" /\ ret' \in {"idle", "unmap", "erase_lb"}
        /\ UNCHANGED <<cur, promise, dataCount, protected>>
    BY <1>5 DEF EraseFails, EraseLeavesBlock, RemapBlock, UpdateFirst, Update, fixed
  <2>2. Tables' = Tables
    BY <1>5, EraseTouches DEF Touches
  <2> QED
    BY <2>1, <2>2 DEF Phases, Unpromised, Erasing, Vowed
<1>6. CASE EraseUnmaps
  <2>1. pc' = "update" /\ ret' = "idle"
    BY <1>6 DEF EraseUnmaps, Update
  <2> QED
    BY <2>1 DEF Phases, Unpromised, Erasing
<1>7. CASE \E l \in LB : Refused(l)
  <2>1. UNCHANGED vars
    BY <1>7 DEF Refused
  <2>2. Phases' = Phases /\ Unpromised' = Unpromised
    BY <2>1 DEF vars, flash, fixed, control, history, Phases, Unpromised, Erasing,
                     Vowed, Tables
  <2> QED
    BY <2>2
<1> QED
  BY <1>2, <1>3, <1>4, <1>5, <1>6, <1>7 DEF BlockStep

(* An attach that loads a table has none to erase.                         *)
LEMMA LoadPhases ==
  ASSUME TInv, Phases, NEW ecc \in UnreadableSets,
         AttachOne(ecc) \/ AttachUnequal(ecc) \/ AttachEqual(ecc)
  PROVE  Phases' /\ (Unpromised => Unpromised')
<1>1. \/ pc = "off" /\ pc' = "erase" /\ ret' = ret /\ protected' = protected
      \/ pc' = "idle" /\ ret' = "idle"
  BY DEF AttachOne, AttachUnequal, AttachEqual, Load, Begin, Start, LoadDone, Rest
<1> QED
  BY <1>1 DEF Phases, Unpromised, Erasing, TInv, Control

-----------------------------------------------------------------------------
(* A table is loaded with its mapping.                                     *)
LEMMA LoadFlushed ==
  ASSUME NEW f, Load(f)
  PROVE  Flushed'
  BY DEF Load, Flushed

-----------------------------------------------------------------------------
(* Every step keeps to the phases, and what it changes of the mapping is   *)
(* written or asked to be.                                                 *)
LEMMA NextFlushed ==
  ASSUME TInv, SInv, LInv, CInv, FInv, TInv', [Next]_vars
  PROVE  FInv'
<1> SUFFICES ASSUME ~ skipped' PROVE (Attached => Flushed)' /\ Phases'
  BY DEF FInv
<1>1. ~ skipped /\ Copies /\ (Attached => Here) /\ (Attached => Flushed) /\ Phases
  BY SkippedStays DEF CInv, LInv, FInv, Here
<1>2. CASE \/ LoopStep
           \/ RebuildWritten \/ SecondWritten \/ BackupWritten \/ MainWritten
           \/ TmpWritten \/ RescueWritten \/ FrontWritten \/ BehindWritten
           \/ SyncMainWritten \/ SyncBackupWritten
           \/ SecondFailed \/ SecondCleaned \/ BackupFailed \/ MainFailed
           \/ TmpFailed \/ RescueFailed \/ FrontCleaned \/ FrontFailed \/ BehindFailed
           \/ BehindCleaned \/ SyncMainFailed \/ SyncBackupFailed
           \/ RebuildStart \/ MainBegin
  <2>1. Attached
    BY <1>2 DEF LoopStep, MgmtErased, MgmtEraseFails, MgmtProgramFails, CleanStep, CleanFails,
         RebuildWritten, SecondWritten, BackupWritten, MainWritten, TmpWritten, RescueWritten,
         FrontWritten, BehindWritten, SyncMainWritten, SyncBackupWritten,
         SecondFailed, SecondCleaned, BackupFailed, MainFailed, TmpFailed, RescueFailed,
         FrontCleaned, FrontFailed, BehindFailed, BehindCleaned, SyncMainFailed,
         SyncBackupFailed, RebuildStart, MainBegin, Written, GaveUp, Cleaned, Attached
  <2>2. Here /\ Flushed
    BY <1>1, <2>1
  <2> QED
    BY <1>1, <1>2, <2>2, WritesFlushed, WritesPhases
<1>3. CASE RebuildFailed
  <2>1. Here /\ Flushed
    BY <1>1, <1>3 DEF RebuildFailed, GaveUp, Attached
  <2> QED
    BY <1>1, <1>3, <2>1, WritesFlushed, RebuildFailedPhases
<1>4. CASE UpdateBegin \/ UpdateDone \/ CreateRemap \/ CreateEnd \/ CreateNoSpare \/ Detach
  <2>1. Here /\ Flushed
    BY <1>1, <1>4 DEF UpdateBegin, UpdateDone, CreateRemap, CreateEnd, CreateNoSpare, Detach,
                      Attached
  <2> QED
    BY <1>1, <1>4, <2>1, QuietFlushed, QuietPhases
<1>5. CASE BlockStep
  <2>1. Here /\ Flushed
    BY <1>1, <1>5 DEF BlockStep, WriteOk, WriteFails, EraseBegin, MarkBad, Refused, ErasedBlock,
         EraseFails, EraseLeavesBlock, EraseUnmaps, Writable, Accepts, Attached
  <2> QED
    BY <1>1, <1>5, <2>1, BlockFlushed, BlockPhases
<1>6. CASE \E ecc \in UnreadableSets : AttachOne(ecc) \/ AttachUnequal(ecc) \/ AttachEqual(ecc)
  <2>1. PICK ecc \in UnreadableSets : AttachOne(ecc) \/ AttachUnequal(ecc) \/ AttachEqual(ecc)
    BY <1>6
  <2>2. Load(Found(ecc))
    BY <2>1 DEF AttachOne, AttachUnequal, AttachEqual
  <2> QED
    BY <1>1, <2>1, <2>2, LoadFlushed, LoadPhases
<1>7. CASE \/ AttachNew \/ SignatureWritten \/ SignatureFails \/ NoSignatureBlock
           \/ \E ecc \in UnreadableSets : AttachNoTable(ecc)
  BY <1>1, <1>7, NewPhases
<1>8. CASE Leave \/ Crash \/ CutShort
  BY <1>8, OffPhases
<1>9. CASE UNCHANGED vars
  <2>1. Flushed' = Flushed /\ Attached' = Attached
    BY <1>9 DEF vars, flash, tables, fixed, control, Flushed, Pending, Lost, Tables, Attached
  <2>2. Phases' = Phases
    BY <1>9 DEF vars, flash, fixed, control, Phases, Erasing, Tables
  <2> QED
    BY <1>1, <2>1, <2>2
<1> QED
  BY <1>2, <1>3, <1>4, <1>5, <1>6, <1>7, <1>8, <1>9
  DEF Next, TableStep, AttachStep, LoopStep, StaysOff

(* The five invariants together.                                           *)
LEMMA SpecFlushed == Spec => [](TInv /\ SInv /\ LInv /\ CInv /\ FInv)
<1>1. Init => FInv
  <2> SUFFICES ASSUME Init PROVE ~ Attached /\ Phases
    BY DEF FInv
  <2> QED
    BY DEF Init, Off, Attached, Phases, Erasing
<1>2. TInv /\ SInv /\ LInv /\ CInv /\ FInv /\ TInv' /\ [Next]_vars => FInv'
  BY NextFlushed
<1> QED
  BY <1>1, <1>2, SpecCopies, PTL DEF Spec

-----------------------------------------------------------------------------
(* Every step keeps the promises, and where they are kept.                 *)
LEMMA NextVows ==
  ASSUME TInv, SInv, LInv, CInv, FInv, VInv, TInv', [Next]_vars
  PROVE  VInv'
<1> SUFFICES ASSUME ~ skipped' PROVE Vows' /\ Unpromised'
  BY DEF VInv
<1>1. /\ ~ skipped /\ Copies /\ InjectiveMap(map) /\ Chip /\ (Attached => Here)
      /\ (Attached => Flushed) /\ Phases /\ Vows /\ Unpromised
  BY SkippedStays DEF CInv, LInv, FInv, VInv, Here
<1>2. CASE \/ LoopStep
           \/ RebuildWritten \/ SecondWritten \/ BackupWritten \/ MainWritten
           \/ TmpWritten \/ RescueWritten \/ FrontWritten \/ BehindWritten
           \/ SyncMainWritten \/ SyncBackupWritten
           \/ SecondFailed \/ SecondCleaned \/ BackupFailed \/ MainFailed
           \/ TmpFailed \/ RescueFailed \/ FrontCleaned \/ FrontFailed \/ BehindFailed
           \/ BehindCleaned \/ SyncMainFailed \/ SyncBackupFailed
           \/ RebuildStart \/ MainBegin
  <2>1. Attached
    BY <1>2 DEF LoopStep, MgmtErased, MgmtEraseFails, MgmtProgramFails, CleanStep, CleanFails,
         RebuildWritten, SecondWritten, BackupWritten, MainWritten, TmpWritten, RescueWritten,
         FrontWritten, BehindWritten, SyncMainWritten, SyncBackupWritten,
         SecondFailed, SecondCleaned, BackupFailed, MainFailed, TmpFailed, RescueFailed,
         FrontCleaned, FrontFailed, BehindFailed, BehindCleaned, SyncMainFailed,
         SyncBackupFailed, RebuildStart, MainBegin, Written, GaveUp, Cleaned, Attached
  <2>2. Here
    BY <1>1, <2>1
  <2>3. Vows'
    BY <1>1, <1>2, <2>2, LoopVows, WrittenVows, EndedVows, QuietVows
  <2>4. Unpromised'
    BY <1>1, <1>2, <2>2, WritesPhases
  <2> QED
    BY <2>3, <2>4
<1>3. CASE RebuildFailed
  <2>1. Here
    BY <1>1, <1>3 DEF RebuildFailed, GaveUp, Attached
  <2> QED
    BY <1>1, <1>3, <2>1, EndedVows, RebuildFailedPhases
<1>4. CASE UpdateBegin \/ UpdateDone \/ CreateRemap \/ CreateEnd \/ CreateNoSpare \/ Detach
  <2>1. Here
    BY <1>1, <1>4 DEF UpdateBegin, UpdateDone, CreateRemap, CreateEnd, CreateNoSpare, Detach,
                      Attached
  <2> QED
    BY <1>1, <1>4, <2>1, QuietVows, CreateRemapVows, QuietPhases
<1>5. CASE BlockStep
  <2>1. Here /\ Flushed
    BY <1>1, <1>5 DEF BlockStep, WriteOk, WriteFails, EraseBegin, MarkBad, Refused, ErasedBlock,
         EraseFails, EraseLeavesBlock, EraseUnmaps, Writable, Accepts, Attached
  <2> QED
    BY <1>1, <1>5, <2>1, BlockVows, BlockPhases
<1>6. CASE \E ecc \in UnreadableSets : AttachOne(ecc) \/ AttachUnequal(ecc) \/ AttachEqual(ecc)
  <2>1. PICK ecc \in UnreadableSets : AttachOne(ecc) \/ AttachUnequal(ecc) \/ AttachEqual(ecc)
    BY <1>6
  <2>2. PICK f : f = Found(ecc)
    OBVIOUS
  <2>3. Load(f)
    BY <2>1, <2>2 DEF AttachOne, AttachUnequal, AttachEqual
  <2>4. Vows'
    BY <1>1, <2>1, <2>2, <2>3, LoadVows
  <2> QED
    BY <1>1, <2>1, <2>4, LoadPhases
<1>7. CASE \/ AttachNew \/ SignatureWritten \/ SignatureFails \/ NoSignatureBlock
           \/ \E ecc \in UnreadableSets : AttachNoTable(ecc)
  BY <1>1, <1>7, NewVows
<1>8. CASE Leave \/ Crash \/ CutShort
  BY <1>1, <1>8, OffVows
<1>9. CASE UNCHANGED vars
  <2>1. Vows' = Vows
    BY <1>9 DEF vars, flash, tables, layout, fixed, control, history, Vows, Vowed, Vow, Keeps,
                OnChip, InMemory, Lost, Tables, Attached
  <2>2. Unpromised' = Unpromised
    BY <1>9 DEF vars, flash, control, history, Unpromised, Erasing, Vowed, Tables
  <2> QED
    BY <1>1, <2>1, <2>2
<1> QED
  BY <1>2, <1>3, <1>4, <1>5, <1>6, <1>7, <1>8, <1>9
  DEF Next, TableStep, AttachStep, LoopStep, StaysOff

(* The last finished write or erase of a logical block is what a read of   *)
(* it returns, over all bad blocks, table writes, attaches and power cuts, *)
(* with and without forced-create, while the device is writable: until     *)
(* nmbm_map_block() passes over a bad block, and unless power was cut when *)
(* no table was left on the chip of a driver that had only one.            *)
(* (nmbm_read_logic_page() over everything that changes block_mapping, a   *)
(* table or a block.)                                                      *)
THEOREM PromisesKept == Spec => []KeepsPromises
<1>1. Init => VInv
  <2> SUFFICES ASSUME Init PROVE Vows /\ Unpromised
    BY DEF VInv
  <2>1. pc = "off" /\ Vowed = {} /\ ret = "idle"
    BY DEF Init, Off, Vowed
  <2> QED
    BY <2>1 DEF Vows, Unpromised, Erasing
<1>2. TInv /\ SInv /\ LInv /\ CInv /\ FInv /\ VInv /\ TInv' /\ [Next]_vars => VInv'
  BY NextVows
<1>3. TInv /\ VInv => KeepsPromises
  <2> SUFFICES ASSUME TInv, Vows, pc = "idle", ~ protected, NEW lb \in LB, promise[lb] # "none"
               PROVE  ReadResult(lb) = IF promise[lb] = "data" THEN Data(lb) ELSE Blank
    BY DEF VInv, KeepsPromises, Kept
  <2>1. PICK p \in PB : Vow(lb, p)
    BY DEF Vows, Vowed
  <2>2. map[lb] = p /\ st[p] = "good" /\ lb < dataCount /\ Keeps(lb, p)
    BY <2>1 DEF Vow, InMemory, Attached
  <2>3. p # None /\ ~ (lb >= dataCount)
    <3>1. p \in Nat /\ lb \in Nat /\ dataCount \in Nat
      BY BlockNumbers DEF TInv, TypeOK
    <3> QED
      BY <2>2, <3>1 DEF None
  <2>4. ReadResult(lb) = phys[p]
    BY <2>2, <2>3 DEF ReadResult
  <2> QED
    BY <2>2, <2>4 DEF Keeps
<1> QED
  BY <1>1, <1>2, <1>3, SpecFlushed, PTL DEF Spec

-----------------------------------------------------------------------------
(* The table that an attach would take, and what is known of it while the  *)
(* tables are written one after the other.                                 *)
Newest(c) == c \in Tables /\ \A b \in Tables : Img(b).wc <= Img(c).wc
Saved ==
    /\ Writes("backup") => \A b, c \in Tables : Img(b).map = Img(c).map
    /\ (pc = "main" \/ Writes("main") \/ Writes("syncmain")) /\ backupBa # 0 => Newest(backupBa)
    /\ Writes("rescue") => Newest(wr.limit)
    /\ Writes("syncbackup") => Newest(mainBa)
    /\ pc \in {"rebuild", "main", "erase", "prog", "clean"} => cache.map = map

UInv == ~ skipped => Saved

(* The register is the mapping of the newest table.                        *)
Register == /\ Tables = {} => Stored = NoMap
            /\ \A c \in Tables : Newest(c) => Stored = Img(c).map

-----------------------------------------------------------------------------
(* Stored is what nmbm_load_info_table() finds when it can read all blocks.*)
LEMMA StoredFound ==
  ASSUME NEW f, f = Found({})
  PROVE  Stored = IF f.sig = None \/ f.first = None THEN NoMap
                  ELSE phys[IF Newer(f) THEN f.second ELSE f.first].img.map
<1> DEFINE sigs == {FindSignature(phys, bad)} \ {None}
           firsts(sig) == {TableAt(phys, bad, AllGood, MgmtStart, sig)} \ {None}
           seconds(sig, b) == {TableAt(phys, bad, phys[b].img.st, b + 1, sig)}
           Taken(g) == phys[IF Newer(g) THEN g.second ELSE g.first].img.map
           pair(sig, b) == {Taken([first |-> b, second |-> c]) : c \in seconds(sig, b)}
           loaded(sig) == UNION {pair(sig, b) : b \in firsts(sig)}
           maps == UNION {loaded(sig) : sig \in sigs}
<1>1. Stored = CHOOSE m \in maps \cup {NoMap} : maps = {} \/ m \in maps
  BY DEF Stored
<1>2. /\ f.sig = FindSignature(phys, bad)
      /\ f.first = TableAt(phys, bad, AllGood, MgmtStart, f.sig)
      /\ f.first # None => f.second = TableAt(phys, bad, phys[f.first].img.st, f.first + 1, f.sig)
  <2>1. bad \cup {} = bad
    OBVIOUS
  <2> QED
    BY <2>1 DEF Found
<1>3. CASE f.sig = None \/ f.first = None
  <2>1. maps = {}
    BY <1>2, <1>3
  <2> HIDE DEF maps
  <2> QED
    BY <1>1, <1>3, <2>1
<1>4. CASE f.sig # None /\ f.first # None
  <2> DEFINE g == [first |-> f.first, second |-> f.second]
  <2>1. sigs = {f.sig} /\ firsts(f.sig) = {f.first} /\ seconds(f.sig, f.first) = {f.second}
    BY <1>2, <1>4
  <2>2. maps = {Taken(g)}
    <3>1. pair(f.sig, f.first) = {Taken(g)}
      <4> HIDE DEF Taken, seconds
      <4> QED
        BY <2>1
    <3>2. loaded(f.sig) = pair(f.sig, f.first)
      <4> HIDE DEF pair, firsts
      <4> QED
        BY <2>1
    <3>3. maps = loaded(f.sig)
      <4> HIDE DEF loaded, sigs
      <4> QED
        BY <2>1
    <3> HIDE DEF maps, loaded, pair, Taken
    <3> QED
      BY <3>1, <3>2, <3>3
  <2>3. Taken(g) = phys[IF Newer(f) THEN f.second ELSE f.first].img.map
    BY DEF Newer
  <2> HIDE DEF maps, Taken, g
  <2>4. Stored = Taken(g)
    BY <1>1, <2>2
  <2> QED
    BY <1>4, <2>3, <2>4
<1> QED
  BY <1>3, <1>4

(* So the register is the mapping of the newest table, now                 *)
LEMMA StoredNewest == TInv /\ SInv /\ Chip => Register
<1> SUFFICES ASSUME TInv, SInv, Chip PROVE Register
  OBVIOUS
<1>1. PICK f : f = Found({})
  OBVIOUS
<1>2. {} \in UnreadableSets
  BY DEF UnreadableSets
<1>3. \A b \in Tables : phys[b].img.wc \in Nat
  BY Numeric, ImagesTyped DEF TInv, Img
<1>4. ASSUME Tables = {} PROVE Stored = NoMap
  <2>1. f.sig # None => f.first = None
    <3> SUFFICES ASSUME f.sig # None, f.first # None PROVE FALSE
      OBVIOUS
    <3> QED
      BY <1>1, <1>2, <1>4, FoundTables
  <2> QED
    BY <1>1, <2>1, StoredFound
<1>5. ASSUME NEW c \in Tables, Newest(c) PROVE Stored = Img(c).map
  <2>1. f.sig # None
    BY <1>1, SignatureThere
  <2>2. /\ f.first # None
        /\ f.second = None => Tables = {f.first}
        /\ f.second # None => Tables = {f.first, f.second}
    BY <1>1, <1>2, <2>1, FoundTables
  <2>3. PICK at : at = IF Newer(f) THEN f.second ELSE f.first
    OBVIOUS
  <2>4. Stored = Img(at).map
    BY <1>1, <2>1, <2>2, <2>3, StoredFound DEF Img
  <2>5. at \in Tables /\ Img(c).wc <= Img(at).wc
    BY <1>3, <2>2, <2>3 DEF Newer, Img
  <2>6. Img(c).wc = Img(at).wc
    BY <1>3, <1>5, <2>5 DEF Newest, Img
  <2> QED
    BY <1>5, <2>4, <2>5, <2>6 DEF Chip, TablesOrdered
<1> QED
  BY <1>4, <1>5 DEF Register

(* and after a step.                                                       *)
LEMMA StoredNewestNext == (TInv /\ SInv /\ Chip)' => Register'
  BY StoredNewest, PTL

(* One of the tables is the newest,                                        *)
LEMMA OneNewest == TInv /\ Chip /\ Tables # {} => \E c \in Tables : Newest(c)
<1> SUFFICES ASSUME TInv, Chip, Tables # {} PROVE \E c \in Tables : Newest(c)
  OBVIOUS
<1>1. \A b \in Tables : Img(b).wc \in Nat
  BY Numeric, ImagesTyped DEF TInv
<1>2. PICK a \in Tables : TRUE
  OBVIOUS
<1>3. CASE \E b \in Tables : ~ (Img(b).wc <= Img(a).wc)
  <2>1. PICK b \in Tables : ~ (Img(b).wc <= Img(a).wc)
    BY <1>3
  <2>2. \A c \in Tables : c \in {a, b}
    BY <1>1, <1>2, <2>1 DEF Chip, TablesTwo
  <2>3. Newest(b)
    BY <1>1, <1>2, <2>1, <2>2 DEF Newest
  <2> QED
    BY <2>3
<1> QED
  BY <1>2, <1>3 DEF Newest

(* also after a step.                                                      *)
LEMMA OneNewestNext == (TInv /\ Chip /\ Tables # {})' => (\E c \in Tables : Newest(c))'
  BY OneNewest, PTL

-----------------------------------------------------------------------------
(* The newest table stays it while no table is written,                    *)
LEMMA NewestStays ==
  ASSUME Tables' \subseteq Tables, \A b \in Tables' : phys'[b] = phys[b],
         NEW c \in Tables', Newest(c)
  PROVE  c \in Tables' /\ \A b \in Tables' : Img(b)'.wc <= phys'[c].img.wc
  BY DEF Newest, Img

(* and one that is written is the newest.                                  *)
LEMMA WrittenNewest ==
  ASSUME TInv, SInv, Here, pc = "prog", phys' = [phys EXCEPT ![wr.ba] = Table(cache)],
         bad' = bad, cache' = cache
  PROVE  /\ wr.ba \in Tables' /\ phys'[wr.ba].img = cache
         /\ \A b \in Tables' : b = wr.ba \/ (b \in Tables /\ phys'[b] = phys[b])
         /\ \A b \in Tables' : Img(b)'.wc <= phys'[wr.ba].img.wc
<1>1. wr.ba \in Tables'
  BY WrittenCopy
<1>2. TypeOK /\ Known /\ Memory
  BY WritingFacts DEF Here, Layout
<1>3. \A b \in PB : phys'[b] = IF b = wr.ba THEN Table(cache) ELSE phys[b]
  BY <1>2 DEF TypeOK
<1>4. phys'[wr.ba].img = cache
  BY <1>1, <1>3 DEF Tables, Table
<1>5. \A b \in Tables' : b = wr.ba \/ (b \in Tables /\ phys'[b] = phys[b])
  BY <1>3 DEF Tables
<1>6. ASSUME NEW b \in Tables' PROVE Img(b)'.wc <= phys'[wr.ba].img.wc
  <2>1. cache.wc \in Nat
    BY <1>2, ImagesTyped
  <2>2. CASE b = wr.ba
    BY <1>4, <2>1, <2>2 DEF Img
  <2>3. CASE b # wr.ba
    <3>1. b \in Tables /\ phys'[b] = phys[b]
      BY <1>5, <2>3
    <3>2. Img(b).wc <= wc /\ wc = cache.wc
      BY <1>2, <3>1 DEF Known, Memory
    <3> QED
      BY <1>4, <3>1, <3>2 DEF Img
  <2> QED
    BY <2>2, <2>3
<1> QED
  BY <1>1, <1>4, <1>5, <1>6

(* A loop leaves the newest table alone, except where all tables agree.    *)
LEMMA LoopSaved ==
  ASSUME TInv, SInv, Here, Saved, LoopStep
  PROVE  Saved'
<1>1. /\ Attached /\ pc \in {"erase", "prog", "clean"} /\ pc' \in {"erase", "prog", "clean"}
      /\ (pc' = "clean") = (pc = "clean") /\ wr'.k = wr.k /\ wr'.limit = wr.limit
      /\ cache' = cache /\ mainBa' = mainBa /\ backupBa' = backupBa
  BY LoopSpares
<1>2. \A k : Writes(k)' = Writes(k)
  BY <1>1 DEF Writes, Writing
<1>3. Tables' \subseteq Tables /\ (\A c \in Tables' : phys'[c] = phys[c]) /\ map' = map
  <2>1. \E b \in PB, n \in Nat :
           /\ Tables' \subseteq Tables /\ b \notin Tables'
           /\ \A c \in Tables' : phys'[c] = phys[c]
           /\ UNCHANGED <<map, wc, cache, layout, fixed, ret, cur, history>>
    BY <1>1, LoopEffect
  <2> QED
    BY <2>1
<1>4. /\ TypeOK /\ Underway /\ Regions
      /\ mainBa \in Nat /\ backupBa \in Nat /\ wr.limit \in Nat /\ wr.from \in Nat
  BY <1>1, Numeric DEF Here, Layout, TInv
<1>5. ASSUME NEW c, Newest(c), c < wr.from \/ wr.limit <= c
      PROVE  c \in Tables' /\ \A b \in Tables' : Img(b)'.wc <= phys'[c].img.wc
  <2>1. c \in Tables'
    BY <1>5, LoopLeaves DEF Newest
  <2> QED
    BY <1>3, <1>5, <2>1, NewestStays
<1>6. cache'.map = map'
  BY <1>1, <1>3 DEF Saved
<1>7. CASE Writes("backup")
  BY <1>1, <1>2, <1>3, <1>6, <1>7 DEF Saved, Writes, Img
<1>8. CASE Writes("main") \/ Writes("syncmain")
  <2>1. backupBa # 0 => wr.limit = backupBa
    BY <1>4, <1>8 DEF Underway, From, MainLimit
  <2>2. backupBa # 0 => Newest(backupBa) /\ wr.limit <= backupBa
    BY <1>4, <1>8, <2>1 DEF Saved
  <2> QED
    BY <1>1, <1>2, <1>5, <1>6, <1>8, <2>2 DEF Saved, Writes, Newest, Img
<1>9. CASE Writes("rescue")
  <2>1. Newest(wr.limit) /\ wr.limit <= wr.limit
    BY <1>4, <1>9 DEF Saved
  <2> QED
    BY <1>1, <1>2, <1>5, <1>6, <1>9, <2>1 DEF Saved, Writes, Newest, Img
<1>10. CASE Writes("syncbackup")
  <2>1. Newest(mainBa) /\ mainBa < wr.from
    BY <1>1, <1>4, <1>10 DEF Saved, Underway, Regions, From
  <2> QED
    BY <1>1, <1>2, <1>5, <1>6, <1>10, <2>1 DEF Saved, Writes, Newest, Img
<1>11. CASE \A k \in {"backup", "main", "syncmain", "rescue", "syncbackup"} : ~ Writes(k)
  BY <1>1, <1>2, <1>6, <1>11 DEF Saved
<1> QED
  BY <1>7, <1>8, <1>9, <1>10, <1>11

(* No table is being written while there are two that may differ.          *)
LEMMA NothingToSave ==
  ASSUME \/ pc' \notin {"rebuild", "main", "erase", "prog", "clean"}
         \/ /\ cache'.map = map'
            /\ pc' = "main" => backupBa' = 0
            /\ pc' \in {"erase", "prog"} => wr'.k \in {"rebuild", "second", "front", "behind", "tmp"}
  PROVE  Saved'
  BY DEF Saved, Writes, Writing

(* A table that is written takes the place of the newest.                  *)
LEMMA WrittenSaved ==
  ASSUME TInv, SInv, Here, Saved,
         \/ RebuildWritten \/ SecondWritten \/ BackupWritten \/ MainWritten
         \/ TmpWritten \/ RescueWritten \/ FrontWritten \/ BehindWritten
         \/ SyncMainWritten \/ SyncBackupWritten
  PROVE  Saved'
<1>1. /\ pc = "prog" /\ phys' = [phys EXCEPT ![wr.ba] = Table(cache)] /\ bad' = bad
      /\ cache' = cache /\ map' = map
  BY DEF RebuildWritten, SecondWritten, BackupWritten, MainWritten, TmpWritten, RescueWritten,
         FrontWritten, BehindWritten, SyncMainWritten, SyncBackupWritten, Written, tables
<1>2. wr.ba \in Tables' /\ \A b \in Tables' : Img(b)'.wc <= phys'[wr.ba].img.wc
  BY <1>1, WrittenNewest
<1>3. cache'.map = map'
  BY <1>1 DEF Saved
<1>4. CASE BackupWritten
  <2>1. backupBa' = wr.ba /\ pc' = "main"
    BY <1>4 DEF BackupWritten, Go
  <2> QED
    BY <1>2, <1>3, <2>1 DEF Saved, Newest, Img, Writes, Writing
<1>5. CASE TmpWritten
  <2>1. pc' = "erase" /\ wr'.k = "rescue" /\ wr'.limit = wr.ba
    BY <1>5 DEF TmpWritten, Start, Job
  <2> QED
    BY <1>2, <1>3, <2>1 DEF Saved, Newest, Img, Writes
<1>6. CASE \/ RebuildWritten \/ SecondWritten \/ MainWritten \/ RescueWritten \/ FrontWritten
           \/ BehindWritten \/ SyncMainWritten \/ SyncBackupWritten
  <2>1. \/ pc' \in {"create", "update", "idle", "clean"}
        \/ pc' = "erase" /\ wr'.k = "second"
    BY <1>6 DEF RebuildWritten, SecondWritten, MainWritten, RescueWritten, FrontWritten,
       BehindWritten, SyncMainWritten, SyncBackupWritten, Go, Start, Clean, Job, Returned,
       LoadDone, Rest
  <2> QED
    BY <1>3, <2>1, NothingToSave
<1> QED
  BY <1>4, <1>5, <1>6

(* A write that gives up leaves one table, or the copies it made.          *)
LEMMA EndedSaved ==
  ASSUME TInv, SInv, Here, Saved,
         \/ RebuildFailed \/ SecondFailed \/ SecondCleaned \/ BackupFailed \/ MainFailed
         \/ TmpFailed \/ RescueFailed \/ FrontCleaned \/ FrontFailed \/ BehindFailed
         \/ BehindCleaned \/ SyncMainFailed \/ SyncBackupFailed
  PROVE  Saved'
<1>1. cache'.map = map'
  <2>1. pc \in {"erase", "clean"} /\ cache' = cache /\ map' = map
    BY DEF RebuildFailed, SecondFailed, SecondCleaned, BackupFailed, MainFailed, TmpFailed,
         RescueFailed, FrontCleaned, FrontFailed, BehindFailed, BehindCleaned, SyncMainFailed,
         SyncBackupFailed, GaveUp, Cleaned
  <2> QED
    BY <2>1 DEF Saved
<1>2. \/ pc' \notin {"rebuild", "main", "erase", "prog", "clean"}
      \/ pc' = "main" /\ backupBa' = 0
      \/ pc' = "rebuild"
      \/ pc' = "erase" /\ wr'.k \in {"tmp", "front", "behind"}
  <2>1. CASE RebuildFailed
    <3>1. pc' \in {"gone"} \cup Rets
      BY <2>1 DEF RebuildFailed, Go, TInv, TypeOK
    <3> QED
      BY <3>1 DEF Rets
  <2>2. CASE BackupFailed
    BY <2>2 DEF BackupFailed, Go
  <2>3. CASE MainFailed \/ TmpFailed
    BY <2>3 DEF MainFailed, TmpFailed, Go, Start, Job
  <2>4. CASE \/ SecondFailed \/ SecondCleaned \/ RescueFailed \/ FrontCleaned \/ FrontFailed
             \/ BehindFailed \/ BehindCleaned \/ SyncMainFailed \/ SyncBackupFailed
    BY <2>4 DEF SecondFailed, SecondCleaned, RescueFailed, FrontCleaned, FrontFailed,
       BehindFailed, BehindCleaned, SyncMainFailed, SyncBackupFailed, Go, Start, Job, Returned,
       LoadDone, Rest
  <2> QED
    BY <2>1, <2>2, <2>3, <2>4
<1> QED
  BY <1>1, <1>2, NothingToSave

(* An update begins with tables that agree.                                *)
LEMMA QuietSaved ==
  ASSUME TInv, SInv, Here, Copies, Saved,
         \/ RebuildStart \/ UpdateBegin \/ UpdateDone \/ MainBegin
         \/ CreateRemap \/ CreateEnd \/ CreateNoSpare \/ Detach \/ BlockStep
  PROVE  Saved'
<1>1. CASE RebuildStart
  <2>1. pc' = "erase" /\ wr'.k = "rebuild" /\ cache'.map = map'
    BY <1>1 DEF RebuildStart, Start, Job, Saved, tables
  <2> QED
    BY <2>1, NothingToSave
<1>2. CASE UpdateBegin
  <2>1. /\ pc = "update" /\ cache'.map = map' /\ UNCHANGED flash
        /\ \/ pc' = "main" /\ backupBa' = 0
           \/ pc' = "erase" /\ wr'.k = "backup"
    BY <1>2 DEF UpdateBegin, Go, Start, Job, layout
  <2>2. BothCopies
    BY <2>1 DEF Copies
  <2>3. \A b \in Tables : Img(b).map = cache.map
    <3>1. \A b \in Tables : b \in {mainBa, backupBa} /\ b # 0
      BY <2>1, RestingFacts
    <3> QED
      BY <2>2, <3>1 DEF BothCopies, Copy, Img
  <2>4. Tables' = Tables /\ \A b \in Tables' : phys'[b] = phys[b]
    BY <2>1, SameTables
  <2>5. \A b, c \in Tables' : Img(b)'.map = Img(c)'.map
    BY <2>3, <2>4 DEF Img
  <2> QED
    BY <2>1, <2>5 DEF Saved, Writes, Writing, Img
<1>3. CASE MainBegin
  <2>1. /\ pc = "main" /\ cache'.map = map' /\ UNCHANGED flash /\ UNCHANGED backupBa
        /\ \/ pc' = "rebuild"
           \/ pc' = "erase" /\ wr'.k = "main"
    BY <1>3 DEF MainBegin, Go, Start, Job, layout, tables, Saved
  <2>2. backupBa # 0 => Newest(backupBa)'
    <3>1. Tables' = Tables /\ \A b \in Tables' : phys'[b] = phys[b]
      BY <2>1, SameTables
    <3> QED
      BY <2>1, <3>1 DEF Saved, Newest, Img
  <2> QED
    BY <2>1, <2>2 DEF Saved, Writes, Writing
<1>4. CASE \/ UpdateDone \/ CreateRemap \/ CreateEnd \/ CreateNoSpare \/ Detach
  <2>1. pc' \in {"update", "create"} \cup Rets
    BY <1>4 DEF UpdateDone, CreateRemap, CreateEnd, CreateNoSpare, Detach, Update, Go, Rest,
                Rets, TInv, TypeOK, control
  <2> QED
    BY <2>1, NothingToSave DEF Rets
<1>5. CASE BlockStep
  <2>1. pc' \in {"idle", "update", "erase_lb"}
    BY <1>5 DEF BlockStep, WriteOk, WriteFails, EraseBegin, MarkBad, Refused, ErasedBlock,
         EraseFails, EraseLeavesBlock, EraseUnmaps, RemapBlock, UpdateFirst, Update, Rest,
         Writable, Accepts, vars, control
  <2> QED
    BY <2>1, NothingToSave
<1> QED
  BY <1>1, <1>2, <1>3, <1>4, <1>5

(* The newest table is loaded, and the older of two is written again.      *)
LEMMA LoadSaved ==
  ASSUME TInv, SInv, Chip, NEW ecc \in UnreadableSets,
         AttachOne(ecc) \/ AttachUnequal(ecc) \/ AttachEqual(ecc)
  PROVE  Saved'
<1>1. PICK f : f = Found(ecc)
  OBVIOUS
<1>2. PICK at : at = IF Newer(f) THEN f.second ELSE f.first
  OBVIOUS
<1>3. PICK last : last = IF f.second = None THEN f.first ELSE f.second
  OBVIOUS
<1>4. /\ Load(f)
      /\ \/ pc' = "erase" /\ wr'.k = "front"
         \/ /\ f.second # None /\ pc' = "erase"
            /\ \/ phys[f.first].img.wc < phys[f.second].img.wc /\ wr'.k = "syncmain"
               \/ /\ ~ (phys[f.first].img.wc < phys[f.second].img.wc)
                  /\ wr'.k = "syncbackup"
         \/ pc' = "idle"
  BY <1>1 DEF AttachOne, AttachUnequal, AttachEqual, Start, LoadDone, Rest, Job
<1>5. /\ f.first \in Tables /\ at \in Tables /\ \A b \in Tables : Img(b).wc <= Img(at).wc
      /\ f.second # None => f.second = last /\ last \in Tables
      /\ map' = Img(at).map /\ cache' = [wc |-> wc', st |-> st', map |-> map']
      /\ mainBa' = f.first /\ backupBa' = (IF f.second = None THEN 0 ELSE last)
      /\ UNCHANGED flash
  BY <1>1, <1>2, <1>3, <1>4, LoadedImage
<1>6. Tables' = Tables /\ phys' = phys /\ cache'.map = map'
  BY <1>5, SameTables DEF flash
<1>7. Newest(at)'
  BY <1>5, <1>6 DEF Newest, Img
<1>8. \A b \in Tables : phys[b].img.wc \in Nat
  BY Numeric, ImagesTyped DEF TInv, Img
<1>9. CASE (pc' = "erase" /\ wr'.k = "front") \/ pc' = "idle"
  BY <1>6, <1>9, NothingToSave
<1>10. CASE /\ f.second # None /\ pc' = "erase" /\ wr'.k = "syncmain"
            /\ phys[f.first].img.wc < phys[f.second].img.wc
  <2>1. at = backupBa'
    BY <1>2, <1>5, <1>8, <1>10 DEF Newer
  <2>2. Newest(backupBa)'
    BY <1>5, <1>6, <2>1 DEF Newest, Img
  <2> QED
    BY <1>6, <1>10, <2>2 DEF Saved, Writes, Writing
<1>11. CASE /\ f.second # None /\ pc' = "erase" /\ wr'.k = "syncbackup"
            /\ ~ (phys[f.first].img.wc < phys[f.second].img.wc)
  <2>1. at = mainBa'
    BY <1>2, <1>5, <1>8, <1>11 DEF Newer
  <2>2. Newest(mainBa)'
    BY <1>5, <1>6, <2>1 DEF Newest, Img
  <2> QED
    BY <1>6, <1>11, <2>2 DEF Saved, Writes, Writing
<1> QED
  BY <1>4, <1>9, <1>10, <1>11

(* New tables are created with the mapping in memory.                      *)
LEMMA NewSaved ==
  ASSUME \/ AttachNew \/ SignatureWritten \/ SignatureFails \/ NoSignatureBlock
         \/ \E ecc \in UnreadableSets : AttachNoTable(ecc)
  PROVE  Saved'
<1>1. pc' \in {"sign", "gone"} \/ (pc' = "rebuild" /\ cache'.map = map')
  <2>1. CASE AttachNew \/ SignatureFails \/ NoSignatureBlock
    BY <2>1 DEF AttachNew, SignatureFails, NoSignatureBlock, Go
  <2>2. CASE SignatureWritten
    BY <2>2 DEF SignatureWritten, CreateTables, Go
  <2>3. CASE \E ecc \in UnreadableSets : AttachNoTable(ecc)
    BY <2>3 DEF AttachNoTable, CreateTables, Go
  <2> QED
    BY <2>1, <2>2, <2>3
<1> QED
  BY <1>1, NothingToSave

(* Every step keeps it.                                                    *)
LEMMA NextSaved ==
  ASSUME TInv, SInv, LInv, CInv, UInv, [Next]_vars
  PROVE  UInv'
<1> SUFFICES ASSUME ~ skipped' PROVE Saved'
  BY DEF UInv
<1>1. ~ skipped /\ Copies /\ Chip /\ (Attached => Here) /\ Saved
  BY SkippedStays DEF CInv, LInv, UInv, Here
<1>2. CASE \/ LoopStep
           \/ RebuildWritten \/ SecondWritten \/ BackupWritten \/ MainWritten
           \/ TmpWritten \/ RescueWritten \/ FrontWritten \/ BehindWritten
           \/ SyncMainWritten \/ SyncBackupWritten
           \/ RebuildFailed \/ SecondFailed \/ SecondCleaned \/ BackupFailed \/ MainFailed
           \/ TmpFailed \/ RescueFailed \/ FrontCleaned \/ FrontFailed \/ BehindFailed
           \/ BehindCleaned \/ SyncMainFailed \/ SyncBackupFailed
  <2>1. Attached
    BY <1>2 DEF LoopStep, MgmtErased, MgmtEraseFails, MgmtProgramFails, CleanStep, CleanFails,
         RebuildWritten, SecondWritten, BackupWritten, MainWritten, TmpWritten, RescueWritten,
         FrontWritten, BehindWritten, SyncMainWritten, SyncBackupWritten, RebuildFailed,
         SecondFailed, SecondCleaned, BackupFailed, MainFailed, TmpFailed, RescueFailed,
         FrontCleaned, FrontFailed, BehindFailed, BehindCleaned, SyncMainFailed,
         SyncBackupFailed, Written, GaveUp, Cleaned, Attached
  <2>2. Here
    BY <1>1, <2>1
  <2> QED
    BY <1>1, <1>2, <2>2, LoopSaved, WrittenSaved, EndedSaved
<1>3. CASE \/ RebuildStart \/ UpdateBegin \/ UpdateDone \/ MainBegin
           \/ CreateRemap \/ CreateEnd \/ CreateNoSpare \/ Detach \/ BlockStep
  <2>1. Here
    BY <1>1, <1>3 DEF RebuildStart, UpdateBegin, UpdateDone, MainBegin, CreateRemap, CreateEnd,
         CreateNoSpare, Detach, BlockStep, WriteOk, WriteFails, EraseBegin, MarkBad, Refused,
         ErasedBlock, EraseFails, EraseLeavesBlock, EraseUnmaps, Writable, Accepts, Attached
  <2> QED
    BY <1>1, <1>3, <2>1, QuietSaved
<1>4. CASE \E ecc \in UnreadableSets : AttachOne(ecc) \/ AttachUnequal(ecc) \/ AttachEqual(ecc)
  BY <1>1, <1>4, LoadSaved
<1>5. CASE \/ AttachNew \/ SignatureWritten \/ SignatureFails \/ NoSignatureBlock
           \/ \E ecc \in UnreadableSets : AttachNoTable(ecc)
  BY <1>5, NewSaved
<1>6. CASE Leave \/ Crash \/ CutShort
  BY <1>6, NothingToSave DEF Leave, Crash, CutShort, PowerOff
<1>7. CASE UNCHANGED vars
  BY <1>1, <1>7 DEF vars, flash, tables, layout, control, Saved, Newest, Img, Tables, Writes, Writing
<1> QED
  BY <1>2, <1>3, <1>4, <1>5, <1>6, <1>7
  DEF Next, TableStep, AttachStep, LoopStep, StaysOff

(* The six invariants together.                                            *)
LEMMA SpecSaved == Spec => [](TInv /\ SInv /\ LInv /\ CInv /\ FInv /\ UInv)
<1>1. Init => UInv
  BY DEF Init, Off, UInv, Saved, Writes, Writing
<1>2. TInv /\ SInv /\ LInv /\ CInv /\ UInv /\ [Next]_vars => UInv'
  BY NextSaved
<1> QED
  BY <1>1, <1>2, SpecFlushed, PTL DEF Spec

-----------------------------------------------------------------------------
(* The invariants of a driver that is not off, as long as nothing was      *)
(* passed over.                                                            *)
Sure == TInv /\ SInv /\ LInv /\ CInv /\ FInv /\ UInv /\ ~ skipped

(* An operation of a writable device with two tables ends with the mapping *)
(* in the register.                                                        *)
Settled ==
    pc = "idle" /\ backupBa # 0 /\ ~ protected => \A lb \in LB : map[lb] \in {None, Stored[lb]}

(* That follows from the invariants, before                                *)
LEMMA AllSettled == Sure => Register /\ Settled
<1> SUFFICES ASSUME Sure PROVE Register /\ Settled
  OBVIOUS
<1>1. TInv /\ SInv /\ Chip /\ Copies /\ (Attached => Here /\ Flushed)
  BY DEF Sure, LInv, CInv, FInv, Here
<1>2. Register
  BY <1>1, StoredNewest
<1>3. ASSUME pc = "idle", backupBa # 0, ~ protected, NEW lb \in LB, map[lb] # None
      PROVE  map[lb] = Stored[lb]
  <2>1. Here /\ Flushed
    BY <1>1, <1>3 DEF Attached
  <2>2. \A b \in Tables : b \in {mainBa, backupBa} /\ b # 0
    BY <1>1, <1>3, <2>1, RestingFacts
  <2>3. BothCopies
    BY <1>1, <1>3 DEF Copies
  <2>4. PICK c \in Tables : Newest(c)
    BY <1>1, <1>3, <2>3, OneNewest DEF BothCopies, Copy
  <2>5. Stored = cache.map
    BY <1>2, <2>2, <2>3, <2>4 DEF Register, BothCopies, Copy, Img
  <2>6. cache.map[lb] = map[lb]
    BY <1>3, <2>1 DEF Flushed, Pending, Lost
  <2> QED
    BY <2>5, <2>6
<1> QED
  BY <1>2, <1>3 DEF Settled

(* and after a step.                                                       *)
LEMMA AllSettledNext == Sure' => Register' /\ Settled'
  BY AllSettled, PTL

(* What the register holds depends on the chip alone,                      *)
LEMMA SameChip ==
  ASSUME UNCHANGED flash
  PROVE  Stored' = Stored
  BY DEF Stored, Newer, flash

(* and of that on the tables alone:                                        *)
LEMMA SameStored ==
  ASSUME Sure, Register, Register', Tables' = Tables, \A b \in Tables' : phys'[b] = phys[b]
  PROVE  Stored' = Stored
<1>1. CASE Tables = {}
  BY <1>1 DEF Register
<1>2. CASE Tables # {}
  <2>1. TInv /\ Chip
    BY DEF Sure, LInv
  <2>2. PICK c \in Tables : Newest(c)
    BY <1>2, <2>1, OneNewest
  <2>3. c \in Tables' /\ Newest(c)'
    BY <2>2 DEF Newest, Img
  <2> QED
    BY <2>2, <2>3 DEF Register, Img
<1> QED
  BY <1>1, <1>2

(* the newest of them.                                                     *)
LEMMA NewestKept ==
  ASSUME Register, Register', Tables' \subseteq Tables, \A b \in Tables' : phys'[b] = phys[b],
         NEW c \in Tables', Newest(c)
  PROVE  Stored' = Stored
<1>1. Newest(c)'
  BY NewestStays DEF Newest, Img
<1>2. Img(c)' = Img(c)
  BY DEF Img
<1> QED
  BY <1>1, <1>2 DEF Register

-----------------------------------------------------------------------------
(* A table write or range erase that spoils blocks of its range loses      *)
(* nothing as long as there are two tables.                                *)
LEMMA RangeStored ==
  ASSUME Sure, Register, Register', Sure', pc \in {"erase", "prog", "clean"},
         Tables' \subseteq Tables, \A c \in Tables' : phys'[c] = phys[c],
         \A c \in Tables : c < wr.from \/ wr.limit <= c => c \in Tables'
  PROVE  Stored' = Stored \/ (backupBa = 0 /\ Stored' = NoMap)
<1>1. /\ TInv /\ SInv /\ Here /\ Copies /\ Saved /\ Chip /\ TInv' /\ Chip'
      /\ TypeOK /\ Underway /\ Regions /\ Passed /\ \A b \in Tables : Place(b)
  BY DEF Sure, LInv, CInv, UInv, Here, Layout, Attached, TInv
<1>2. /\ mainBa \in Nat /\ backupBa \in Nat /\ mapBa \in Nat /\ wr.limit \in Nat
      /\ wr.from \in Nat /\ MgmtStart \in Nat /\ 0 < MgmtStart
  BY <1>1, Numeric
<1>3. \A b \in Tables : b # 0
  BY <1>1, <1>2 DEF Chip, TablesPlaced
<1>4. (Writing <=> pc \in {"erase", "prog"}) /\ pc # "rebuild"
  BY DEF Writing
<1>5. ASSUME \A b \in Tables : b < wr.from \/ wr.limit <= b
      PROVE  Stored' = Stored
  <2>1. Tables' = Tables
    BY <1>5
  <2> QED
    BY <2>1, SameStored
<1>6. ASSUME NEW c, Newest(c), c < wr.from \/ wr.limit <= c
      PROVE  Stored' = Stored
  <2>1. c \in Tables'
    BY <1>6 DEF Newest
  <2> QED
    BY <1>6, <2>1, NewestKept
<1>7. CASE Writes("rebuild")
  <2>1. Tables = {}
    BY <1>1, <1>7 DEF Place
  <2> QED
    BY <1>5, <2>1
<1>8. CASE Writes("second") \/ Writes("front") \/ Writes("behind")
  <2>1. \A b \in Tables : b = mainBa
    BY <1>1, <1>8 DEF Place
  <2>2. mainBa < wr.from \/ wr.limit <= mainBa
    BY <1>1, <1>2, <1>8 DEF Underway, Regions, From, Writes
  <2> QED
    BY <1>5, <2>1, <2>2
<1>9. CASE Writes("backup")
  <2>1. mainBa \in Tables /\ mainBa < wr.from
    BY <1>1, <1>2, <1>9 DEF Copies, Underway, Regions, From
  <2>2. mainBa \in Tables'
    BY <2>1
  <2>3. PICK c \in Tables' : Newest(c)'
    BY <1>1, <2>2, OneNewestNext
  <2>4. PICK d \in Tables : Newest(d)
    BY <1>1, <2>1, OneNewest
  <2>5. Img(c).map = Img(d).map
    BY <1>1, <1>9, <2>3, <2>4 DEF Saved
  <2> QED
    BY <2>3, <2>4, <2>5 DEF Register, Img
<1>10. CASE Writes("main") \/ Writes("syncmain")
  <2>1. CASE backupBa # 0
    <3>1. Newest(backupBa) /\ wr.limit <= backupBa
      BY <1>1, <1>2, <1>10, <2>1 DEF Saved, Underway, From, MainLimit
    <3> QED
      BY <1>6, <3>1
  <2>2. CASE backupBa = 0
    <3>1. \A b \in Tables : b = mainBa
      BY <1>1, <1>3, <1>4, <1>10, <2>2 DEF Place, Writes, Cleans
    <3>2. Tables' = Tables \/ Tables' = {}
      BY <3>1
    <3> QED
      BY <2>2, <3>2, SameStored DEF Register
  <2> QED
    BY <2>1, <2>2
<1>11. CASE Writes("tmp")
  <2>1. \A b \in Tables : b = backupBa
    BY <1>1, <1>11 DEF Place
  <2>2. backupBa < wr.from
    BY <1>1, <1>2, <1>11 DEF Underway, Regions
  <2> QED
    BY <1>5, <2>1, <2>2
<1>12. CASE Writes("rescue")
  <2>1. Newest(wr.limit) /\ wr.limit <= wr.limit
    BY <1>1, <1>2, <1>12 DEF Saved
  <2> QED
    BY <1>6, <2>1
<1>13. CASE Writes("syncbackup")
  <2>1. Newest(mainBa) /\ mainBa < wr.from
    BY <1>1, <1>2, <1>13 DEF Saved, Underway, Regions, From
  <2> QED
    BY <1>6, <2>1
<1>14. CASE Cleans("second") \/ Cleans("front")
  <2>1. \A b \in Tables : b \in {mainBa, backupBa}
    BY <1>1, <1>4, <1>14 DEF Place, Writes, Cleans
  <2>2. mainBa < wr.from /\ wr.limit <= backupBa
    BY <1>1, <1>2, <1>14 DEF Underway, From
  <2> QED
    BY <1>5, <2>1, <2>2
<1>15. CASE Cleans("behind")
  <2>1. \A b \in Tables : b \in {mainBa, wr.limit}
    BY <1>1, <1>15 DEF Place
  <2>2. mainBa < wr.from /\ wr.limit <= wr.limit
    BY <1>1, <1>2, <1>4, <1>15 DEF Underway, Regions, From, Cleans
  <2> QED
    BY <1>5, <2>1, <2>2
<1> QED
  BY <1>1, <1>4, <1>7, <1>8, <1>9, <1>10, <1>11, <1>12, <1>13, <1>14, <1>15
  DEF Copies, Writes, Cleans, Jobs

-----------------------------------------------------------------------------
(* The steps of NmbmStore in the words of Nmbm: a step of an operation,    *)
LEMMA IsStep ==
  ASSUME pc \notin {"off", "idle"}, pc' # "off", map' = map, Settled',
         Stored' \in {Stored, map} \/ (backupBa = 0 /\ Stored' = NoMap)
  PROVE  Store!Next
<1>1. /\ pc' = "idle" /\ (sigBa' # 0 /\ backupBa' # 0) /\ ~ protected'
         => \A lb \in LB : map[lb] \in {None, Stored'[lb]}
  BY DEF Settled
<1> QED
  BY <1>1 DEF Store!Next, Store!Step, Store!Lost, Store!Nothing, NoMap

(* a block that is moved,                                                  *)
LEMMA IsMove ==
  ASSUME pc # "off", pc' \notin {"off", "idle"}, UNCHANGED <<sigBa, backupBa, protected>>,
         NEW lb \in LB, \A k \in LB \ {lb} : map'[k] = map[k], Stored' = Stored
  PROVE  Store!Next
  BY DEF Store!Next, Store!Move

(* a call,                                                                 *)
LEMMA IsCall ==
  ASSUME pc = "idle", pc' # "off", UNCHANGED <<map, sigBa, backupBa, protected>>,
         Stored' = Stored
  PROVE  Store!Next
  BY DEF Store!Next, Store!Call

(* an attach                                                               *)
LEMMA IsAttach ==
  ASSUME pc = "off", pc' # "off", Stored = NoMap \/ map' = Stored, Stored' = Stored
  PROVE  Store!Next
  BY DEF Store!Next, Store!Attach, Store!Nothing, NoMap

(* and a power cut.                                                        *)
LEMMA IsPowerCut ==
  ASSUME pc # "off", PowerOff, Stored' = Stored \/ (backupBa = 0 /\ Stored' = NoMap)
  PROVE  Store!Next
<1>1. pc' = "off" /\ map' = NoMap /\ sigBa' = 0 /\ protected' = FALSE
  BY DEF PowerOff
<1> QED
  BY <1>1 DEF Store!Next, Store!PowerCut, Store!Lost, Store!Nothing, NoMap

-----------------------------------------------------------------------------
(* What a table write erases leaves the register, or loses the only copy.  *)
LEMMA LoopRefines ==
  ASSUME Sure, Sure', Register, Register', Settled', LoopStep
  PROVE  Store!Next
<1>1. TInv /\ SInv /\ Here /\ Attached /\ pc \in {"erase", "prog", "clean"}
  BY DEF Sure, LInv, Here, LoopStep, MgmtErased, MgmtEraseFails, MgmtProgramFails, CleanStep,
         CleanFails, Attached
<1>2. Tables' \subseteq Tables /\ (\A c \in Tables' : phys'[c] = phys[c]) /\ map' = map
  <2>1. \E b \in PB, n \in Nat :
           /\ Tables' \subseteq Tables /\ b \notin Tables'
           /\ \A c \in Tables' : phys'[c] = phys[c]
           /\ UNCHANGED <<map, wc, cache, layout, fixed, ret, cur, history>>
    BY <1>1, LoopEffect
  <2> QED
    BY <2>1
<1>3. pc' \in {"erase", "prog", "clean"}
  BY <1>1, LoopSpares
<1>4. \A c \in Tables : c < wr.from \/ wr.limit <= c => c \in Tables'
  BY <1>1, LoopLeaves
<1>5. Stored' = Stored \/ (backupBa = 0 /\ Stored' = NoMap)
  BY <1>1, <1>2, <1>4, RangeStored
<1> QED
  BY <1>1, <1>2, <1>3, <1>5, IsStep

(* A table that is written brings it there.                                *)
LEMMA WrittenRefines ==
  ASSUME Sure, Sure', Register, Register', Settled',
         \/ RebuildWritten \/ SecondWritten \/ BackupWritten \/ MainWritten
         \/ TmpWritten \/ RescueWritten \/ FrontWritten \/ BehindWritten
         \/ SyncMainWritten \/ SyncBackupWritten
  PROVE  Store!Next
<1>1. /\ pc = "prog" /\ phys' = [phys EXCEPT ![wr.ba] = Table(cache)] /\ bad' = bad
      /\ cache' = cache /\ map' = map
  BY DEF RebuildWritten, SecondWritten, BackupWritten, MainWritten, TmpWritten, RescueWritten,
         FrontWritten, BehindWritten, SyncMainWritten, SyncBackupWritten, Written, tables
<1>2. pc' # "off"
  BY DEF RebuildWritten, SecondWritten, BackupWritten, MainWritten, TmpWritten, RescueWritten,
         FrontWritten, BehindWritten, SyncMainWritten, SyncBackupWritten, Go, Start, Clean,
         Returned, LoadDone, Rest
<1>3. TInv /\ SInv /\ Here /\ Saved
  BY <1>1 DEF Sure, LInv, UInv, Here, Attached
<1>4. /\ wr.ba \in Tables' /\ phys'[wr.ba].img = cache
      /\ \A b \in Tables' : Img(b)'.wc <= phys'[wr.ba].img.wc
  BY <1>1, <1>3, WrittenNewest
<1>5. Stored' = cache.map
  <2>1. \A b \in Tables' : (\A c \in Tables' : phys'[c].img.wc <= phys'[b].img.wc)
            => Stored' = phys'[b].img.map
    BY DEF Register, Newest, Img
  <2>2. \A b \in Tables' : phys'[b].img.wc <= phys'[wr.ba].img.wc
    BY <1>4 DEF Img
  <2> QED
    BY <1>4, <2>1, <2>2
<1>6. Stored' = map
  BY <1>1, <1>3, <1>5 DEF Saved
<1> QED
  BY <1>1, <1>2, <1>6, IsStep

(* Nothing else that is done for the tables changes it.                    *)
LEMMA EndedRefines ==
  ASSUME Sure, Settled',
         \/ RebuildFailed \/ SecondFailed \/ SecondCleaned \/ BackupFailed \/ MainFailed
         \/ TmpFailed \/ RescueFailed \/ FrontCleaned \/ FrontFailed \/ BehindFailed
         \/ BehindCleaned \/ SyncMainFailed \/ SyncBackupFailed
  PROVE  Store!Next
<1>1. pc \in {"erase", "clean"} /\ UNCHANGED flash /\ map' = map
  BY DEF RebuildFailed, SecondFailed, SecondCleaned, BackupFailed, MainFailed, TmpFailed,
         RescueFailed, FrontCleaned, FrontFailed, BehindFailed, BehindCleaned, SyncMainFailed,
         SyncBackupFailed, GaveUp, Cleaned
<1>2. ret \in Rets
  BY DEF Sure, TInv, TypeOK
<1>3. pc' # "off"
  <2>1. CASE RebuildFailed
    BY <1>2, <2>1 DEF RebuildFailed, Go, Rets
  <2>2. CASE MainFailed \/ TmpFailed
    BY <2>2 DEF MainFailed, TmpFailed, Go, Start
  <2>3. CASE \/ SecondFailed \/ SecondCleaned \/ BackupFailed \/ RescueFailed \/ FrontCleaned
             \/ FrontFailed \/ BehindFailed \/ BehindCleaned \/ SyncMainFailed \/ SyncBackupFailed
    BY <2>3 DEF SecondFailed, SecondCleaned, BackupFailed, RescueFailed, FrontCleaned,
       FrontFailed, BehindFailed, BehindCleaned, SyncMainFailed, SyncBackupFailed, Go, Start,
       Returned, LoadDone, Rest
  <2> QED
    BY <2>1, <2>2, <2>3
<1> QED
  BY <1>1, <1>3, SameChip, IsStep

(* Neither does what is done between flash operations.                     *)
LEMMA QuietRefines ==
  ASSUME Sure, Settled',
         \/ RebuildStart \/ UpdateBegin \/ UpdateDone \/ MainBegin
         \/ CreateRemap \/ CreateEnd \/ CreateNoSpare \/ Detach
  PROVE  Store!Next
<1>1. Stored' = Stored
  <2>1. UNCHANGED flash
    BY DEF RebuildStart, UpdateBegin, UpdateDone, MainBegin, CreateRemap, CreateEnd,
           CreateNoSpare, Detach
  <2> QED
    BY <2>1, SameChip
<1>2. TypeOK /\ ret \in Rets
  BY DEF Sure, TInv, TypeOK
<1>3. CASE RebuildStart \/ UpdateBegin \/ MainBegin \/ CreateEnd \/ CreateNoSpare
  <2>1. pc \notin {"off", "idle"} /\ pc' # "off" /\ map' = map
    BY <1>3 DEF RebuildStart, UpdateBegin, MainBegin, CreateEnd, CreateNoSpare, Go, Start,
                Update, tables
  <2> QED
    BY <1>1, <2>1, IsStep
<1>4. CASE UpdateDone
  <2>1. pc \notin {"off", "idle"} /\ pc' # "off" /\ map' = map
    BY <1>2, <1>4 DEF UpdateDone, Go, Rest, Rets, tables
  <2> QED
    BY <1>1, <2>1, IsStep
<1>5. CASE CreateRemap
  <2>1. /\ pc = "create" /\ pc' = pc /\ UNCHANGED <<sigBa, backupBa, protected>>
        /\ map' = [map EXCEPT ![dataCount] = NextSpare(st)]
    BY <1>5 DEF CreateRemap, Mapped, control
  <2>2. dataCount \in LB
    <3>1. dataCount \in 0 .. MgmtStart /\ dataCount < MgmtStart
      BY <1>2, <1>5 DEF CreateRemap, TypeOK
    <3> QED
      BY <3>1, BlockNumbers DEF LB
  <2>3. \A k \in LB \ {dataCount} : map'[k] = map[k]
    BY <1>2, <2>1 DEF TypeOK, Mappings
  <2> HIDE DEF LB
  <2> QED
    BY <1>1, <2>1, <2>2, <2>3, IsMove
<1>6. CASE Detach
  <2>1. pc = "idle" /\ pc' = "update" /\ UNCHANGED <<map, sigBa, backupBa, protected>>
    BY <1>6 DEF Detach, Update, tables, layout, fixed
  <2> QED
    BY <1>1, <2>1, IsCall
<1> QED
  BY <1>3, <1>4, <1>5, <1>6

(* An operation moves a block in memory, is called, or ends.               *)
LEMMA BlockRefines ==
  ASSUME Sure, Sure', Register, Register', Settled', BlockStep
  PROVE  Store!Next \/ UNCHANGED vars
<1>1. TInv /\ SInv /\ Here /\ TypeOK
  BY DEF Sure, LInv, Here, TInv, BlockStep, WriteOk, WriteFails, EraseBegin, MarkBad, Refused,
         ErasedBlock, EraseFails, EraseLeavesBlock, EraseUnmaps, Writable, Accepts, Attached
<1>2. Stored' = Stored
  BY <1>1, BlockTables, SameStored
<1>3. map \in [LB -> Int] /\ cur \in LB
  BY <1>1, BlockNumbers DEF TypeOK, Mappings, None
<1>4. ASSUME NEW lb \in LB, WriteOk(lb) \/ WriteFails(lb) \/ EraseBegin(lb)
      PROVE  Store!Next
  <2>1. pc = "idle" /\ pc' # "off" /\ UNCHANGED <<map, sigBa, backupBa, protected>>
    BY <1>4 DEF WriteOk, WriteFails, EraseBegin, Writable, Accepts, Update, tables, layout,
                fixed, control
  <2> QED
    BY <1>2, <2>1, IsCall
<1>5. ASSUME NEW lb \in LB, MarkBad(lb) PROVE Store!Next
  <2>1. /\ pc = "idle" /\ pc' = "update" /\ UNCHANGED <<sigBa, backupBa, protected>>
        /\ map' = [map EXCEPT ![lb] = None]
    BY <1>5 DEF MarkBad, Accepts, Update, layout, fixed
  <2>2. \A k \in LB \ {lb} : map'[k] = map[k]
    BY <1>3, <2>1
  <2> QED
    BY <1>2, <2>1, <2>2, IsMove
<1>6. CASE ErasedBlock
  <2>1. pc = "erase_lb" /\ pc' = "idle" /\ map' = map
    BY <1>6 DEF ErasedBlock, Rest, tables
  <2> QED
    BY <1>2, <2>1, IsStep
<1>7. CASE EraseFails \/ EraseLeavesBlock \/ EraseUnmaps
  <2>1. /\ pc \in {"erase_lb", "unmap"} /\ pc' = "update"
        /\ UNCHANGED <<sigBa, backupBa, protected>>
        /\ map' = map \/ \E p : map' = [map EXCEPT ![cur] = p]
    BY <1>7 DEF EraseFails, EraseLeavesBlock, EraseUnmaps, RemapBlock, Mapped, UpdateFirst,
                Update, fixed
  <2>2. \A k \in LB \ {cur} : map'[k] = map[k]
    BY <1>3, <2>1
  <2> QED
    BY <1>2, <1>3, <2>1, <2>2, IsMove
<1> QED
  BY <1>4, <1>5, <1>6, <1>7 DEF BlockStep, Refused

-----------------------------------------------------------------------------
(* A chip that is being signed has no table.                               *)
LEMMA NoneYet ==
  ASSUME Sure, pc = "sign"
  PROVE  Tables = {}
  BY DEF Sure, SInv, Unsigned, LInv, Chip, TablesPlaced

(* An attach reads the register, or makes a mapping when there is none.    *)
LEMMA NewRefines ==
  ASSUME Sure, Sure', Register, Register', Settled',
         \/ AttachNew \/ SignatureWritten \/ SignatureFails \/ NoSignatureBlock
         \/ \E ecc \in UnreadableSets : AttachNoTable(ecc)
  PROVE  Store!Next
<1>1. TInv /\ SInv /\ Chip /\ TypeOK
  BY DEF Sure, LInv, TInv
<1>2. CASE AttachNew
  <2>1. pc = "off" /\ pc' = "sign" /\ UNCHANGED flash /\ FindSignature(phys, bad) = None
    BY <1>2 DEF AttachNew, Begin
  <2>2. Stored = NoMap
    <3>1. Found({}).sig = None
      BY <2>1 DEF Found
    <3> QED
      BY <3>1, StoredFound
  <2> QED
    BY <2>1, <2>2, SameChip, IsAttach
<1>3. CASE SignatureWritten \/ SignatureFails
  <2>1. /\ pc = "sign" /\ pc' \in {"sign", "gone", "rebuild"} /\ map' = map /\ bad \subseteq bad'
        /\ \E b, x : x.kind # "table" /\ phys' = [phys EXCEPT ![b] = x]
    <3>1. CASE SignatureWritten
      BY <3>1, NoTable DEF SignatureWritten, CreateTables, Go
    <3>2. CASE SignatureFails
      BY <3>2, NoTable DEF SignatureFails, Fail, Spoil
    <3> QED
      BY <1>3, <3>1, <3>2
  <2>2. PICK b, x : x.kind # "table" /\ phys' = [phys EXCEPT ![b] = x]
    BY <2>1
  <2>3. \A c \in PB : phys'[c] = phys[c] \/ phys'[c] = x
    BY <1>1, <2>2 DEF TypeOK
  <2>4. Tables = {} /\ Tables' = {}
    BY <2>1, <2>2, <2>3, NoneYet DEF Tables
  <2>5. Stored' = Stored
    BY <2>4 DEF Register
  <2> QED
    BY <2>1, <2>5, IsStep
<1>4. CASE NoSignatureBlock
  <2>1. pc = "sign" /\ pc' = "gone" /\ map' = map /\ UNCHANGED flash
    BY <1>4 DEF NoSignatureBlock, Go, tables
  <2> QED
    BY <2>1, SameChip, IsStep
<1>5. CASE \E ecc \in UnreadableSets : AttachNoTable(ecc)
  <2>1. PICK ecc \in UnreadableSets : AttachNoTable(ecc)
    BY <1>5
  <2>2. PICK f : f = Found(ecc)
    OBVIOUS
  <2>3. /\ f.sig # None /\ f.first = None /\ pc = "off" /\ pc' \in {"gone", "rebuild"}
        /\ UNCHANGED flash
    BY <2>1, <2>2 DEF AttachNoTable, Begin, CreateTables, Go
  <2>4. Tables = {}
    BY <1>1, <2>1, <2>2, <2>3, FoundTables
  <2> QED
    BY <2>3, <2>4, SameChip, IsAttach DEF Register
<1> QED
  BY <1>2, <1>3, <1>4, <1>5

(* A table that is loaded is what the register holds.                      *)
LEMMA LoadRefines ==
  ASSUME Sure, Register, NEW ecc \in UnreadableSets,
         AttachOne(ecc) \/ AttachUnequal(ecc) \/ AttachEqual(ecc)
  PROVE  Store!Next
<1>1. PICK f : f = Found(ecc)
  OBVIOUS
<1>2. PICK at : at = IF Newer(f) THEN f.second ELSE f.first
  OBVIOUS
<1>3. PICK last : last = IF f.second = None THEN f.first ELSE f.second
  OBVIOUS
<1>4. TInv /\ SInv /\ Chip
  BY DEF Sure, LInv
<1>5. Load(f) /\ pc = "off" /\ pc' \in {"erase", "idle"}
  BY <1>1 DEF AttachOne, AttachUnequal, AttachEqual, Load, Begin, Start, LoadDone, Rest
<1>6. /\ at \in Tables /\ \A b \in Tables : Img(b).wc <= Img(at).wc
      /\ map' = Img(at).map /\ UNCHANGED flash
  BY <1>1, <1>2, <1>3, <1>4, <1>5, LoadedImage
<1>7. map' = Stored
  BY <1>6 DEF Register, Newest
<1> QED
  BY <1>5, <1>6, <1>7, SameChip, IsAttach

(* A power cut, in an erase or write or between two, leaves it alone as    *)
(* long as there are two tables.                                           *)
LEMMA OffRefines ==
  ASSUME Sure, Sure', Register, Register', Leave \/ Crash \/ CutShort
  PROVE  Store!Next
<1>1. TInv /\ SInv /\ TypeOK /\ (Attached => Here)
  BY DEF Sure, LInv, Here, TInv
<1>2. CASE Leave \/ Crash
  <2>1. pc # "off" /\ PowerOff /\ UNCHANGED flash
    BY <1>2 DEF Leave, Crash
  <2> QED
    BY <2>1, SameChip, IsPowerCut
<1>3. CASE CutShort
  <2>1. PowerOff /\ bad' = bad /\ pc # "off"
    BY <1>3 DEF CutShort, Writable, Accepts
  <2>2. CASE /\ pc \in {"erase", "clean"} /\ Usable(wr.ba, wr.limit) # {}
             /\ Spoil(Lowest(Usable(wr.ba, wr.limit)))
    <3> DEFINE b == Lowest(Usable(wr.ba, wr.limit))
    <3>1. Here /\ Passed
      BY <1>1, <2>2 DEF Attached, Here, Layout
    <3>2. /\ wr.from \in Nat /\ wr.ba \in Nat /\ wr.limit \in PB /\ wr.limit \in Nat
          /\ wr.from <= wr.ba
      BY <1>1, <2>2, <3>1, Numeric DEF Passed, Writing
    <3>3. b \in PB /\ wr.ba <= b /\ b < wr.limit
      BY <2>2, <3>2, UsableIn
    <3>4. phys' = [phys EXCEPT ![b] = Torn]
      BY <2>2 DEF Spoil
    <3> HIDE DEF b
    <3>5. b \in Nat
      BY <3>3, BlockNumbers
    <3>6. Tables' \subseteq Tables /\ \A c \in Tables' : phys'[c] = phys[c]
      BY <1>1, <2>1, <3>3, <3>4, NoTable, OneChanged
    <3>7. ASSUME NEW c \in Tables, c < wr.from \/ wr.limit <= c PROVE c \in Tables'
      <4>1. c \in PB /\ c \in Nat
        BY BlockNumbers DEF Tables
      <4>2. c # b
        BY <3>2, <3>3, <3>5, <3>7, <4>1
      <4>3. phys'[c] = phys[c]
        BY <1>1, <3>4, <4>1, <4>2 DEF TypeOK
      <4> QED
        BY <2>1, <4>1, <4>3 DEF Tables
    <3>8. Stored' = Stored \/ (backupBa = 0 /\ Stored' = NoMap)
      BY <2>2, <3>6, <3>7, RangeStored
    <3> QED
      BY <2>1, <3>8, IsPowerCut
  <2>3. CASE pc = "sign" /\ Spoil(Highest(SignatureBlocks))
    <3>1. \A c \in PB : phys'[c] = phys[c] \/ phys'[c] = Torn
      BY <1>1, <2>3 DEF Spoil, TypeOK
    <3>2. Tables = {} /\ Tables' = {}
      BY <2>1, <2>3, <3>1, NoTable, NoneYet DEF Tables
    <3>3. Stored' = Stored
      BY <3>2 DEF Register
    <3> QED
      BY <2>1, <3>3, IsPowerCut
  <2>4. ASSUME NEW lb \in LB, map[lb] # None, Spoil(map[lb]), pc \in {"erase_lb", "idle"}
        PROVE  Store!Next
    <3>1. Here
      BY <1>1, <2>4 DEF Attached
    <3>2. map[lb] \in PB /\ map[lb] \notin Tables
      BY <1>1, <2>4, <3>1, BlockOutside
    <3>3. phys' = [phys EXCEPT ![map[lb]] = Torn]
      BY <2>4 DEF Spoil
    <3>4. Tables' = Tables /\ \A c \in Tables' : phys'[c] = phys[c]
      BY <1>1, <2>1, <3>2, <3>3, NoTable, OutsideChanged
    <3>5. Stored' = Stored
      BY <3>4, SameStored
    <3> QED
      BY <2>1, <3>5, IsPowerCut
  <2>5. CASE pc = "erase_lb" /\ Spoil(map[cur])
    <3>1. cur \in LB /\ map[cur] # None
      BY <1>1, <2>5 DEF TInv, TypeOK, Control
    <3> QED
      BY <2>4, <2>5, <3>1
  <2>6. CASE \E lb \in LB : Writable(lb) /\ Spoil(map[lb])
    BY <2>4, <2>6 DEF Writable, Accepts
  <2> QED
    BY <1>3, <2>2, <2>3, <2>5, <2>6 DEF CutShort
<1> QED
  BY <1>2, <1>3

(* Every step of the driver is one of the register.                        *)
LEMMA NextRefines ==
  ASSUME Sure, Sure', [Next]_vars
  PROVE  Store!Next \/ UNCHANGED Store!vars
<1>1. Register /\ Register' /\ Settled'
  BY AllSettled, AllSettledNext
<1>2. CASE LoopStep
  BY <1>1, <1>2, LoopRefines
<1>3. CASE \/ RebuildWritten \/ SecondWritten \/ BackupWritten \/ MainWritten
           \/ TmpWritten \/ RescueWritten \/ FrontWritten \/ BehindWritten
           \/ SyncMainWritten \/ SyncBackupWritten
  BY <1>1, <1>3, WrittenRefines
<1>4. CASE \/ RebuildFailed \/ SecondFailed \/ SecondCleaned \/ BackupFailed \/ MainFailed
           \/ TmpFailed \/ RescueFailed \/ FrontCleaned \/ FrontFailed \/ BehindFailed
           \/ BehindCleaned \/ SyncMainFailed \/ SyncBackupFailed
  BY <1>1, <1>4, EndedRefines
<1>5. CASE \/ RebuildStart \/ UpdateBegin \/ UpdateDone \/ MainBegin
           \/ CreateRemap \/ CreateEnd \/ CreateNoSpare \/ Detach
  BY <1>1, <1>5, QuietRefines
<1>6. CASE \E ecc \in UnreadableSets : AttachOne(ecc) \/ AttachUnequal(ecc) \/ AttachEqual(ecc)
  BY <1>1, <1>6, LoadRefines
<1>7. CASE \/ AttachNew \/ SignatureWritten \/ SignatureFails \/ NoSignatureBlock
           \/ \E ecc \in UnreadableSets : AttachNoTable(ecc)
  BY <1>1, <1>7, NewRefines
<1>8. CASE Leave \/ Crash \/ CutShort
  BY <1>1, <1>8, OffRefines
<1>9. CASE UNCHANGED vars
  <2>1. Stored' = Stored
    BY <1>9, SameChip DEF vars
  <2> QED
    BY <1>9, <2>1 DEF vars, tables, layout, fixed, control, Store!vars
<1>10. CASE BlockStep
  BY <1>1, <1>9, <1>10, BlockRefines
<1> QED
  BY <1>2, <1>3, <1>4, <1>5, <1>6, <1>7, <1>8, <1>9, <1>10
  DEF Next, TableStep, AttachStep, LoopStep, StaysOff

(* The information tables behave as one register that is saved in one      *)
(* step, whatever fails and wherever power is cut, until nmbm_map_block()  *)
(* passes over a bad block: nmbm_attach() never loads a mapping older than *)
(* the last one saved, and an operation of a writable device with two      *)
(* tables ends with the mapping saved.                                     *)
THEOREM TablesAreARegister == Spec => ImplementsStore
<1>1. Init => Store!Init
  <2> SUFFICES ASSUME Init PROVE Store!Init
    OBVIOUS
  <2>1. TInv /\ SInv /\ Chip
    BY InitTypeOK, InitSigned, InitLaidOut DEF Init, LInv
  <2>2. Tables = {}
    BY NoTable DEF Init, Tables
  <2>3. Stored = NoMap
    BY <2>1, <2>2, StoredNewest DEF Register
  <2> QED
    BY <2>3 DEF Init, Off, Store!Init, Store!Nothing, NoMap
<1>2. /\ TInv /\ SInv /\ LInv /\ CInv /\ FInv /\ UInv
      /\ (TInv /\ SInv /\ LInv /\ CInv /\ FInv /\ UInv)'
      /\ [Next]_vars
      => [~ skipped' => Store!Next]_(Store!vars)
  <2> SUFFICES ASSUME TInv /\ SInv /\ LInv /\ CInv /\ FInv /\ UInv,
                      (TInv /\ SInv /\ LInv /\ CInv /\ FInv /\ UInv)',
                      [Next]_vars, ~ skipped'
               PROVE  Store!Next \/ UNCHANGED Store!vars
    OBVIOUS
  <2>1. ~ skipped
    BY SkippedStays
  <2> QED
    BY <2>1, NextRefines DEF Sure
<1> QED
  BY <1>1, <1>2, SpecSaved, PTL DEF Spec, ImplementsStore
=============================================================================
