----------------------------- MODULE SnkmtProofs -----------------------------
(***************************************************************************)
(* Proofs that readers of snkmt.db never see a copy that is not complete,  *)
(* nor one that is older than what they had, that only commands that fail  *)
(* leave a snapshot on the remote host, and that the progress that is      *)
(* shown advances, for a database of any number of versions.               *)
(***************************************************************************)
EXTENDS SnkmtProperties, TLAPS

-----------------------------------------------------------------------------
(* Types.  The bound on files leaves room for those the task, and a loop   *)
(* that has begun, may still create.                                       *)

MayCreate(s) ==
    IF pc[s] \in {"check", "backup", "conn", "open"} \/ (s = "task" /\ pc[s] = "idle")
    THEN 1 ELSE 0

Copy == Version \X Version

Saved == [known : BOOLEAN, status : Status, counts : Version]

SyncTypes ==
    /\ up \in {"starting", "running", "over", "wiped"}
    /\ db \in Version /\ bak \in Version /\ stray \subseteq {"backup", "rm"}
    /\ pc \in [Syncer -> {"idle", "check", "recover", "backup", "conn", "open",
                          "read", "rename", "rm", "count", "gone"}]
    /\ outcome \in [Syncer -> {"fine", "raised", "cancelled"}]
    /\ held \in [Syncer -> Version]
    /\ reading \subseteq Syncer
    /\ status \in Status /\ known \in BOOLEAN
    /\ saved \in Saved
    /\ counts \in Version
    /\ overlapped \in BOOLEAN /\ left \in BOOLEAN

FileTypes ==
    /\ content \in Seq(Copy)
    /\ fd \in [Syncer -> 0..Len(content)]
    /\ tmp \in 0..Len(content) /\ target \in 0..Len(content)

FilesAreBounded == Len(content) + MayCreate("loop") + MayCreate("task") <= MaxFiles

TypeInv == SyncTypes /\ FileTypes /\ FilesAreBounded

LEMMA TypeInvIsEnough == TypeInv => TypeOK
<1>. SUFFICES ASSUME TypeInv PROVE TypeOK
    OBVIOUS
<1>1. MayCreate("loop") \in 0..1 /\ MayCreate("task") \in 0..1 /\ Len(content) \in Nat
    BY DEF MayCreate, TypeInv, FileTypes
<1>2. Len(content) <= MaxFiles
    BY <1>1, SnkmtAssumption DEF TypeInv, FilesAreBounded
<1>3. \A i \in DOMAIN content : content[i] \in Version \X Version
    BY DEF TypeInv, FileTypes, Copy
<1>. QED  BY <1>2, <1>3 DEF TypeInv, SyncTypes, FileTypes, TypeOK, Saved

LEMMA Versions ==
    /\ 0 \in Version /\ Version \subseteq Nat
    /\ db \in Version /\ db < MaxVersion => db + 1 \in Version
    BY SnkmtAssumption DEF Version

(* What a file holds, whichever half.                                      *)
LEMMA Halves ==
    ASSUME FileTypes, NEW i \in DOMAIN content
    PROVE  content[i][1] \in Version /\ content[i][2] \in Version
<1>1. content[i] \in Copy
    BY DEF FileTypes
<1>. QED  BY <1>1 DEF Copy

LEMMA Persisting ==
    ASSUME SyncTypes, NEW s, NEW number \in Version, Persists(s, number)
    PROVE  saved' \in Saved
    BY DEF SyncTypes, Persists, Saved

LEMMA Unlinking ==
    ASSUME SyncTypes, Unlinks
    PROVE  bak' \in Version /\ held' \in [Syncer -> Version] /\ reading' \subseteq Syncer
    BY Versions DEF SyncTypes, Unlinks

LEMMA Closing ==
    ASSUME SyncTypes, NEW s, Closes(s)
    PROVE  held' \in [Syncer -> Version] /\ reading' \subseteq Syncer
    BY Versions DEF SyncTypes, Closes

LEMMA Straying ==
    ASSUME SyncTypes, NEW commands, commands \subseteq {"backup", "rm"}, MayStray(commands)
    PROVE  stray' \subseteq {"backup", "rm"}
    BY DEF SyncTypes, MayStray

Pc == {"idle", "check", "recover", "backup", "conn", "open", "read", "rename", "rm",
       "count", "gone"}

LEMMA Cutting ==
    ASSUME SyncTypes, NEW loop \in Pc, CutsTask(loop)
    PROVE  /\ pc' \in [Syncer -> Pc]
           /\ outcome' \in [Syncer -> {"fine", "raised", "cancelled"}]
           /\ held' \in [Syncer -> Version] /\ reading' \subseteq Syncer
           /\ stray' \subseteq {"backup", "rm"} /\ left' \in BOOLEAN
<1>1. held' \in [Syncer -> Version] /\ reading' \subseteq Syncer
    BY Closing DEF CutsTask
<1>2. stray' \subseteq {"backup", "rm"}
    BY Straying DEF CutsTask
<1>3. pc' \in [Syncer -> Pc]
    BY DEF CutsTask, Cut, SyncTypes, Pc
<1>4. outcome' \in [Syncer -> {"fine", "raised", "cancelled"}]
    BY DEF CutsTask, SyncTypes
<1>5. left' \in BOOLEAN
    BY DEF CutsTask
<1>. QED  BY <1>1, <1>2, <1>3, <1>4, <1>5

LEMMA SyncTypeSteps == TypeInv /\ [Next]_vars => SyncTypes'
<1>. SUFFICES ASSUME TypeInv, [Next]_vars PROVE SyncTypes'
    OBVIOUS
<1>0. SyncTypes
    BY DEF TypeInv
<1>. USE <1>0, Versions
     DEF SyncTypes, At, After, remoteVars, syncVars, fileVars, recordVars, auxVars
<1>1. CASE SnakemakeWrites \/ SnakemakeMoves
    BY <1>1 DEF SnakemakeWrites, SnakemakeMoves
<1>2. CASE Cleanup
    BY <1>2, Unlinking DEF Cleanup
<1>3. CASE StrayRuns
  <2>1. bak' \in Version /\ held' \in [Syncer -> Version] /\ reading' \subseteq Syncer
    BY <1>3, Unlinking DEF StrayRuns
  <2>2. stray' \subseteq {"backup", "rm"} /\ left' \in BOOLEAN
    BY <1>3 DEF StrayRuns
  <2>. QED  BY <1>3, <2>1, <2>2 DEF StrayRuns
<1>4. ASSUME NEW s \in Syncer, Backup(s) PROVE SyncTypes'
  <2>1. saved' \in Saved
    BY <1>4, Persisting DEF Backup
  <2>2. stray' \subseteq {"backup", "rm"}
    BY <1>4, Straying DEF Backup
  <2>3. pc' \in [Syncer -> Pc] /\ left' \in BOOLEAN /\ bak' \in Version
    BY <1>4 DEF Backup, Pc
  <2>. QED  BY <1>4, <2>1, <2>2, <2>3 DEF Backup, Pc
<1>5. ASSUME NEW s \in Syncer, Connects(s) PROVE SyncTypes'
  <2>1. saved' \in Saved
    BY <1>5, Persisting DEF Connects
  <2>2. pc' \in [Syncer -> Pc] /\ left' \in BOOLEAN
    BY <1>5 DEF Connects, Pc
  <2>. QED  BY <1>5, <2>1, <2>2 DEF Connects, Pc
<1>6. ASSUME NEW s \in Syncer, Removes(s) \/ RmRaises(s) PROVE SyncTypes'
  <2>1. saved' \in Saved
    BY <1>6, Persisting DEF Removes, RmRaises, LeavesTry
  <2>2. stray' \subseteq {"backup", "rm"}
    BY <1>6, Straying DEF Removes, RmRaises
  <2>3. bak' \in Version /\ held' \in [Syncer -> Version] /\ reading' \subseteq Syncer
    BY <1>6, Unlinking DEF Removes, RmRaises
  <2>4. pc' \in [Syncer -> Pc] /\ left' \in BOOLEAN
    BY <1>6 DEF Removes, RmRaises, LeavesTry, Pc
  <2>. QED  BY <1>6, <2>1, <2>2, <2>3, <2>4 DEF Removes, RmRaises, Pc
<1>7. ASSUME NEW s \in Syncer, GetOpens(s) PROVE SyncTypes'
    BY <1>7 DEF GetOpens, Meets
<1>8. ASSUME NEW s \in Syncer, GetRaises(s) \/ GetReturns(s) PROVE SyncTypes'
  <2>1. held' \in [Syncer -> Version] /\ reading' \subseteq Syncer
    BY <1>8, Closing DEF GetRaises, GetReturns
  <2>2. pc' \in [Syncer -> Pc] /\ outcome' \in [Syncer -> {"fine", "raised", "cancelled"}]
    BY <1>8 DEF GetRaises, GetReturns, Pc
  <2>. QED  BY <1>8, <2>1, <2>2 DEF GetRaises, GetReturns, Pc
<1>9. ASSUME NEW s \in Syncer, Renames(s) PROVE SyncTypes'
    BY <1>9 DEF Renames
<1>10. ASSUME NEW s \in Syncer, Counts(s) PROVE SyncTypes'
  <2>1. counts' \in Version
    BY <1>10, Halves DEF Counts, Whole, TypeInv, FileTypes
  <2>2. saved' \in Saved
    BY <1>10, <2>1, Persisting DEF Counts
  <2>. QED  BY <1>10, <2>1, <2>2 DEF Counts
<1>11. CASE TaskMarks \/ TaskSkips \/ Cancel
  <2>1. status' \in Status /\ UNCHANGED <<counts, known>>
    BY <1>11 DEF TaskMarks, TaskSkips, Cancel, Status
  <2>3. saved' \in Saved
    <3>1. CASE TaskSkips
        <4>1. saved' = [known |-> TRUE, status |-> status, counts |-> counts]
            BY <3>1 DEF TaskSkips
        <4>. QED  BY <4>1 DEF Saved
    <3>2. CASE saved' = saved
        BY <3>2
    <3>. QED  BY <1>11, <3>1, <3>2 DEF TaskMarks, Cancel
  <2>2. pc' \in [Syncer -> Pc]
    BY <1>11 DEF TaskMarks, TaskSkips, Cancel, Pc
  <2>. QED  BY <1>11, <2>1, <2>2, <2>3 DEF TaskMarks, TaskSkips, Cancel, Pc
<1>12. CASE TaskCopies \/ LoopCopies
    BY <1>12 DEF TaskCopies, LoopCopies, Begins, Copying
<1>13. CASE Delete
  <2>1. pc["loop"] \in Pc /\ CutsTask(pc["loop"])
    BY <1>13 DEF Delete, Pc, Syncer
  <2>. QED  BY <1>13, <2>1, Cutting DEF Delete, Saved, Status, Pc
<1>14. CASE LoopRecovers
  <2>1. "idle" \in Pc /\ CutsTask("idle")
    BY <1>14 DEF LoopRecovers, Pc
  <2>. QED  BY <1>14, <2>1, Cutting DEF LoopRecovers, Saved, Status, Pc
<1>15. CASE LoopStarts \/ LoopFindsOver
    BY <1>15 DEF LoopStarts, LoopFindsOver
<1>16. CASE Restart
  <2>1. stray' \subseteq {"backup", "rm"}
    BY <1>16, Straying DEF Restart
  <2>2. status' \in Status /\ known' \in BOOLEAN /\ counts' \in Version /\ left' \in BOOLEAN
    BY <1>16 DEF Restart, Saved, Status
  <2>. QED  BY <1>16, <2>1, <2>2 DEF Restart
<1>17. CASE UNCHANGED vars
    BY <1>17 DEF vars
<1>. QED
    BY <1>1, <1>2, <1>3, <1>4, <1>5, <1>6, <1>7, <1>8, <1>9, <1>10, <1>11, <1>12,
       <1>13, <1>14, <1>15, <1>16, <1>17 DEF Next, Sync

LEMMA ReplaceTypes ==
    ASSUME NEW S, NEW q \in Seq(S), NEW i, NEW e, i \in DOMAIN q => e \in S
    PROVE  [q EXCEPT ![i] = e] \in Seq(S) /\ Len([q EXCEPT ![i] = e]) = Len(q)
<1>1. CASE i \in DOMAIN q
    BY <1>1
<1>2. CASE i \notin DOMAIN q
  <2>1. [q EXCEPT ![i] = e] = q
    BY <1>2
  <2>. QED  BY <2>1
<1>. QED  BY <1>1, <1>2

(* A step that creates no file needs no more room than before.             *)
NeedsNoMore == \A s \in Syncer : MayCreate(s)' <= MayCreate(s)

(* No file is changed, and those that are written are the same, or fewer.  *)
ClosesOnly ==
    /\ UNCHANGED fileVars
    /\ fd' \in [Syncer -> 0..Len(content)]

LEMMA FileTypeSteps == TypeInv /\ [Next]_vars => FileTypes' /\ FilesAreBounded'
<1>. SUFFICES ASSUME TypeInv, [Next]_vars PROVE FileTypes' /\ FilesAreBounded'
    OBVIOUS
<1>0. /\ Len(content) \in Nat /\ Len(content) + MayCreate("loop") + MayCreate("task") <= MaxFiles
      /\ MayCreate("loop") \in 0..1 /\ MayCreate("task") \in 0..1
      /\ MayCreate("loop")' \in 0..1 /\ MayCreate("task")' \in 0..1
      /\ FileTypes /\ SyncTypes
  <2>1. Len(content) \in Nat
    BY DEF TypeInv, FileTypes
  <2>2. \A s \in Syncer : MayCreate(s) \in 0..1 /\ MayCreate(s)' \in 0..1
    BY DEF MayCreate
  <2>. QED  BY <2>1, <2>2 DEF TypeInv, FilesAreBounded, Syncer
<1>. USE DEF Syncer, At, remoteVars, syncVars, fileVars, recordVars, auxVars, Closes, Unlinks
<1>1. ASSUME Len(content') = Len(content), NeedsNoMore PROVE FilesAreBounded'
    BY <1>0, <1>1, SnkmtAssumption DEF FilesAreBounded, NeedsNoMore
<1>2. ASSUME NEW s \in Syncer, Backup(s) \/ Connects(s) \/ GetRaises(s) \/ Removes(s)
                                \/ RmRaises(s) \/ Counts(s)
      PROVE  ClosesOnly /\ NeedsNoMore
  <2>1. ClosesOnly
    BY <1>0, <1>2 DEF Backup, Connects, GetRaises, Removes, RmRaises, Counts, ClosesOnly, FileTypes
  <2>2. \E to \in {"idle", "conn", "open", "rm", "count", "gone"} :
            /\ pc' = [pc EXCEPT ![s] = to] /\ (to = "idle" => s = "loop")
            /\ to \in {"conn", "open"} => pc[s] \in {"backup", "conn"}
    BY <1>0, <1>2 DEF Backup, Connects, GetRaises, Removes, RmRaises, Counts, LeavesTry, After, SyncTypes
  <2>. QED  BY <1>0, <2>1, <2>2 DEF NeedsNoMore, MayCreate, SyncTypes
<1>3. ASSUME NEW s \in Syncer, GetOpens(s) PROVE FileTypes' /\ FilesAreBounded'
  <2>1. <<bak, 0>> \in Copy
    BY <1>0, Versions DEF Copy, SyncTypes
  <2>2. MayCreate(s) = 1 /\ MayCreate(s)' = 0 /\ \A x \in Syncer \ {s} : MayCreate(x)' = MayCreate(x)
    BY <1>0, <1>3 DEF GetOpens, MayCreate, SyncTypes
  <2>3. CASE tmp = 0
    <3>1. content' = Append(content, <<bak, 0>>) /\ tmp' = Len(content) + 1
          /\ fd' = [fd EXCEPT ![s] = Len(content) + 1] /\ target' = target
        BY <1>3, <2>3 DEF GetOpens
    <3>2. content' \in Seq(Copy) /\ Len(content') = Len(content) + 1
        BY <1>0, <2>1, <3>1 DEF FileTypes
    <3>3. FileTypes'
        BY <1>0, <3>1, <3>2 DEF FileTypes
    <3>. QED  BY <1>0, <2>2, <3>2, <3>3, SnkmtAssumption DEF FilesAreBounded
  <2>4. CASE tmp # 0
    <3>1. content' = [content EXCEPT ![tmp] = <<bak, 0>>] /\ tmp' = tmp
          /\ fd' = [fd EXCEPT ![s] = tmp] /\ target' = target
        BY <1>3, <2>4 DEF GetOpens
    <3>2. content' \in Seq(Copy) /\ Len(content') = Len(content)
        BY <1>0, <2>1, <2>4, <3>1 DEF FileTypes
    <3>3. FileTypes'
        BY <1>0, <3>1, <3>2 DEF FileTypes
    <3>. QED  BY <1>0, <2>2, <3>2, <3>3, SnkmtAssumption DEF FilesAreBounded
  <2>. QED  BY <2>3, <2>4
<1>4. ASSUME NEW s \in Syncer, GetReturns(s) PROVE FileTypes' /\ FilesAreBounded'
  <2>. DEFINE half == IF s \in reading THEN bak ELSE held[s]
  <2>1. half \in Version
    BY <1>0 DEF SyncTypes
  <2>2. content' = [content EXCEPT ![fd[s]] = <<@[1], half>>] /\ UNCHANGED <<tmp, target>>
        /\ fd' \in [Syncer -> 0..Len(content)]
    BY <1>0, <1>4 DEF GetReturns, FileTypes
  <2>3. \A i \in DOMAIN content : <<content[i][1], half>> \in Copy
    BY <1>0, <2>1, Halves DEF Copy
  <2>4. content' \in Seq(Copy) /\ Len(content') = Len(content)
    <3>. DEFINE e == <<content[fd[s]][1], half>>
    <3>1. content' = [content EXCEPT ![fd[s]] = e]
        BY <2>2
    <3>2. fd[s] \in DOMAIN content => e \in Copy
        BY <2>3
    <3>. HIDE DEF e
    <3>. QED  BY <1>0, <3>1, <3>2, ReplaceTypes DEF FileTypes
  <2>5. NeedsNoMore
    BY <1>0, <1>4 DEF GetReturns, NeedsNoMore, MayCreate, SyncTypes
  <2>. QED  BY <1>0, <1>1, <2>2, <2>4, <2>5 DEF FileTypes
<1>5. ASSUME NEW s \in Syncer, Renames(s) PROVE FileTypes' /\ FilesAreBounded'
  <2>1. NeedsNoMore
    BY <1>0, <1>5 DEF Renames, NeedsNoMore, MayCreate, SyncTypes
  <2>. QED  BY <1>0, <1>1, <1>5, <2>1 DEF Renames, FileTypes
<1>6. CASE LoopStarts
  <2>1. MayCreate("task") <= (IF pc["task"] = "gone" THEN 0 ELSE 1)
        /\ MayCreate("loop")' = 1 /\ MayCreate("task")' = MayCreate("task")
    BY <1>0, <1>6 DEF LoopStarts, MayCreate, SyncTypes
  <2>. QED  BY <1>0, <1>6, <2>1, SnkmtAssumption DEF LoopStarts, FileTypes, FilesAreBounded
<1>7. CASE SnakemakeWrites \/ SnakemakeMoves \/ Cleanup \/ StrayRuns \/ TaskMarks \/ Cancel
           \/ UNCHANGED vars
  <2>1. UNCHANGED <<content, fd, tmp, target, pc>>
    BY <1>7 DEF SnakemakeWrites, SnakemakeMoves, Cleanup, StrayRuns, TaskMarks, Cancel, vars
  <2>. QED  BY <1>0, <1>1, <2>1 DEF FileTypes, NeedsNoMore, MayCreate
<1>8. CASE TaskCopies \/ TaskSkips \/ LoopCopies \/ LoopFindsOver
  <2>1. UNCHANGED <<content, fd, tmp, target>>
    BY <1>8 DEF TaskCopies, TaskSkips, LoopCopies, LoopFindsOver
  <2>2. NeedsNoMore
    BY <1>0, <1>8 DEF TaskCopies, TaskSkips, LoopCopies, LoopFindsOver, NeedsNoMore, MayCreate, SyncTypes
  <2>. QED  BY <1>0, <1>1, <2>1, <2>2 DEF FileTypes
<1>9. CASE Delete \/ LoopRecovers
  <2>1. \E loop \in {pc["loop"], "idle"} : CutsTask(loop)
    BY <1>9 DEF Delete, LoopRecovers
  <2>2. fd' \in [Syncer -> 0..Len(content)] /\ NeedsNoMore
    BY <1>0, <2>1 DEF CutsTask, Cut, NeedsNoMore, MayCreate, SyncTypes, FileTypes
  <2>3. content' = content /\ tmp' \in {0, tmp} /\ target' \in {0, target}
    BY <1>9 DEF Delete, LoopRecovers
  <2>. QED  BY <1>0, <1>1, <2>2, <2>3 DEF FileTypes
<1>10. CASE Restart
  <2>1. UNCHANGED <<content, tmp, target>> /\ fd' \in [Syncer -> 0..Len(content)] /\ NeedsNoMore
    BY <1>0, <1>10 DEF Restart, NeedsNoMore, MayCreate, SyncTypes
  <2>. QED  BY <1>0, <1>1, <2>1 DEF FileTypes
<1>11. ASSUME ClosesOnly, NeedsNoMore PROVE FileTypes' /\ FilesAreBounded'
    BY <1>0, <1>1, <1>11 DEF FileTypes, ClosesOnly
<1>. QED
    BY <1>2, <1>3, <1>4, <1>5, <1>6, <1>7, <1>8, <1>9, <1>10, <1>11 DEF Next, Sync

-----------------------------------------------------------------------------
(* Versions.  All that was ever copied, and the progress read from it, is  *)
(* bounded by the snapshot, if there is one, and that by the database.     *)

Bounded(v) ==
    /\ counts <= v /\ saved.counts <= v
    /\ \A s \in Syncer : held[s] <= v
    /\ \A i \in DOMAIN content : content[i][1] <= v /\ content[i][2] <= v

VersionInv ==
    /\ bak <= db /\ Bounded(db)
    /\ bak # 0 => Bounded(bak)

(* What a download still has to read.                                      *)
Source(s) == IF s \in reading THEN bak ELSE held[s]

LEMMA Numbers ==
    ASSUME TypeInv
    PROVE  /\ counts \in Nat /\ saved.counts \in Nat /\ bak \in Nat /\ db \in Nat
           /\ \A s \in Syncer : held[s] \in Nat
           /\ \A i \in DOMAIN content : content[i][1] \in Nat /\ content[i][2] \in Nat
           /\ Len(content) \in Nat /\ DOMAIN content = 1..Len(content)
<1>1. \A i \in DOMAIN content : content[i][1] \in Nat /\ content[i][2] \in Nat
    BY Halves, Versions DEF TypeInv
<1>2. Len(content) \in Nat /\ DOMAIN content = 1..Len(content)
    BY DEF TypeInv, FileTypes
<1>. QED  BY <1>1, <1>2, Versions DEF TypeInv, SyncTypes, Saved

LEMMA UnlinkingBounds ==
    ASSUME NEW v \in Nat, TypeInv, bak <= v, Bounded(v), Unlinks
    PROVE  \A s \in Syncer : held'[s] <= v
    BY Numbers DEF Unlinks, Bounded, TypeInv, SyncTypes

LEMMA ClosingBounds ==
    ASSUME NEW v \in Nat, TypeInv, Bounded(v), NEW x, Closes(x)
    PROVE  \A s \in Syncer : held'[s] <= v
    BY Numbers DEF Closes, Bounded, TypeInv, SyncTypes

(* A bound on the snapshot and on the copies bounds the next ones.         *)
LEMMA BoundedSteps ==
    ASSUME TypeInv, [Next]_vars, NEW v \in Nat, bak <= v, Bounded(v)
    PROVE  Bounded(v)'
<1>. USE Numbers DEF At, After, remoteVars, syncVars, fileVars, recordVars, auxVars
<1>1. ASSUME UNCHANGED <<counts, content>>, saved'.counts \in {saved.counts, counts, 0},
             \A s \in Syncer : held'[s] <= v
      PROVE  Bounded(v)'
    BY <1>1 DEF Bounded
<1>2. ASSUME held' = held PROVE \A s \in Syncer : held'[s] <= v
    BY <1>2 DEF Bounded
<1>3. CASE SnakemakeWrites \/ SnakemakeMoves
    BY <1>1, <1>2, <1>3 DEF SnakemakeWrites, SnakemakeMoves
<1>4. CASE Cleanup \/ StrayRuns
  <2>1. \A s \in Syncer : held'[s] <= v
    BY <1>4, <1>2, UnlinkingBounds DEF Cleanup, StrayRuns
  <2>. QED  BY <1>1, <1>4, <2>1 DEF Cleanup, StrayRuns
<1>5. ASSUME NEW s \in Syncer, Backup(s) \/ Connects(s) \/ Removes(s) \/ RmRaises(s)
      PROVE  Bounded(v)'
  <2>1. saved'.counts \in {saved.counts, counts} /\ UNCHANGED <<counts, content>>
    BY <1>5 DEF Backup, Connects, Removes, RmRaises, LeavesTry, Persists
  <2>2. \A x \in Syncer : held'[x] <= v
    BY <1>5, <1>2, UnlinkingBounds DEF Backup, Connects, Removes, RmRaises
  <2>. QED  BY <1>1, <2>1, <2>2
<1>6. ASSUME NEW s \in Syncer, GetOpens(s) PROVE Bounded(v)'
  <2>1. \A i \in DOMAIN content' : content'[i][1] <= v /\ content'[i][2] <= v
    BY <1>6 DEF GetOpens, Bounded, TypeInv, FileTypes
  <2>. QED  BY <1>6, <2>1 DEF GetOpens, Bounded
<1>7. ASSUME NEW s \in Syncer, GetRaises(s) PROVE Bounded(v)'
    BY <1>1, <1>7, ClosingBounds DEF GetRaises
<1>8. ASSUME NEW s \in Syncer, GetReturns(s) PROVE Bounded(v)'
  <2>1. Source(s) <= v
    BY DEF Bounded, Source
  <2>2. \A i \in DOMAIN content' : content'[i][1] <= v /\ content'[i][2] <= v
    BY <1>8, <2>1 DEF GetReturns, Source, Bounded, TypeInv, FileTypes
  <2>3. \A x \in Syncer : held'[x] <= v
    BY <1>8, ClosingBounds DEF GetReturns
  <2>. QED  BY <1>8, <2>2, <2>3 DEF GetReturns, Bounded
<1>9. ASSUME NEW s \in Syncer, Renames(s) PROVE Bounded(v)'
    BY <1>1, <1>2, <1>9 DEF Renames
<1>10. ASSUME NEW s \in Syncer, Counts(s) PROVE Bounded(v)'
  <2>1. counts' <= v
    BY <1>10 DEF Counts, Whole, Bounded, TypeInv, FileTypes
  <2>2. saved'.counts \in {saved.counts, counts'} /\ UNCHANGED <<held, content>>
    BY <1>10 DEF Counts, Persists
  <2>. QED  BY <2>1, <2>2 DEF Bounded
<1>11. CASE TaskMarks \/ TaskCopies \/ TaskSkips \/ Cancel
    BY <1>1, <1>2, <1>11 DEF TaskMarks, TaskCopies, TaskSkips, Cancel
<1>12. CASE Delete \/ LoopRecovers
  <2>1. UNCHANGED <<counts, content>> /\ saved'.counts \in {saved.counts, counts, 0} /\ Closes("task")
    BY <1>12 DEF Delete, LoopRecovers, CutsTask
  <2>. QED  BY <1>1, <2>1, ClosingBounds
<1>13. CASE LoopStarts \/ LoopCopies \/ LoopFindsOver
    BY <1>1, <1>2, <1>13 DEF LoopStarts, LoopCopies, LoopFindsOver
<1>14. CASE Restart
  <2>1. UNCHANGED <<saved, content>> /\ counts' = saved.counts /\ \A s \in Syncer : held'[s] = 0
    BY <1>14 DEF Restart
  <2>. QED  BY <2>1 DEF Bounded
<1>15. CASE UNCHANGED vars
    BY <1>15 DEF vars, Bounded
<1>. QED
    BY <1>3, <1>4, <1>5, <1>6, <1>7, <1>8, <1>9, <1>10, <1>11, <1>12, <1>13, <1>14, <1>15
       DEF Next, Sync

(* The database only grows, and a snapshot is made of all there is.        *)
LEMMA BakMoves ==
    ASSUME TypeInv, [Next]_vars
    PROVE  /\ bak' \in {0, bak, db} /\ db' \in Nat /\ db <= db'
           /\ bak' \in {0, bak} \/ (db' = db /\ bak' = db)
<1>. USE Numbers, Versions DEF TypeInv, SyncTypes, At, remoteVars, syncVars, fileVars, recordVars, auxVars, Unlinks
<1>1. CASE SnakemakeWrites \/ SnakemakeMoves \/ Cleanup \/ StrayRuns
    BY <1>1 DEF SnakemakeWrites, SnakemakeMoves, Cleanup, StrayRuns
<1>2. ASSUME NEW s \in Syncer, Backup(s) \/ Connects(s) \/ Removes(s) \/ RmRaises(s) \/ Counts(s)
      PROVE  db' = db /\ bak' \in {0, bak, db}
    BY <1>2 DEF Backup, Connects, Removes, RmRaises, Counts
<1>3. ASSUME NEW s \in Syncer, GetOpens(s) \/ GetRaises(s) \/ GetReturns(s) \/ Renames(s)
      PROVE  db' = db /\ bak' = bak
    BY <1>3 DEF GetOpens, GetRaises, GetReturns, Renames
<1>4. CASE TaskMarks \/ TaskCopies \/ TaskSkips \/ Cancel \/ Delete
    BY <1>4 DEF TaskMarks, TaskCopies, TaskSkips, Cancel, Delete
<1>5. CASE LoopStarts \/ LoopCopies \/ LoopFindsOver \/ LoopRecovers \/ Restart
    BY <1>5 DEF LoopStarts, LoopCopies, LoopFindsOver, LoopRecovers, Restart
<1>6. CASE UNCHANGED vars
    BY <1>6 DEF vars
<1>. QED  BY <1>1, <1>2, <1>3, <1>4, <1>5, <1>6 DEF Next, Sync

LEMMA VersionSteps == TypeInv /\ VersionInv /\ [Next]_vars => VersionInv'
<1>. SUFFICES ASSUME TypeInv, VersionInv, [Next]_vars PROVE VersionInv'
    OBVIOUS
<1>0. TypeInv'
    BY SyncTypeSteps, FileTypeSteps DEF TypeInv
<1>1. \A v \in Nat : bak <= v /\ Bounded(v) => Bounded(v)'
    BY BoundedSteps
<1>2. \A v, w \in Nat : v <= w /\ Bounded(v)' => Bounded(w)'
  <2>1. counts' \in Nat /\ saved'.counts \in Nat /\ (\A s \in Syncer : held'[s] \in Nat)
        /\ \A i \in DOMAIN content' : content'[i][1] \in Nat /\ content'[i][2] \in Nat
    <3>1. \A i \in DOMAIN content' : content'[i] \in Copy
        BY <1>0 DEF TypeInv, FileTypes
    <3>. QED  BY <1>0, <3>1, Versions DEF TypeInv, SyncTypes, Saved, Copy
  <2>. QED  BY <2>1 DEF Bounded
<1>3. Bounded(db)' /\ bak' <= db'
  <2>1. \A v \in Nat : v = db' /\ Bounded(v)' => Bounded(db)'
    BY DEF Bounded
  <2>2. \A v \in Nat : v = db => Bounded(v)'
    BY <1>1 DEF VersionInv, Bounded
  <2>. QED  BY <1>2, <2>1, <2>2, BakMoves, Numbers DEF VersionInv
<1>4. bak' # 0 => Bounded(bak)'
  <2>1. \A v \in Nat : v = bak' /\ Bounded(v)' => Bounded(bak)'
    BY DEF Bounded
  <2>2. \A v \in Nat : v = db \/ (bak # 0 /\ v = bak) => Bounded(v)'
    BY <1>1, Numbers DEF VersionInv, Bounded
  <2>. QED  BY <2>1, <2>2, BakMoves, Numbers
<1>. QED  BY <1>3, <1>4 DEF VersionInv

-----------------------------------------------------------------------------
(* Who copies.  While a visit of the loop is under way for a job that the  *)
(* task has finished, the workflow is over, so what the task copies is the *)
(* last there will be.                                                     *)

AloneInv ==
    /\ Copying("task") => status = "FINISHED"
    /\ status = "FINISHED" /\ pc["loop"] # "idle" /\ pc["task"] # "gone" => ~Works
    /\ pc["task"] \in {"conn", "open", "read", "rename"} /\ pc["loop"] # "idle" =>
           bak \in {0, db}

(* How an s that is copying goes on.                                       *)
LEMMA SyncMoves ==
    ASSUME TypeInv, NEW s \in Syncer, Sync(s)
    PROVE  /\ \A x \in Syncer : x # s => pc'[x] = pc[x]
           /\ pc[s] \in {"backup", "conn", "open", "read", "rename", "rm", "count"}
           /\ pc'[s] \in {"conn", "open", "read", "rename", "rm", "count", After(s)}
           /\ pc'[s] = "conn" => pc[s] = "backup" /\ bak' = db
           /\ pc'[s] = "open" => pc[s] = "conn"
           /\ pc'[s] = "read" => pc[s] = "open"
           /\ pc'[s] = "rename" => pc[s] = "read"
           /\ pc[s] \in {"open", "read", "rename"} => pc'[s] \in {"read", "rename", "rm"}
           /\ pc[s] = "rm" => pc'[s] \in {"count", After(s)}
           /\ pc[s] = "count" => pc'[s] = After(s)
           /\ UNCHANGED <<status, known, up, db>>
           /\ bak' \in {0, bak, db}
           /\ pc[s] # "backup" => bak' \in {0, bak}
<1>. USE DEF TypeInv, SyncTypes, At, After, remoteVars, syncVars, fileVars, recordVars, auxVars
<1>1. CASE Backup(s)
    BY <1>1 DEF Backup
<1>2. CASE Connects(s)
    BY <1>2 DEF Connects
<1>3. CASE GetOpens(s) \/ GetRaises(s) \/ GetReturns(s) \/ Renames(s)
    BY <1>3 DEF GetOpens, GetRaises, GetReturns, Renames
<1>4. CASE Removes(s) \/ RmRaises(s)
    BY <1>4 DEF Removes, RmRaises, LeavesTry, Unlinks
<1>5. CASE Counts(s)
    BY <1>5 DEF Counts
<1>. QED  BY <1>1, <1>2, <1>3, <1>4, <1>5 DEF Sync

LEMMA CutMoves ==
    ASSUME TypeInv, NEW loop \in Pc, CutsTask(loop)
    PROVE  /\ pc'["loop"] = loop
           /\ pc'["task"] \in Cut
    BY DEF CutsTask, TypeInv, SyncTypes, Syncer

LEMMA AloneSteps == TypeInv /\ AloneInv /\ [Next]_vars => AloneInv'
<1>. SUFFICES ASSUME TypeInv, AloneInv, [Next]_vars PROVE AloneInv'
    OBVIOUS
<1>. USE DEF AloneInv, Copying, Works, At, remoteVars, syncVars, fileVars, recordVars, auxVars
<1>0. SyncTypes
    BY DEF TypeInv
<1>1. CASE SnakemakeWrites \/ SnakemakeMoves
    BY <1>1 DEF SnakemakeWrites, SnakemakeMoves
<1>2. CASE Cleanup \/ StrayRuns
    BY <1>2 DEF Cleanup, StrayRuns, Unlinks
<1>3. ASSUME NEW s \in Syncer, Sync(s) PROVE AloneInv'
  <2>1. CASE s = "loop"
    BY <1>0, <1>3, <2>1, SyncMoves DEF After, Syncer
  <2>2. CASE s = "task"
    BY <1>0, <1>3, <2>2, SyncMoves DEF After, Syncer
  <2>. QED  BY <2>1, <2>2 DEF Syncer
<1>4. CASE TaskMarks \/ TaskCopies \/ TaskSkips \/ Cancel
    BY <1>0, <1>4 DEF TaskMarks, TaskCopies, TaskSkips, Cancel, SyncTypes, Syncer
<1>5. CASE Delete
  <2>1. pc'["loop"] = pc["loop"] /\ pc'["task"] \in Cut
    BY <1>0, <1>5, CutMoves DEF Delete, SyncTypes, Syncer, Pc
  <2>2. pc'["task"] \in {pc["task"], "rm", "gone"}
        /\ (pc'["task"] = "rm" => pc["task"] \in {"open", "read", "rename", "rm"})
    BY <1>0, <2>1 DEF Cut
  <2>3. UNCHANGED <<up, bak, db>> /\ (status = "FINISHED" <=> status' = "FINISHED")
    BY <1>5 DEF Delete
  <2>. QED  BY <1>0, <2>1, <2>2, <2>3
<1>6. CASE LoopRecovers
  <2>1. pc'["loop"] = "idle" /\ pc'["task"] \in Cut
    BY <1>0, <1>6, CutMoves DEF LoopRecovers, Pc
  <2>. QED  BY <1>0, <1>6, <2>1 DEF LoopRecovers, Cut
<1>7. CASE LoopStarts \/ LoopCopies \/ LoopFindsOver
    BY <1>0, <1>7 DEF LoopStarts, LoopCopies, LoopFindsOver, SyncTypes, Syncer
<1>8. CASE Restart
    BY <1>0, <1>8 DEF Restart, Syncer
<1>9. CASE UNCHANGED vars
    BY <1>9 DEF vars
<1>. QED  BY <1>1, <1>2, <1>3, <1>4, <1>5, <1>6, <1>7, <1>8, <1>9 DEF Next

-----------------------------------------------------------------------------
(* Files.  A file that is renamed is not older than what readers have or   *)
(* were shown.  When both coroutines are at work, a file that one of them  *)
(* has given to readers while the other still writes it begins with the    *)
(* last version, and no other file is made.                                *)

Shown(v) == counts <= v /\ saved.counts <= v

Halts(s) ==
    IF s = "task" THEN pc[s] \in {"rm", "count", "gone"} ELSE pc[s] \in {"rm", "count", "idle"}

FileInv ==
    /\ \A s \in Syncer : pc[s] = "read" => fd[s] # 0
    /\ tmp # 0 => tmp # target
    /\ tmp # 0 /\ (\E s \in Syncer : pc[s] \in {"read", "rename"}) =>
           /\ Shown(content[tmp][1])
           /\ target # 0 => content[target][1] <= content[tmp][1] /\ content[target][2] <= content[tmp][1]
    /\ tmp # 0 /\ (\A s \in Syncer : pc[s] \in {"read", "rename"}) => content[tmp][1] = db
    /\ \A s \in Syncer : pc[s] = "read" /\ fd[s] = target =>
           /\ tmp = 0 /\ content[target][1] = db /\ ~Works
           /\ \A x \in Syncer : x # s => Halts(x)
           /\ s = "task" => status = "FINISHED"
    /\ target # 0 /\ Whole(target) => Shown(content[target][1])

(* A step that writes no file, opens none and takes no name away.          *)
LEMMA FileKeeps ==
    ASSUME TypeInv, FileInv, UNCHANGED fileVars, db' = db, Works' => Works,
           \A s \in Syncer : pc'[s] \in {"read", "rename"} => pc'[s] = pc[s] /\ fd'[s] = fd[s],
           \A s \in Syncer : Halts(s) => Halts(s)' \/ (s = "loop" /\ status = "RUNNING"),
           pc'["task"] = "read" /\ status = "FINISHED" => status' = "FINISHED",
           \/ counts' = counts /\ saved'.counts \in {saved.counts, counts, 0}
           \/ counts' = saved.counts /\ saved' = saved /\ \A s \in Syncer : pc'[s] \notin {"read", "rename"}
    PROVE  FileInv'
<1>. USE DEF fileVars, Syncer
<1>1. \A v \in Nat : Shown(v) => Shown(v)'
    BY Numbers DEF Shown
<1>2. \A i \in DOMAIN content : content[i][1] \in Nat /\ content[i][2] \in Nat
    BY Numbers
<1>3. tmp # 0 => tmp \in DOMAIN content
    BY DEF TypeInv, FileTypes
<1>4. target # 0 => target \in DOMAIN content
    BY DEF TypeInv, FileTypes
<1>5. \A i \in DOMAIN content : Shown(content[i][1]) => (Shown(content[i][1]))'
    BY <1>1, <1>2 DEF Shown
<1>. QED  BY <1>3, <1>4, <1>5 DEF FileInv, Whole

LEMMA FileSteps == TypeInv /\ VersionInv /\ AloneInv /\ FileInv /\ [Next]_vars => FileInv'
<1>. SUFFICES ASSUME TypeInv, VersionInv, AloneInv, FileInv, [Next]_vars PROVE FileInv'
    OBVIOUS
<1>. USE DEF At, remoteVars, syncVars, recordVars, auxVars
<1>0. SyncTypes /\ FileTypes
    BY DEF TypeInv
<1>1. CASE SnakemakeWrites
  <2>1. Works /\ UNCHANGED <<up, syncVars, fileVars, recordVars>>
    BY <1>1 DEF SnakemakeWrites, Works
  <2>2. ~\A s \in Syncer : pc[s] \in {"read", "rename"}
    BY <2>1 DEF AloneInv, Copying, Syncer
  <2>. QED  BY <2>1, <2>2 DEF FileInv, Shown, Whole, Halts, Works, fileVars
<1>2. CASE SnakemakeMoves \/ Cleanup \/ StrayRuns \/ TaskMarks \/ Cancel
  <2>1. /\ UNCHANGED <<fileVars, pc, fd, counts, saved, db>> /\ (Works' => Works)
        /\ status = "FINISHED" => status' = "FINISHED"
    BY <1>2 DEF SnakemakeMoves, Cleanup, StrayRuns, TaskMarks, Cancel, Works
  <2>. QED  BY <2>1, FileKeeps DEF Halts
<1>3. ASSUME NEW s \in Syncer,
             Backup(s) \/ Connects(s) \/ GetRaises(s) \/ Removes(s) \/ RmRaises(s)
      PROVE  FileInv'
  <2>1. UNCHANGED <<fileVars, counts, up, db, status>> /\ saved'.counts \in {saved.counts, counts}
    BY <1>3 DEF Backup, Connects, GetRaises, Removes, RmRaises, LeavesTry, Persists
  <2>2. (\A x \in Syncer : x # s => pc'[x] = pc[x]) /\ pc'[s] \notin {"read", "rename"}
        /\ (Halts(s) => Halts(s)') /\ \A x \in Syncer : x # s => fd'[x] = fd[x]
    BY <1>0, <1>3 DEF Backup, Connects, GetRaises, Removes, RmRaises, LeavesTry, After, Halts, SyncTypes, FileTypes, Closes, Syncer
  <2>. QED  BY <2>1, <2>2, FileKeeps DEF Halts, Works
<1>4. ASSUME NEW s \in Syncer, GetOpens(s) PROVE FileInv'
  <2>. DEFINE file == IF tmp = 0 THEN Len(content) + 1 ELSE tmp
  <2>1. /\ file # 0 /\ file # target /\ file \in Nat
        /\ tmp' = file /\ fd' = [fd EXCEPT ![s] = file] /\ content'[file] = <<bak, 0>>
        /\ \A i \in 1..Len(content) : i # file => content'[i] = content[i]
    BY <1>0, <1>4, Numbers DEF GetOpens, FileTypes, FileInv
  <2>2. /\ pc' = [pc EXCEPT ![s] = "read"] /\ pc[s] = "open" /\ bak # 0
        /\ UNCHANGED <<up, db, bak, target, counts, saved, status>>
    BY <1>4 DEF GetOpens
  <2>3. target # 0 => target \in 1..Len(content) /\ content'[target] = content[target]
    BY <1>0, <2>1, Numbers DEF FileTypes
  <2>. HIDE DEF file
  <2>4. Shown(bak) /\ \A i \in DOMAIN content : content[i][1] <= bak /\ content[i][2] <= bak
    BY <2>2 DEF VersionInv, Bounded, Shown
  <2>5. (\A x \in Syncer : pc'[x] \in {"read", "rename"}) => bak = db
    BY <1>0, <2>2 DEF AloneInv, SyncTypes, Syncer
  <2>6. \A x \in Syncer : x # s => ~(pc[x] = "read" /\ fd[x] = target)
    BY <2>2 DEF FileInv, Halts
  <2>7. target # 0 => content'[target][1] <= bak /\ content'[target][2] <= bak
                      /\ (Whole(target)' => Shown(content[target][1]))
    BY <2>2, <2>3, <2>4, Numbers DEF FileInv, Whole
  <2>. QED  BY <1>0, <2>1, <2>2, <2>3, <2>4, <2>5, <2>6, <2>7 DEF FileInv, Shown, Whole, SyncTypes, FileTypes
<1>5. ASSUME NEW s \in Syncer, GetReturns(s) PROVE FileInv'
  <2>1. pc[s] = "read" /\ pc' = [pc EXCEPT ![s] = "rename"] /\ fd[s] # 0
        /\ (\A x \in Syncer : x # s => fd'[x] = fd[x])
        /\ UNCHANGED <<up, db, tmp, target, counts, saved, status>>
    BY <1>0, <1>5 DEF GetReturns, FileInv, Closes, Syncer, FileTypes
  <2>2. /\ \A i \in 1..Len(content) : content'[i][1] = content[i][1]
        /\ \A i \in 1..Len(content) : i # fd[s] => content'[i] = content[i]
    BY <1>0, <1>5 DEF GetReturns, FileTypes
  <2>3. (tmp # 0 => tmp \in 1..Len(content)) /\ (target # 0 => target \in 1..Len(content))
    BY <1>0, Numbers DEF FileTypes
  <2>4. CASE fd[s] = target
    <3>1. tmp = 0 /\ content[target][1] = db /\ \A x \in Syncer : x # s => pc[x] # "read"
        BY <2>1, <2>4 DEF FileInv, Halts
    <3>2. Shown(db)
        BY DEF VersionInv, Bounded, Shown
    <3>3. target # 0 => Shown(content'[target][1])
        BY <2>2, <2>3, <3>1, <3>2
    <3>. QED  BY <1>0, <2>1, <2>3, <3>1, <3>3 DEF FileInv, Shown, SyncTypes
  <2>5. CASE fd[s] # target
    <3>1. target # 0 => content'[target] = content[target]
        BY <2>2, <2>3, <2>5
    <3>2. tmp # 0 => content'[tmp][1] = content[tmp][1]
        BY <2>2, <2>3
    <3>. QED  BY <1>0, <2>1, <3>1, <3>2 DEF FileInv, Shown, Whole, Halts, Works, SyncTypes
  <2>. QED  BY <2>4, <2>5
<1>6. ASSUME NEW s \in Syncer, Renames(s) PROVE FileInv'
  <2>1. pc[s] = "rename" /\ pc' = [pc EXCEPT ![s] = "rm"]
        /\ UNCHANGED <<up, db, fd, content, counts, saved, status>>
    BY <1>6 DEF Renames
  <2>2. CASE tmp = 0
    <3>1. UNCHANGED <<tmp, target>>
        BY <1>6, <2>2 DEF Renames
    <3>. QED  BY <1>0, <2>1, <2>2, <3>1 DEF FileInv, Shown, Whole, Halts, Works, SyncTypes
  <2>3. CASE tmp # 0
    <3>1. target' = tmp /\ tmp' = 0
        BY <1>6, <2>3 DEF Renames
    <3>2. \A x \in Syncer : pc'[x] = "read" =>
             /\ content[tmp][1] = db /\ ~Works /\ x # s
             /\ x = "task" => status = "FINISHED"
        BY <1>0, <2>1, <2>3 DEF FileInv, AloneInv, Copying, SyncTypes, Syncer
    <3>3. \A x, y \in Syncer : pc'[x] = "read" /\ y # x => y = s /\ Halts(y)'
        BY <1>0, <2>1 DEF Halts, SyncTypes, Syncer
    <3>4. Shown(content[tmp][1])
        BY <2>1, <2>3 DEF FileInv
    <3>. QED  BY <1>0, <2>1, <3>1, <3>2, <3>3, <3>4 DEF FileInv, Shown, Works, SyncTypes
  <2>. QED  BY <2>2, <2>3
<1>7. ASSUME NEW s \in Syncer, Counts(s) PROVE FileInv'
  <2>1. pc[s] = "count" /\ pc' = [pc EXCEPT ![s] = After(s)]
        /\ UNCHANGED <<up, db, fd, content, tmp, target, status>>
        /\ saved'.counts \in {saved.counts, counts'}
    BY <1>7 DEF Counts, Persists, fileVars
  <2>2. counts' = counts \/ (target # 0 /\ counts' \in {content[target][1], content[target][2]})
    BY <1>7 DEF Counts
  <2>3. ~\A x \in Syncer : pc'[x] \in {"read", "rename"}
    BY <1>0, <2>1 DEF After, SyncTypes
  <2>4. tmp # 0 /\ (\E x \in Syncer : pc'[x] \in {"read", "rename"}) => Shown(content[tmp][1])'
    BY <1>0, <2>1, <2>2 DEF FileInv, After, Shown, SyncTypes
  <2>5. target # 0 /\ Whole(target) => Shown(content[target][1])'
    <3>1. target # 0 => content[target][1] \in Nat
        BY <1>0, Numbers DEF FileTypes
    <3>. QED  BY <1>7, <2>1, <2>2, <3>1 DEF FileInv, Shown, Whole
  <2>6. \A x \in Syncer : pc'[x] = "read" => pc[x] = "read"
    BY <1>0, <2>1 DEF After, SyncTypes
  <2>7. \A x \in Syncer : Halts(x) => Halts(x)'
    BY <1>0, <2>1 DEF Halts, After, SyncTypes, Syncer
  <2>8. \A x \in Syncer : pc'[x] \in {"read", "rename"} => pc[x] \in {"read", "rename"}
    BY <1>0, <2>1 DEF After, SyncTypes
  <2>. QED  BY <2>1, <2>3, <2>4, <2>5, <2>6, <2>7, <2>8 DEF FileInv, Whole, Works
<1>8. CASE Delete
  <2>1. pc'["loop"] = pc["loop"] /\ pc'["task"] \in Cut
    BY <1>0, <1>8, CutMoves DEF Delete, SyncTypes, Syncer, Pc
  <2>2. pc'["task"] # "read" /\ tmp' = 0 /\ target' = 0 /\ fd'["loop"] = fd["loop"]
    BY <1>0, <1>8, <2>1 DEF Delete, CutsTask, Closes, Cut, FileTypes, Syncer
  <2>. QED  BY <2>1, <2>2 DEF FileInv, Syncer
<1>9. CASE LoopRecovers
  <2>1. pc'["loop"] = "idle" /\ pc'["task"] \in Cut
    BY <1>0, <1>9, CutMoves DEF LoopRecovers, Pc
  <2>2. UNCHANGED <<fileVars, counts, up, db>> /\ saved'.counts = counts
        /\ pc["loop"] = "recover"
    BY <1>9 DEF LoopRecovers
  <2>3. pc'["task"] \notin {"read", "rename"} /\ (Halts("task") => Halts("task")')
    BY <1>0, <2>1 DEF Cut, Halts
  <2>. QED  BY <2>1, <2>2, <2>3, FileKeeps DEF Halts, Works, Syncer
<1>10. CASE TaskCopies \/ TaskSkips \/ LoopStarts \/ LoopCopies \/ LoopFindsOver
  <2>1. UNCHANGED <<fileVars, counts, up, db, status, fd>> /\ saved'.counts \in {saved.counts, counts}
    BY <1>10 DEF TaskCopies, TaskSkips, LoopStarts, LoopCopies, LoopFindsOver
  <2>2. (\A s \in Syncer : pc'[s] \in {"read", "rename"} => pc'[s] = pc[s])
        /\ \A s \in Syncer : Halts(s) => Halts(s)' \/ (s = "loop" /\ status = "RUNNING")
    BY <1>0, <1>10 DEF TaskCopies, TaskSkips, LoopStarts, LoopCopies, LoopFindsOver, Halts, SyncTypes, Syncer
  <2>. QED  BY <2>1, <2>2, FileKeeps DEF Works
<1>11. CASE Restart
  <2>1. UNCHANGED <<fileVars, saved, up, db>> /\ counts' = saved.counts
        /\ pc'["loop"] = "idle" /\ pc'["task"] = "gone"
    BY <1>11 DEF Restart, Syncer
  <2>. QED  BY <2>1, FileKeeps DEF Halts, Works, Syncer
<1>12. CASE UNCHANGED vars
  <2>1. UNCHANGED <<fileVars, pc, fd, counts, saved, up, db, status>>
    BY <1>12 DEF vars
  <2>. QED  BY <2>1, FileKeeps DEF Halts, Works
<1>. QED
    BY <1>1, <1>2, <1>3, <1>4, <1>5, <1>6, <1>7, <1>8, <1>9, <1>10, <1>11, <1>12 DEF Next, Sync

-----------------------------------------------------------------------------
(* The download.  Unless it meets another copy, one coroutine is at work,  *)
(* no backup is left to run, and the snapshot it reads is the one it found *)
(* when it began, in a file that readers do not have.                      *)

Downloading(s) ==
    /\ pc[s] = "read" =>
          /\ fd[s] # 0 /\ fd[s] # target /\ tmp \in {0, fd[s]}
          /\ content[fd[s]][1] = Source(s) /\ "backup" \notin stray
    /\ pc[s] = "rename" /\ tmp # 0 => Whole(tmp)

WholeInv ==
    ~overlapped =>
        /\ ~(Copying("loop") /\ Copying("task"))
        /\ target # 0 => Whole(target)
        /\ \A s \in Syncer : Downloading(s)

LEMMA SourceKept ==
    ASSUME TypeInv, Unlinks
    PROVE  \A s \in Syncer : Source(s)' = Source(s)
    BY DEF Unlinks, Source, TypeInv, SyncTypes

(* A step that writes no file, and does not change what is read.           *)
LEMMA WholeKeeps ==
    ASSUME TypeInv, WholeInv, UNCHANGED fileVars, ~overlapped' => ~overlapped,
           ~overlapped' => ~(Copying("loop") /\ Copying("task"))',
           \A s \in Syncer : pc'[s] \in {"read", "rename"} => pc'[s] = pc[s] /\ fd'[s] = fd[s],
           \A s \in Syncer : ~overlapped' /\ pc'[s] = "read" =>
               Source(s)' = Source(s) /\ ("backup" \in stray' => "backup" \in stray)
    PROVE  WholeInv'
    BY DEF WholeInv, Downloading, Whole, fileVars

LEMMA WholeSteps == TypeInv /\ FileInv /\ WholeInv /\ [Next]_vars => WholeInv'
<1>. SUFFICES ASSUME TypeInv, FileInv, WholeInv, [Next]_vars PROVE WholeInv'
    OBVIOUS
<1>. USE DEF At, remoteVars, syncVars, recordVars, auxVars
<1>0. SyncTypes /\ FileTypes
    BY DEF TypeInv
<1>1. CASE SnakemakeWrites \/ SnakemakeMoves \/ TaskMarks \/ Cancel \/ UNCHANGED vars
  <2>1. UNCHANGED <<fileVars, overlapped, pc, fd, reading, held, bak, stray>>
    BY <1>1 DEF SnakemakeWrites, SnakemakeMoves, TaskMarks, Cancel, vars
  <2>. QED  BY <2>1, WholeKeeps DEF WholeInv, Copying, Source
<1>2. CASE Cleanup
  <2>1. UNCHANGED <<fileVars, overlapped, pc, fd, stray>> /\ Unlinks
    BY <1>2 DEF Cleanup
  <2>. QED  BY <2>1, SourceKept, WholeKeeps DEF WholeInv, Copying
<1>3. CASE StrayRuns
  <2>1. UNCHANGED <<fileVars, overlapped, pc, fd>> /\ stray' \subseteq stray
    BY <1>3 DEF StrayRuns
  <2>2. Unlinks \/ ("backup" \in stray /\ UNCHANGED <<held, reading>>)
    BY <1>3 DEF StrayRuns
  <2>3. \A s \in Syncer : ~overlapped /\ pc[s] = "read" => Source(s)' = Source(s)
    BY <2>2, SourceKept DEF WholeInv, Downloading
  <2>. QED  BY <2>1, <2>3, WholeKeeps DEF WholeInv, Copying
<1>4. ASSUME NEW s \in Syncer, Backup(s) \/ Connects(s) \/ Removes(s) \/ RmRaises(s) \/ Counts(s)
                             \/ GetRaises(s)
      PROVE  WholeInv'
  <2>1. UNCHANGED <<fileVars, overlapped>> /\ \A x \in Syncer : x # s => pc'[x] = pc[x] /\ fd'[x] = fd[x]
    BY <1>0, <1>4 DEF Backup, Connects, Removes, RmRaises, Counts, GetRaises, LeavesTry, Closes, SyncTypes, FileTypes, fileVars
  <2>2. Copying(s) /\ pc'[s] \notin {"read", "rename"}
    BY <1>0, <1>4 DEF Backup, Connects, Removes, RmRaises, Counts, GetRaises, LeavesTry, After, Copying, SyncTypes
  <2>3. ~overlapped => \A x \in Syncer : x # s => ~Copying(x)
    BY <2>2 DEF WholeInv, Syncer
  <2>4. ~overlapped => \A x \in Syncer : pc'[x] # "read" /\ (x # s => ~Copying(x)')
    BY <2>1, <2>2, <2>3 DEF Copying
  <2>. QED  BY <2>1, <2>2, <2>4, WholeKeeps DEF Syncer
<1>5. ASSUME NEW s \in Syncer, GetOpens(s) PROVE WholeInv'
  <2>. DEFINE file == IF tmp = 0 THEN Len(content) + 1 ELSE tmp
  <2>1. /\ file # 0 /\ file # target /\ tmp' = file /\ fd'[s] = file /\ content'[file] = <<bak, 0>>
        /\ \A i \in 1..Len(content) : i # file => content'[i] = content[i]
    BY <1>0, <1>5, Numbers DEF GetOpens, FileTypes, FileInv
  <2>2. pc' = [pc EXCEPT ![s] = "read"] /\ pc[s] = "open" /\ s \in reading'
        /\ UNCHANGED <<target, bak, stray>>
    BY <1>0, <1>5 DEF GetOpens
  <2>3. ~overlapped' => ~overlapped /\ "backup" \notin stray
    BY <1>5 DEF GetOpens, Meets
  <2>. HIDE DEF file
  <2>4. ~overlapped => \A x \in Syncer : x # s => ~Copying(x)
    BY <2>2 DEF WholeInv, Copying, Syncer
  <2>5. \A x \in Syncer : x # s => pc'[x] = pc[x]
    BY <1>0, <2>2 DEF SyncTypes
  <2>6. target # 0 => content'[target] = content[target]
    BY <1>0, <2>1, Numbers DEF FileTypes
  <2>7. ~overlapped' => Downloading(s)'
    BY <1>0, <2>1, <2>2, <2>3 DEF Downloading, Source, SyncTypes
  <2>8. ~overlapped' => \A x \in Syncer : x # s => Downloading(x)' /\ ~Copying(x)'
    BY <2>3, <2>4, <2>5 DEF Downloading, Copying
  <2>. QED  BY <2>2, <2>3, <2>6, <2>7, <2>8 DEF WholeInv, Whole, Syncer
<1>6. ASSUME NEW s \in Syncer, GetReturns(s) PROVE WholeInv'
  <2>1. pc[s] = "read" /\ pc' = [pc EXCEPT ![s] = "rename"]
        /\ UNCHANGED <<tmp, target, overlapped>>
    BY <1>6 DEF GetReturns
  <2>2. ~overlapped => fd[s] # 0 /\ fd[s] # target /\ tmp \in {0, fd[s]}
                       /\ content[fd[s]][1] = Source(s)
    BY <2>1 DEF WholeInv, Downloading
  <2>3. /\ ~overlapped => content'[fd[s]][1] = Source(s) /\ content'[fd[s]][2] = Source(s)
        /\ \A i \in 1..Len(content) : i # fd[s] => content'[i] = content[i]
    BY <1>0, <1>6, <2>2 DEF GetReturns, Source, FileTypes
  <2>4. ~overlapped => \A x \in Syncer : x # s => ~Copying(x) /\ pc'[x] = pc[x]
    BY <1>0, <2>1 DEF WholeInv, Copying, SyncTypes, Syncer
  <2>5. ~overlapped /\ target # 0 => content'[target] = content[target]
    BY <1>0, <2>2, <2>3, Numbers DEF FileTypes
  <2>6. ~overlapped => Downloading(s)'
    BY <1>0, <2>1, <2>2, <2>3 DEF Downloading, Whole, SyncTypes
  <2>7. ~overlapped => \A x \in Syncer : x # s => Downloading(x)' /\ ~Copying(x)'
    BY <2>4 DEF Downloading, Copying
  <2>. QED  BY <2>1, <2>5, <2>6, <2>7 DEF WholeInv, Whole, Syncer
<1>7. ASSUME NEW s \in Syncer, Renames(s) PROVE WholeInv'
  <2>1. pc[s] = "rename" /\ pc' = [pc EXCEPT ![s] = "rm"]
        /\ UNCHANGED <<content, overlapped>>
    BY <1>7 DEF Renames
  <2>2. ~overlapped => (tmp # 0 => Whole(tmp)) /\ \A x \in Syncer : x # s => ~Copying(x) /\ pc'[x] = pc[x]
    BY <1>0, <2>1 DEF WholeInv, Downloading, Copying, SyncTypes, Syncer
  <2>3. target' \in {target, tmp} /\ (target' # target => target' = tmp /\ tmp # 0)
    BY <1>7 DEF Renames
  <2>4. ~overlapped => (target' # 0 => Whole(target)')
    BY <2>1, <2>2, <2>3 DEF WholeInv, Whole
  <2>5. ~overlapped => \A x \in Syncer : Downloading(x)' /\ (x # s => ~Copying(x)')
    BY <1>0, <2>1, <2>2 DEF Downloading, Copying, SyncTypes
  <2>. QED  BY <2>1, <2>4, <2>5 DEF WholeInv, Syncer
<1>8. CASE Delete
  <2>1. pc'["loop"] = pc["loop"] /\ pc'["task"] \in Cut
    BY <1>0, <1>8, CutMoves DEF Delete, SyncTypes, Syncer, Pc
  <2>2. pc'["task"] \notin {"read", "rename"} /\ (Copying("task")' => Copying("task"))
    BY <1>0, <2>1 DEF Cut, Copying
  <2>3. tmp' = 0 /\ target' = 0 /\ fd'["loop"] = fd["loop"] /\ held'["loop"] = held["loop"]
        /\ ("loop" \in reading' <=> "loop" \in reading) /\ UNCHANGED <<bak, content, overlapped>>
        /\ ("backup" \in stray' => "backup" \in stray \/ pc["task"] = "backup")
    BY <1>0, <1>8 DEF Delete, CutsTask, Closes, MayStray, SyncTypes, FileTypes, Syncer
  <2>4. ~overlapped => Downloading("loop")'
    BY <2>1, <2>3 DEF WholeInv, Downloading, Source, Copying, Syncer
  <2>. QED  BY <2>1, <2>2, <2>3, <2>4 DEF WholeInv, Downloading, Copying, Syncer
<1>9. CASE LoopRecovers
  <2>1. pc'["loop"] = "idle" /\ pc'["task"] \in Cut
    BY <1>0, <1>9, CutMoves DEF LoopRecovers, Pc
  <2>2. pc'["task"] \notin {"read", "rename"}
    BY <1>0, <2>1 DEF Cut
  <2>3. UNCHANGED <<fileVars, overlapped>>
    BY <1>9 DEF LoopRecovers
  <2>. QED  BY <2>1, <2>2, <2>3, WholeKeeps DEF Copying, Syncer
<1>10. CASE TaskCopies \/ LoopCopies \/ TaskSkips \/ LoopStarts \/ LoopFindsOver
  <2>1. UNCHANGED <<fileVars, fd, reading, held, bak, stray>>
        /\ \A s \in Syncer : pc'[s] \in {"read", "rename"} => pc'[s] = pc[s]
    BY <1>0, <1>10 DEF TaskCopies, LoopCopies, TaskSkips, LoopStarts, LoopFindsOver, SyncTypes
  <2>2. (~overlapped' => ~overlapped) /\ (~overlapped' => ~(Copying("loop") /\ Copying("task"))')
    BY <1>0, <1>10 DEF TaskCopies, LoopCopies, TaskSkips, LoopStarts, LoopFindsOver, Begins, WholeInv, Copying, SyncTypes, Syncer
  <2>. QED  BY <2>1, <2>2, WholeKeeps DEF Source
<1>11. CASE Restart
  <2>1. pc'["loop"] = "idle" /\ pc'["task"] = "gone" /\ UNCHANGED <<fileVars, overlapped>>
    BY <1>11 DEF Restart, Syncer
  <2>. QED  BY <2>1, WholeKeeps DEF Copying, Syncer
<1>. QED
    BY <1>1, <1>2, <1>3, <1>4, <1>5, <1>6, <1>7, <1>8, <1>9, <1>10, <1>11 DEF Next, Sync

-----------------------------------------------------------------------------
(* The snapshot.  That it has a coroutine to remove it, unless a command   *)
(* left it, is inductive as it stands.                                     *)

LEMMA BakSteps == TypeInv /\ BakIsRemoved /\ [Next]_vars => BakIsRemoved'
<1>. SUFFICES ASSUME TypeInv, BakIsRemoved, [Next]_vars PROVE BakIsRemoved'
    OBVIOUS
<1>. USE DEF At, remoteVars, syncVars, recordVars, auxVars, BakIsRemoved, WillRemove, Unlinks
<1>0. SyncTypes
    BY DEF TypeInv
<1>1. CASE SnakemakeWrites \/ SnakemakeMoves \/ Cleanup \/ StrayRuns \/ TaskMarks \/ Cancel
           \/ UNCHANGED vars
    BY <1>0, <1>1 DEF SnakemakeWrites, SnakemakeMoves, Cleanup, StrayRuns, TaskMarks, Cancel, vars
<1>2. ASSUME NEW s \in Syncer, Backup(s) PROVE BakIsRemoved'
  <2>1. CASE bak' # 0 /\ ~left' /\ pc'[s] # "conn"
    <3>1. bak' = bak /\ ~left /\ pc[s] = "backup" /\ \A x \in Syncer : x # s => pc'[x] = pc[x]
        BY <1>0, <1>2, <2>1 DEF Backup, SyncTypes
    <3>. QED  BY <2>1, <3>1
  <2>. QED  BY <2>1
<1>3. ASSUME NEW s \in Syncer, Connects(s) PROVE BakIsRemoved'
    BY <1>0, <1>3 DEF Connects, SyncTypes
<1>4. ASSUME NEW s \in Syncer, GetOpens(s) \/ GetRaises(s) \/ GetReturns(s) \/ Renames(s)
      PROVE  BakIsRemoved'
    BY <1>0, <1>4 DEF GetOpens, GetRaises, GetReturns, Renames, SyncTypes
<1>5. ASSUME NEW s \in Syncer, Removes(s) \/ RmRaises(s) PROVE BakIsRemoved'
    BY <1>5 DEF Removes, RmRaises
<1>6. ASSUME NEW s \in Syncer, Counts(s) PROVE BakIsRemoved'
    BY <1>0, <1>6 DEF Counts, SyncTypes
<1>7. CASE TaskCopies \/ TaskSkips \/ LoopStarts \/ LoopCopies \/ LoopFindsOver
    BY <1>0, <1>7 DEF TaskCopies, TaskSkips, LoopStarts, LoopCopies, LoopFindsOver, SyncTypes
<1>8. ASSUME NEW loop \in Pc, CutsTask(loop), bak' = bak,
             pc["loop"] \in {"conn", "open", "read", "rename", "rm"} => loop = pc["loop"]
      PROVE  BakIsRemoved'
  <2>1. pc'["loop"] = loop /\ pc'["task"] \in Cut
    BY <1>8, CutMoves
  <2>2. left' = (left \/ (pc["task"] \in {"conn", "rm"} /\ pc'["task"] = "gone" /\ bak # 0))
    BY <1>8 DEF CutsTask
  <2>3. pc["task"] \in {"open", "read", "rename"} => pc'["task"] = "rm"
    BY <2>1 DEF Cut
  <2>4. pc["task"] \in {"conn", "rm"} => pc'["task"] \in {"rm", "gone"}
    BY <2>1 DEF Cut
  <2>. QED  BY <1>8, <2>1, <2>2, <2>3, <2>4 DEF Syncer
<1>9. CASE Delete
    BY <1>0, <1>8, <1>9 DEF Delete, SyncTypes, Syncer, Pc
<1>10. CASE LoopRecovers
    BY <1>0, <1>8, <1>10 DEF LoopRecovers, Pc
<1>11. CASE Restart
    BY <1>11 DEF Restart
<1>. QED
    BY <1>1, <1>2, <1>3, <1>4, <1>5, <1>6, <1>7, <1>9, <1>10, <1>11 DEF Next, Sync

-----------------------------------------------------------------------------

SnkmtInv ==
    TypeInv /\ VersionInv /\ AloneInv /\ FileInv /\ WholeInv /\ BakIsRemoved

LEMMA SnkmtStart == Init => SnkmtInv
<1>. SUFFICES ASSUME Init PROVE SnkmtInv
    OBVIOUS
<1>1. TypeInv
  <2>1. SyncTypes
    BY Versions DEF Init, SyncTypes, Syncer, Saved, Status
  <2>2. FileTypes /\ Len(content) = 0
    BY DEF Init, FileTypes, Syncer
  <2>3. MayCreate("loop") = 0 /\ MayCreate("task") = 1
    BY DEF Init, MayCreate, Syncer
  <2>. QED  BY <2>1, <2>2, <2>3, SnkmtAssumption DEF TypeInv, FilesAreBounded
<1>2. VersionInv /\ AloneInv /\ FileInv
    BY DEF Init, VersionInv, Bounded, AloneInv, FileInv, Copying, Syncer
<1>3. WholeInv /\ BakIsRemoved
    BY DEF Init, WholeInv, Copying, Downloading, BakIsRemoved, Syncer
<1>. QED  BY <1>1, <1>2, <1>3 DEF SnkmtInv

LEMMA SnkmtInductive == Spec => []SnkmtInv
<1>1. SnkmtInv /\ [Next]_vars => SnkmtInv'
    BY SyncTypeSteps, FileTypeSteps, VersionSteps, AloneSteps, FileSteps, WholeSteps, BakSteps
       DEF SnkmtInv, TypeInv
<1>. QED  BY SnkmtStart, <1>1, PTL DEF Spec

(* The files, the counts and the syncers have their types, and downloads   *)
(* stay within the bound on files.                                         *)
THEOREM TypeCorrect == Spec => []TypeOK
<1>1. SnkmtInv => TypeOK
    BY TypeInvIsEnough DEF SnkmtInv
<1>. QED  BY SnkmtInductive, <1>1, PTL

(* Which steps change what readers have.                                   *)
LEMMA TargetMoves ==
    ASSUME TypeInv, FileInv, [Next]_vars, target # 0, target' # 0
    PROVE  content[target][1] <= content'[target'][1]
<1>. USE DEF remoteVars, syncVars, fileVars, recordVars, auxVars
<1>0. FileTypes /\ target \in 1..Len(content) /\ content[target][1] \in Nat
    BY Numbers DEF TypeInv, FileTypes
<1>1. CASE UNCHANGED <<target, content>>
    BY <1>0, <1>1
<1>2. ASSUME NEW s \in Syncer, GetOpens(s) PROVE content[target][1] <= content'[target'][1]
    BY <1>0, <1>2 DEF GetOpens, FileInv, FileTypes
<1>3. ASSUME NEW s \in Syncer, GetReturns(s) PROVE content[target][1] <= content'[target'][1]
    BY <1>0, <1>3 DEF GetReturns, FileTypes
<1>4. ASSUME NEW s \in Syncer, Renames(s) PROVE content[target][1] <= content'[target'][1]
    BY <1>0, <1>4 DEF Renames, FileInv, At
<1>5. \A s \in Syncer :
          Backup(s) \/ Connects(s) \/ GetRaises(s) \/ Removes(s) \/ RmRaises(s) \/ Counts(s)
              => UNCHANGED <<target, content>>
    BY DEF Backup, Connects, GetRaises, Removes, RmRaises, Counts
<1>6. SnakemakeWrites \/ SnakemakeMoves \/ Cleanup \/ StrayRuns \/ TaskMarks \/ TaskCopies
        \/ TaskSkips \/ Cancel => UNCHANGED <<target, content>>
    BY DEF SnakemakeWrites, SnakemakeMoves, Cleanup, StrayRuns, TaskMarks, TaskCopies, TaskSkips, Cancel
<1>7. LoopStarts \/ LoopCopies \/ LoopFindsOver \/ LoopRecovers \/ Restart \/ UNCHANGED vars
        => UNCHANGED <<target, content>>
    BY DEF LoopStarts, LoopCopies, LoopFindsOver, LoopRecovers, Restart, vars
<1>8. ~Delete
    BY DEF Delete
<1>. QED  BY <1>1, <1>2, <1>3, <1>4, <1>5, <1>6, <1>7, <1>8 DEF Next, Sync

(* Readers of snkmt.db are never given an older copy than before, and a    *)
(* complete one, after any number of crashes, failures, cancellations and  *)
(* copies, as long as no download meets another copy of the job.           *)
THEOREM ReadersGoOn == Spec => ReadersAdvance
<1>1. SnkmtInv /\ SnkmtInv' /\ [Next]_vars =>
         [target' # 0 =>
             /\ ~overlapped' => Whole(target)'
             /\ target # 0 => content[target][1] <= content'[target'][1]]_vars
    BY TargetMoves DEF SnkmtInv, WholeInv
<1>. QED  BY SnkmtInductive, <1>1, PTL DEF Spec, ReadersAdvance

(* A snapshot has a coroutine that is to remove it, whatever copies        *)
(* overlap, fail, or are cancelled, unless a command that failed, or that  *)
(* nobody waits for, has left it.                                          *)
THEOREM BakRemoved == Spec => []BakIsRemoved
<1>1. SnkmtInv => BakIsRemoved
    BY DEF SnkmtInv
<1>. QED  BY SnkmtInductive, <1>1, PTL

LEMMA CountSteps ==
    ASSUME TypeInv, FileInv, WholeInv, [Next]_vars
    PROVE  Restart \/ counts' >= counts \/ (overlapped /\ ~Whole(target))
<1>. USE Numbers DEF remoteVars, syncVars, fileVars, recordVars, auxVars
<1>1. CASE UNCHANGED counts
    BY <1>1
<1>2. ASSUME NEW s \in Syncer, Counts(s)
      PROVE  counts' >= counts \/ (overlapped /\ ~Whole(target))
    BY <1>2 DEF Counts, FileInv, WholeInv, Whole, Shown, TypeInv, FileTypes
<1>3. \A s \in Syncer :
          Backup(s) \/ Connects(s) \/ GetOpens(s) \/ GetRaises(s) \/ GetReturns(s) \/ Renames(s)
            \/ Removes(s) \/ RmRaises(s) => UNCHANGED counts
    BY DEF Backup, Connects, GetOpens, GetRaises, GetReturns, Renames, Removes, RmRaises
<1>4. SnakemakeWrites \/ SnakemakeMoves \/ Cleanup \/ StrayRuns \/ TaskMarks \/ TaskCopies
        \/ TaskSkips \/ Cancel \/ Delete => UNCHANGED counts
    BY DEF SnakemakeWrites, SnakemakeMoves, Cleanup, StrayRuns, TaskMarks, TaskCopies, TaskSkips, Cancel, Delete
<1>5. LoopStarts \/ LoopCopies \/ LoopFindsOver \/ LoopRecovers \/ UNCHANGED vars
        => UNCHANGED counts
    BY DEF LoopStarts, LoopCopies, LoopFindsOver, LoopRecovers, vars
<1>. QED  BY <1>1, <1>2, <1>3, <1>4, <1>5 DEF Next, Sync

(* The progress shown does not go back but at a restart, or when it is     *)
(* read from a torn copy: also when the last copies of the loop and of the *)
(* task overlap, or fail.                                                  *)
THEOREM ProgressAdvances == Spec => CountsAdvance
<1>1. SnkmtInv /\ [Next]_vars =>
         [Restart \/ counts' >= counts \/ (overlapped /\ ~Whole(target))]_vars
    BY CountSteps DEF SnkmtInv
<1>. QED  BY SnkmtInductive, <1>1, PTL DEF Spec, CountsAdvance

=============================================================================
