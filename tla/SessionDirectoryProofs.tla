------------------------ MODULE SessionDirectoryProofs ------------------------
(***************************************************************************)
(* Whatever is removed, by however many processes, and wherever they are   *)
(* interrupted: a directory that still holds a journal or a descriptor is  *)
(* marked; and a stop that reports success has left nothing behind and has *)
(* handed over what the journal took.  Proved for any number of runtimes,  *)
(* stops, days and faults.                                                 *)
(*                                                                         *)
(* Neither is inductive.  That deleting the marker comes last needs what   *)
(* each step of a removal has already taken out (Emptied); that nothing is *)
(* put back behind it needs that a directory in the making is nobody's     *)
(* target (Targets, Fresh) and that a record is only appended to a journal *)
(* that is there, or to one deleted under its writer (Writing).  What a    *)
(* stop hands over is the second half.                                     *)
(***************************************************************************)
EXTENDS SessionDirectory, TLAPS

Kept == {None} \cup SUBSET {"handoff", "end"}

RuntimeStages ==
  {"none", "refused", "pruning", "marking", "journaling", "publishing", "abandoning", "serving",
   "ending", "closing", "broken", "removing", "closed", "crashed"}

StopStages == {"idle", "recovering", "asking", "waiting", "marking", "removing", "over"}

RemovalStages ==
  {"idle", "look", "authorise", "recover", "list", "others", "journal", "marker", "root", "done",
   "failed"}

Results == {None, "stopped", "unreadable", "refused", "handed", "killed"}

DiskType ==
  /\ files \in [Sessions -> SUBSET Entries]
  /\ journal \in [Sessions -> SUBSET {"handoff", "end"}]
  /\ activeAt \in [Sessions -> Nat] /\ day \in Nat
  /\ undercut \subseteq Sessions

RuntimeType ==
  runtime \in [Sessions -> [pc : RuntimeStages, listening : BOOLEAN, appending : {None, "handoff", "end"},
                            handoff : Kept, stale : SUBSET Sessions, published : BOOLEAN]]

StopType ==
  stop \in [Stops -> [pc : StopStages, target : Sessions \cup {None}, recovered : Kept, answer : Kept,
                      result : Results]]

RemovalType ==
  removal \in [Sessions \cup Stops -> [pc : RemovalStages, target : Sessions \cup {None},
                                       listed : BOOLEAN, handoff : Kept]]

DirectoryType == DiskType /\ RuntimeType /\ StopType /\ RemovalType

Unmade == {"none", "pruning"}
Making == {"marking", "journaling", "publishing"}

\* Its directory has been made, or will never be.
Begun(s) == runtime[s].pc \notin Unmade \cup Making

Writing ==
  \A s \in Sessions :
    /\ runtime[s].appending # None => Alive(s) /\ (s \in undercut \/ "journal" \in files[s])
    /\ runtime[s].pc = "closing" => runtime[s].appending \in {None, "end"}

Fresh ==
  \A s \in Sessions :
    /\ runtime[s].pc \in Unmade => files[s] = {}
    /\ runtime[s].pc \in Making => activeAt[s] = day
    /\ runtime[s].pc = "journaling" => "marker" \in files[s]

RemovalsAim ==
  \A p \in Sessions \cup Stops :
    removal[p].pc # "idle" => removal[p].target \in Sessions /\ Begun(removal[p].target)

RuntimesAim ==
  \A s \in Sessions :
    /\ removal[s].pc # "idle" => runtime[s].pc \in {"pruning", "abandoning", "removing"}
    /\ \A t \in runtime[s].stale : Begun(t)
    /\ runtime[s].published => Begun(s)

StopsAim ==
  \A c \in Stops :
    stop[c].pc \notin {"idle", "over"} => stop[c].target \in Sessions /\ runtime[stop[c].target].published

Targets == RemovalsAim /\ RuntimesAim /\ StopsAim

Emptied ==
  \A p \in Sessions \cup Stops :
    LET s == removal[p].target
    IN  /\ removal[p].pc = "others" /\ ~removal[p].listed => "descriptor" \notin files[s]
        /\ removal[p].pc \in {"journal", "marker", "root"} => "descriptor" \notin files[s]
        /\ removal[p].pc \in {"marker", "root"} => s \in undercut \/ "journal" \notin files[s]

DirectoryInvariant ==
  DirectoryType /\ Writing /\ Fresh /\ Targets /\ Emptied /\ MarkedWhileItMatters
-----------------------------------------------------------------------------
(***************************************************************************)
(* The records keep their types whatever stage a step moves them to.       *)
(***************************************************************************)
LEMMA BeginTyped ==
  ASSUME RemovalType, NEW p \in Sessions \cup Stops, NEW pc \in RemovalStages,
         NEW t \in Sessions \cup {None}, Begin(p, pc, t)
  PROVE  RemovalType'
<1>1. [NoRemoval EXCEPT !.pc = pc, !.target = t]
        \in [pc : RemovalStages, target : Sessions \cup {None}, listed : BOOLEAN, handoff : Kept]
  BY DEF NoRemoval, Kept
<1> QED BY <1>1 DEF RemovalType, Begin

LEMMA EndedTyped ==
  ASSUME RemovalType, NEW p \in Sessions \cup Stops, removal' = [removal EXCEPT ![p] = NoRemoval]
  PROVE  RemovalType'
<1>1. NoRemoval \in [pc : RemovalStages, target : Sessions \cup {None}, listed : BOOLEAN, handoff : Kept]
  BY DEF NoRemoval, Kept, RemovalStages
<1> QED BY <1>1 DEF RemovalType

LEMMA GoesTyped ==
  ASSUME RuntimeType, NEW s \in Sessions, NEW pc \in RuntimeStages, Goes(s, pc)
  PROVE  RuntimeType'
BY DEF RuntimeType, Goes

LEMMA StageNames ==
  /\ \A n \in {"idle", "look", "authorise", "recover", "list", "others", "journal", "marker", "root",
              "done", "failed"} : n \in RemovalStages
  /\ \A n \in {"refused", "pruning", "marking", "journaling", "publishing", "abandoning", "serving",
              "ending", "closing", "broken", "removing", "closed", "crashed"} : n \in RuntimeStages
  /\ \A n \in {"recovering", "asking", "waiting", "marking", "removing", "over"} : n \in StopStages
  /\ \A n \in {None, "stopped", "unreadable", "refused", "handed", "killed"} : n \in Results
  /\ None \in Kept
BY DEF RemovalStages, RuntimeStages, StopStages, Results, Kept

LEMMA PublishTyped ==
  ASSUME RuntimeType, NEW s \in Sessions,
         runtime' = [runtime EXCEPT ![s].pc = "serving", ![s].listening = TRUE, ![s].published = TRUE]
  PROVE  RuntimeType'
<1>1. "serving" \in RuntimeStages
  BY DEF RuntimeStages
<1> QED BY <1>1, ZenonT(60) DEF RuntimeType

LEMMA KillTyped ==
  ASSUME RuntimeType, NEW s \in Sessions,
         runtime' = [runtime EXCEPT ![s].pc = "crashed", ![s].listening = FALSE, ![s].appending = None]
  PROVE  RuntimeType'
<1>1. "crashed" \in RuntimeStages
  BY DEF RuntimeStages
<1> QED BY <1>1, ZenonT(60) DEF RuntimeType

LEMMA BreaksTells ==
  ASSUME NEW s \in Sessions, RuntimeType, StopType, Breaks(s)
  PROVE  /\ RuntimeType' /\ StopType'
         /\ \A c \in Stops : stop'[c].target = stop[c].target /\ stop'[c].pc \in {stop[c].pc, "over"}
<1>1. RuntimeType'
  <2> "broken" \in RuntimeStages
    BY DEF RuntimeStages
  <2> QED BY GoesTyped DEF Breaks
<1>2. stop' = [c \in Stops |-> IF stop[c].pc = "waiting" /\ stop[c].target = s
                               THEN [stop[c] EXCEPT !.pc = "over", !.result = "refused"] ELSE stop[c]]
  BY DEF Breaks
<1>3. "over" \in StopStages /\ "refused" \in Results
  BY DEF StopStages, Results
<1>4. StopType'
  BY <1>2, <1>3 DEF StopType
<1>5. \A c \in Stops : stop'[c].target = stop[c].target /\ stop'[c].pc \in {stop[c].pc, "over"}
  BY <1>2 DEF StopType
<1> QED BY <1>1, <1>4, <1>5

LEMMA TerminateGoes ==
  ASSUME NEW s \in Sessions, DirectoryType, Terminate(s)
  PROVE  /\ RuntimeType' /\ StopType' /\ RemovalType'
         /\ \A t \in Sessions : t # s => runtime'[t] = runtime[t]
         /\ runtime[s].pc = "closing"
         /\ runtime'[s].appending = runtime[s].appending /\ runtime'[s].stale = runtime[s].stale
         /\ (runtime'[s].published <=> runtime[s].published)
         /\ \/ runtime'[s].pc = "broken" /\ UNCHANGED removal
            \/ runtime'[s].pc = "removing" /\ Begin(s, "look", s)
         /\ \A c \in Stops : stop'[c].target = stop[c].target /\ stop'[c].pc \in {stop[c].pc, "over"}
<1> USE DEF DirectoryType
<1> DEFINE handoff == IF runtime[s].handoff # None THEN runtime[s].handoff ELSE Recovered(s)
<1>1. handoff \in Kept
  BY DEF RuntimeType, DiskType, Recovered, Kept
<1>2. CASE handoff = None
  <2>1. Breaks(s) /\ UNCHANGED removal /\ runtime[s].pc = "closing"
    BY <1>2 DEF Terminate, At
  <2>2. runtime' = [runtime EXCEPT ![s].pc = "broken"]
    BY <2>1 DEF Breaks, Goes
  <2> QED BY <2>1, <2>2, BreaksTells DEF RuntimeType, RemovalType
<1>3. CASE handoff # None
  <2>1. /\ runtime' = [runtime EXCEPT ![s].pc = "removing", ![s].handoff = handoff,
                                       ![s].listening = FALSE]
        /\ Begin(s, "look", s) /\ UNCHANGED stop /\ runtime[s].pc = "closing"
    BY <1>3 DEF Terminate, At
  <2>2. "removing" \in RuntimeStages /\ "look" \in RemovalStages
    BY DEF RuntimeStages, RemovalStages
  <2> HIDE DEF handoff
  <2>3. RuntimeType'
    BY <1>1, <2>1, <2>2, ZenonT(60) DEF RuntimeType
  <2>4. RemovalType'
    BY <2>1, <2>2, BeginTyped
  <2> QED BY <2>1, <2>3, <2>4 DEF RuntimeType, StopType
<1> QED BY <1>2, <1>3

-----------------------------------------------------------------------------
(***************************************************************************)
(* Every step keeps every part of the invariant, one step at a time:       *)
(* first of a removal, then of a runtime, then of a stop.                  *)
(***************************************************************************)
LEMMA LookKeeps ==
  ASSUME NEW p \in Sessions \cup Stops, DirectoryInvariant, Look(p), UNCHANGED <<day, runtime, stop>>
  PROVE  DirectoryInvariant'
<1> USE DEF DirectoryInvariant, DirectoryType, Targets
<1>1. DiskType'
  BY ProcessesAssumption DEF DiskType, Look, Advance, Removing, disk
<1>2. RuntimeType'
  BY ProcessesAssumption, StageNames DEF RuntimeType, Look, Advance, Removing, disk
<1>3. StopType'
  BY ProcessesAssumption, StageNames DEF StopType, Look, Advance, Removing, disk
<1>4. RemovalType'
  BY ProcessesAssumption, StageNames DEF RemovalType, Look, Advance, Removing, disk
<1>5. Writing'
  BY ProcessesAssumption, <1>1, <1>2, <1>3, <1>4 DEF Writing, Alive, RuntimeType, DiskType, Look,
       Advance, Removing, disk
<1>6. Fresh'
  BY ProcessesAssumption, <1>1, <1>2, <1>3, <1>4 DEF Fresh, Unmade, Making, RuntimeType, DiskType,
       Look, Advance, Removing, disk
<1>7. RemovalsAim'
  BY ProcessesAssumption, <1>1, <1>2, <1>3, <1>4 DEF RemovalsAim, Begun, Unmade, Making,
       RuntimeType, RemovalType, Look, Advance, Removing, disk
<1>8. RuntimesAim'
  BY ProcessesAssumption, <1>1, <1>2, <1>3, <1>4 DEF RuntimesAim, Begun, Unmade, Making,
       RuntimeType, RemovalType, Look, Advance, Removing, disk
<1>9. StopsAim'
  BY ProcessesAssumption, <1>1, <1>2, <1>3, <1>4 DEF StopsAim, RuntimeType, StopType, Look,
       Advance, Removing, disk
<1>10. Emptied'
  BY ProcessesAssumption, <1>1, <1>2, <1>3, <1>4 DEF Emptied, RemovalType, DiskType, Look, Advance,
       Removing, disk
<1>11. MarkedWhileItMatters'
  BY ProcessesAssumption, <1>1, <1>2, <1>3, <1>4 DEF MarkedWhileItMatters, DiskType, Look, Advance,
       Removing, disk
<1> QED BY <1>1, <1>2, <1>3, <1>4, <1>5, <1>6, <1>7, <1>8, <1>9, <1>10, <1>11

LEMMA AuthoriseKeeps ==
  ASSUME NEW p \in Sessions \cup Stops, DirectoryInvariant, Authorise(p), UNCHANGED <<day, runtime, stop>>
  PROVE  DirectoryInvariant'
<1> USE DEF DirectoryInvariant, DirectoryType, Targets
<1>1. DiskType'
  BY ProcessesAssumption DEF DiskType, Authorise, Advance, Removing, disk
<1>2. RuntimeType'
  BY ProcessesAssumption, StageNames DEF RuntimeType, Authorise, Advance, Removing, disk
<1>3. StopType'
  BY ProcessesAssumption, StageNames DEF StopType, Authorise, Advance, Removing, disk
<1>4. RemovalType'
  BY ProcessesAssumption, StageNames DEF RemovalType, Authorise, Advance, Removing, disk
<1>5. Writing'
  BY ProcessesAssumption, <1>1, <1>2, <1>3, <1>4 DEF Writing, Alive, RuntimeType, DiskType,
       Authorise, Advance, Removing, disk
<1>6. Fresh'
  BY ProcessesAssumption, <1>1, <1>2, <1>3, <1>4 DEF Fresh, Unmade, Making, RuntimeType, DiskType,
       Authorise, Advance, Removing, disk
<1>7. RemovalsAim'
  BY ProcessesAssumption, <1>1, <1>2, <1>3, <1>4 DEF RemovalsAim, Begun, Unmade, Making,
       RuntimeType, RemovalType, Authorise, Advance, Removing, disk
<1>8. RuntimesAim'
  BY ProcessesAssumption, <1>1, <1>2, <1>3, <1>4 DEF RuntimesAim, Begun, Unmade, Making,
       RuntimeType, RemovalType, Authorise, Advance, Removing, disk
<1>9. StopsAim'
  BY ProcessesAssumption, <1>1, <1>2, <1>3, <1>4 DEF StopsAim, RuntimeType, StopType, Authorise,
       Advance, Removing, disk
<1>10. Emptied'
  BY ProcessesAssumption, <1>1, <1>2, <1>3, <1>4 DEF Emptied, RemovalType, DiskType, Authorise,
       Advance, Removing, disk
<1>11. MarkedWhileItMatters'
  BY ProcessesAssumption, <1>1, <1>2, <1>3, <1>4 DEF MarkedWhileItMatters, DiskType, Authorise,
       Advance, Removing, disk
<1> QED BY <1>1, <1>2, <1>3, <1>4, <1>5, <1>6, <1>7, <1>8, <1>9, <1>10, <1>11

LEMMA RecoverKeeps ==
  ASSUME NEW p \in Sessions \cup Stops, DirectoryInvariant, Recover(p), UNCHANGED <<day, runtime, stop>>
  PROVE  DirectoryInvariant'
<1> USE DEF DirectoryInvariant, DirectoryType, Targets
<1>1. DiskType'
  BY ProcessesAssumption DEF DiskType, Recover, Recovered, Removing, disk
<1>2. RuntimeType'
  BY ProcessesAssumption, StageNames DEF RuntimeType, Recover, Recovered, Removing, disk
<1>3. StopType'
  BY ProcessesAssumption, StageNames DEF StopType, Recover, Recovered, Removing, disk
<1>4. RemovalType'
  BY ProcessesAssumption, StageNames DEF RemovalType, Recover, Recovered, Removing, disk
<1>5. Writing'
  BY ProcessesAssumption, <1>1, <1>2, <1>3, <1>4 DEF Writing, Alive, RuntimeType, DiskType,
       Recover, Recovered, Removing, disk
<1>6. Fresh'
  BY ProcessesAssumption, <1>1, <1>2, <1>3, <1>4 DEF Fresh, Unmade, Making, RuntimeType, DiskType,
       Recover, Recovered, Removing, disk
<1>7. RemovalsAim'
  BY ProcessesAssumption, <1>1, <1>2, <1>3, <1>4 DEF RemovalsAim, Begun, Unmade, Making,
       RuntimeType, RemovalType, Recover, Recovered, Removing, disk
<1>8. RuntimesAim'
  BY ProcessesAssumption, <1>1, <1>2, <1>3, <1>4 DEF RuntimesAim, Begun, Unmade, Making,
       RuntimeType, RemovalType, Recover, Recovered, Removing, disk
<1>9. StopsAim'
  BY ProcessesAssumption, <1>1, <1>2, <1>3, <1>4 DEF StopsAim, RuntimeType, StopType, Recover,
       Recovered, Removing, disk
<1>10. Emptied'
  BY ProcessesAssumption, <1>1, <1>2, <1>3, <1>4 DEF Emptied, RemovalType, DiskType, Recover,
       Recovered, Removing, disk
<1>11. MarkedWhileItMatters'
  BY ProcessesAssumption, <1>1, <1>2, <1>3, <1>4 DEF MarkedWhileItMatters, DiskType, Recover,
       Recovered, Removing, disk
<1> QED BY <1>1, <1>2, <1>3, <1>4, <1>5, <1>6, <1>7, <1>8, <1>9, <1>10, <1>11

LEMMA ListKeeps ==
  ASSUME NEW p \in Sessions \cup Stops, DirectoryInvariant, List(p), UNCHANGED <<day, runtime, stop>>
  PROVE  DirectoryInvariant'
<1> USE DEF DirectoryInvariant, DirectoryType, Targets
<1>a. /\ \A q \in Sessions \cup Stops : q # p => removal'[q] = removal[q]
      /\ removal'[p].target = removal[p].target
      /\ removal[p].pc = "list" /\ removal'[p].pc \in {"others", "done"}
      /\ ("descriptor" \in files[removal[p].target] => removal'[p].listed)
  BY DEF List, Removing, RemovalType
<1>b. UNCHANGED <<disk, day, runtime, stop>>
  BY DEF List
<1>c. \A t \in Sessions : runtime[t].stale \subseteq Sessions
  BY DEF RuntimeType
<1>1. DiskType'
  BY ProcessesAssumption DEF DiskType, List, Removing, disk
<1>2. RuntimeType'
  BY ProcessesAssumption, StageNames DEF RuntimeType, List, Removing, disk
<1>3. StopType'
  BY ProcessesAssumption, StageNames DEF StopType, List, Removing, disk
<1>4. RemovalType'
  BY ProcessesAssumption, StageNames DEF RemovalType, List, Removing, disk
<1>5. Writing'
  BY ProcessesAssumption, <1>a, <1>b, <1>c, <1>1, <1>2, <1>3, <1>4 DEF Writing, Alive, Fresh,
       Unmade, Making, RuntimesAim, RemovalsAim, Emptied, Begun, disk
<1>6. Fresh'
  BY ProcessesAssumption, <1>a, <1>b, <1>c, <1>1, <1>2, <1>3, <1>4 DEF Fresh, Unmade, Making,
       RemovalsAim, RuntimesAim, Begun, Writing, Alive, disk
<1>7. RemovalsAim'
  BY ProcessesAssumption, <1>a, <1>b, <1>c, <1>1, <1>2, <1>3, <1>4 DEF RemovalsAim, Begun, Unmade,
       Making, RuntimesAim, Fresh, StopsAim, disk
<1>8. RuntimesAim'
  BY ProcessesAssumption, <1>a, <1>b, <1>c, <1>1, <1>2, <1>3, <1>4 DEF RuntimesAim, Begun, Unmade,
       Making, RemovalsAim, disk
<1>9. StopsAim'
  BY ProcessesAssumption, <1>a, <1>b, <1>c, <1>1, <1>2, <1>3, <1>4 DEF StopsAim, RuntimesAim,
       RemovalsAim, Begun, Unmade, Making, disk
<1>10. Emptied'
  BY ProcessesAssumption, <1>a, <1>b, <1>c, <1>1, <1>2, <1>3, <1>4 DEF Emptied, Writing, Alive,
       Fresh, Unmade, Making, RemovalsAim, RuntimesAim, Begun, disk
<1>11. MarkedWhileItMatters'
  BY ProcessesAssumption, <1>a, <1>b, <1>c, <1>1, <1>2, <1>3, <1>4 DEF MarkedWhileItMatters,
       Emptied, Fresh, Writing, Alive, RemovalsAim, Begun, Unmade, Making, disk
<1> QED BY <1>1, <1>2, <1>3, <1>4, <1>5, <1>6, <1>7, <1>8, <1>9, <1>10, <1>11

LEMMA DeleteOthersKeeps ==
  ASSUME NEW p \in Sessions \cup Stops, DirectoryInvariant, DeleteOthers(p), UNCHANGED <<day, runtime, stop>>
  PROVE  DirectoryInvariant'
<1> USE DEF DirectoryInvariant, DirectoryType, Targets
<1>1. DiskType'
  BY ProcessesAssumption DEF DiskType, DeleteOthers, Delete, Take, Advance, Removing, disk
<1>2. RuntimeType'
  BY ProcessesAssumption, StageNames DEF RuntimeType, DeleteOthers, Delete, Take, Advance,
       Removing, disk
<1>3. StopType'
  BY ProcessesAssumption, StageNames DEF StopType, DeleteOthers, Delete, Take, Advance, Removing,
       disk
<1>4. RemovalType'
  BY ProcessesAssumption, StageNames DEF RemovalType, DeleteOthers, Delete, Take, Advance,
       Removing, disk
<1>5. Writing'
  BY ProcessesAssumption, <1>1, <1>2, <1>3, <1>4 DEF Writing, Alive, RuntimeType, DiskType,
       DeleteOthers, Delete, Take, Advance, Removing, disk
<1>6. Fresh'
  BY ProcessesAssumption, <1>1, <1>2, <1>3, <1>4 DEF Fresh, Unmade, Making, RuntimeType, DiskType,
       DeleteOthers, Delete, Take, Advance, Removing, disk
<1>7. RemovalsAim'
  BY ProcessesAssumption, <1>1, <1>2, <1>3, <1>4 DEF RemovalsAim, Begun, Unmade, Making,
       RuntimeType, RemovalType, DeleteOthers, Delete, Take, Advance, Removing, disk
<1>8. RuntimesAim'
  BY ProcessesAssumption, <1>1, <1>2, <1>3, <1>4 DEF RuntimesAim, Begun, Unmade, Making,
       RuntimeType, RemovalType, DeleteOthers, Delete, Take, Advance, Removing, disk
<1>9. StopsAim'
  BY ProcessesAssumption, <1>1, <1>2, <1>3, <1>4 DEF StopsAim, RuntimeType, StopType, DeleteOthers,
       Delete, Take, Advance, Removing, disk
<1>10. Emptied'
  BY ProcessesAssumption, <1>1, <1>2, <1>3, <1>4 DEF Emptied, RemovalType, DiskType, DeleteOthers,
       Delete, Take, Advance, Removing, disk
<1>11. MarkedWhileItMatters'
  BY ProcessesAssumption, <1>1, <1>2, <1>3, <1>4 DEF MarkedWhileItMatters, DiskType, DeleteOthers,
       Delete, Take, Advance, Removing, disk
<1> QED BY <1>1, <1>2, <1>3, <1>4, <1>5, <1>6, <1>7, <1>8, <1>9, <1>10, <1>11

LEMMA DeleteJournalKeeps ==
  ASSUME NEW p \in Sessions \cup Stops, DirectoryInvariant, DeleteJournal(p), UNCHANGED <<day, runtime, stop>>
  PROVE  DirectoryInvariant'
<1> USE DEF DirectoryInvariant, DirectoryType, Targets
<1>1. DiskType'
  <2>1. removal[p].target \in Sessions
    BY DEF RemovalsAim, DeleteJournal, Delete, Removing
  <2>2. undercut' \subseteq Sessions
    BY <2>1 DEF DiskType, DeleteJournal
  <2>3. files' \in [Sessions -> SUBSET Entries] /\ activeAt' \in [Sessions -> Nat]
    BY <2>1 DEF DiskType, DeleteJournal, Delete, Take
  <2> QED BY <2>2, <2>3 DEF DiskType, DeleteJournal, Delete
<1>2. RuntimeType'
  BY ProcessesAssumption, StageNames DEF RuntimeType, DeleteJournal, Delete, Take, Advance, Alive,
       Removing, disk
<1>3. StopType'
  BY ProcessesAssumption, StageNames DEF StopType, DeleteJournal, Delete, Take, Advance, Alive,
       Removing, disk
<1>4. RemovalType'
  BY ProcessesAssumption, StageNames DEF RemovalType, DeleteJournal, Delete, Take, Advance, Alive,
       Removing, disk
<1>5. Writing'
  <2>1. /\ removal[p].pc = "journal" /\ removal[p].target \in Sessions
        /\ files' = [files EXCEPT ![removal[p].target] = @ \ {"journal"}]
        /\ undercut' = undercut \cup {s \in {removal[p].target} : p # s /\ Alive(s)}
    BY DEF RemovalsAim, DeleteJournal, Delete, Take, Removing
  <2>2. ASSUME NEW s \in Sessions, Alive(s) PROVE p # s
    BY <2>1, <2>2 DEF RuntimesAim, Alive
  <2>3. ASSUME NEW s \in Sessions, Alive(s), s \in undercut \/ "journal" \in files[s]
        PROVE  s \in undercut' \/ "journal" \in files'[s]
    BY <2>1, <2>2, <2>3 DEF DiskType
  <2> QED BY <2>3 DEF Writing, Alive
<1>6. Fresh'
  BY ProcessesAssumption, <1>1, <1>2, <1>3, <1>4 DEF Fresh, Unmade, Making, RuntimeType, DiskType,
       DeleteJournal, Delete, Take, Advance, Alive, Removing, disk
<1>7. RemovalsAim'
  BY ProcessesAssumption, <1>1, <1>2, <1>3, <1>4 DEF RemovalsAim, Begun, Unmade, Making,
       RuntimeType, RemovalType, DeleteJournal, Delete, Take, Advance, Alive, Removing, disk
<1>8. RuntimesAim'
  BY ProcessesAssumption, <1>1, <1>2, <1>3, <1>4 DEF RuntimesAim, Begun, Unmade, Making,
       RuntimeType, RemovalType, DeleteJournal, Delete, Take, Advance, Alive, Removing, disk
<1>9. StopsAim'
  BY ProcessesAssumption, <1>1, <1>2, <1>3, <1>4 DEF StopsAim, RuntimeType, StopType,
       DeleteJournal, Delete, Take, Advance, Alive, Removing, disk
<1>10. Emptied'
  BY ProcessesAssumption, <1>1, <1>2, <1>3, <1>4 DEF Emptied, RemovalType, DiskType, DeleteJournal,
       Delete, Take, Advance, Alive, Removing, disk
<1>11. MarkedWhileItMatters'
  BY ProcessesAssumption, <1>1, <1>2, <1>3, <1>4 DEF MarkedWhileItMatters, DiskType, DeleteJournal,
       Delete, Take, Advance, Alive, Removing, disk
<1> QED BY <1>1, <1>2, <1>3, <1>4, <1>5, <1>6, <1>7, <1>8, <1>9, <1>10, <1>11

LEMMA DeleteMarkerKeeps ==
  ASSUME NEW p \in Sessions \cup Stops, DirectoryInvariant, DeleteMarker(p), UNCHANGED <<day, runtime, stop>>
  PROVE  DirectoryInvariant'
<1> USE DEF DirectoryInvariant, DirectoryType, Targets
<1>1. DiskType'
  BY ProcessesAssumption DEF DiskType, DeleteMarker, Delete, Take, Advance, Removing, disk
<1>2. RuntimeType'
  BY ProcessesAssumption, StageNames DEF RuntimeType, DeleteMarker, Delete, Take, Advance,
       Removing, disk
<1>3. StopType'
  BY ProcessesAssumption, StageNames DEF StopType, DeleteMarker, Delete, Take, Advance, Removing,
       disk
<1>4. RemovalType'
  BY ProcessesAssumption, StageNames DEF RemovalType, DeleteMarker, Delete, Take, Advance,
       Removing, disk
<1>5. Writing'
  BY ProcessesAssumption, <1>1, <1>2, <1>3, <1>4 DEF Writing, Alive, RuntimeType, DiskType,
       DeleteMarker, Delete, Take, Advance, Removing, disk
<1>6. Fresh'
  BY ProcessesAssumption, <1>1, <1>2, <1>3, <1>4 DEF Fresh, Unmade, Making, RuntimeType, DiskType,
       RemovalsAim, RuntimesAim, Begun, RemovalType, Writing, Alive, DeleteMarker, Delete, Take,
       Advance, Removing, disk
<1>7. RemovalsAim'
  BY ProcessesAssumption, <1>1, <1>2, <1>3, <1>4 DEF RemovalsAim, Begun, Unmade, Making,
       RuntimeType, RemovalType, DeleteMarker, Delete, Take, Advance, Removing, disk
<1>8. RuntimesAim'
  BY ProcessesAssumption, <1>1, <1>2, <1>3, <1>4 DEF RuntimesAim, Begun, Unmade, Making,
       RuntimeType, RemovalType, DeleteMarker, Delete, Take, Advance, Removing, disk
<1>9. StopsAim'
  BY ProcessesAssumption, <1>1, <1>2, <1>3, <1>4 DEF StopsAim, RuntimeType, StopType, DeleteMarker,
       Delete, Take, Advance, Removing, disk
<1>10. Emptied'
  BY ProcessesAssumption, <1>1, <1>2, <1>3, <1>4 DEF Emptied, RemovalType, DiskType, DeleteMarker,
       Delete, Take, Advance, Removing, disk
<1>11. MarkedWhileItMatters'
  BY ProcessesAssumption, <1>1, <1>2, <1>3, <1>4 DEF MarkedWhileItMatters, DiskType, Emptied,
       Fresh, Writing, Alive, RemovalType, RuntimeType, RemovalsAim, Begun, Unmade, Making,
       DeleteMarker, Delete, Take, Advance, Removing, disk
<1> QED BY <1>1, <1>2, <1>3, <1>4, <1>5, <1>6, <1>7, <1>8, <1>9, <1>10, <1>11

LEMMA DeleteRootKeeps ==
  ASSUME NEW p \in Sessions \cup Stops, DirectoryInvariant, DeleteRoot(p), UNCHANGED <<day, runtime, stop>>
  PROVE  DirectoryInvariant'
<1> USE DEF DirectoryInvariant, DirectoryType, Targets
<1>1. DiskType'
  BY ProcessesAssumption DEF DiskType, DeleteRoot, Delete, Take, Advance, Entries, Removing, disk
<1>2. RuntimeType'
  BY ProcessesAssumption, StageNames DEF RuntimeType, DeleteRoot, Delete, Take, Advance, Entries,
       Removing, disk
<1>3. StopType'
  BY ProcessesAssumption, StageNames DEF StopType, DeleteRoot, Delete, Take, Advance, Entries,
       Removing, disk
<1>4. RemovalType'
  BY ProcessesAssumption, StageNames DEF RemovalType, DeleteRoot, Delete, Take, Advance, Entries,
       Removing, disk
<1>5. Writing'
  BY ProcessesAssumption, <1>1, <1>2, <1>3, <1>4 DEF Writing, Alive, RuntimeType, DiskType, Fresh,
       Unmade, Making, RuntimesAim, RemovalsAim, Emptied, RemovalType, Begun, DeleteRoot, Delete,
       Take, Advance, Entries, Removing, disk
<1>6. Fresh'
  BY ProcessesAssumption, <1>1, <1>2, <1>3, <1>4 DEF Fresh, Unmade, Making, RuntimeType, DiskType,
       RemovalsAim, RuntimesAim, Begun, RemovalType, Writing, Alive, DeleteRoot, Delete, Take,
       Advance, Entries, Removing, disk
<1>7. RemovalsAim'
  BY ProcessesAssumption, <1>1, <1>2, <1>3, <1>4 DEF RemovalsAim, Begun, Unmade, Making,
       RuntimeType, RemovalType, DeleteRoot, Delete, Take, Advance, Entries, Removing, disk
<1>8. RuntimesAim'
  BY ProcessesAssumption, <1>1, <1>2, <1>3, <1>4 DEF RuntimesAim, Begun, Unmade, Making,
       RuntimeType, RemovalType, DeleteRoot, Delete, Take, Advance, Entries, Removing, disk
<1>9. StopsAim'
  BY ProcessesAssumption, <1>1, <1>2, <1>3, <1>4 DEF StopsAim, RuntimeType, StopType, DeleteRoot,
       Delete, Take, Advance, Entries, Removing, disk
<1>10. Emptied'
  BY ProcessesAssumption, <1>1, <1>2, <1>3, <1>4 DEF Emptied, RemovalType, DiskType, DeleteRoot,
       Delete, Take, Advance, Entries, Removing, disk
<1>11. MarkedWhileItMatters'
  BY ProcessesAssumption, <1>1, <1>2, <1>3, <1>4 DEF MarkedWhileItMatters, DiskType, DeleteRoot,
       Delete, Take, Advance, Entries, Removing, disk
<1> QED BY <1>1, <1>2, <1>3, <1>4, <1>5, <1>6, <1>7, <1>8, <1>9, <1>10, <1>11

LEMMA DeleteFailsKeeps ==
  ASSUME NEW p \in Sessions \cup Stops, DirectoryInvariant, DeleteFails(p), UNCHANGED <<day, runtime, stop>>
  PROVE  DirectoryInvariant'
<1> USE DEF DirectoryInvariant, DirectoryType, Targets
<1>1. DiskType'
  BY ProcessesAssumption DEF DiskType, DeleteFails, Advance, Removing, disk
<1>2. RuntimeType'
  BY ProcessesAssumption, StageNames DEF RuntimeType, DeleteFails, Advance, Removing, disk
<1>3. StopType'
  BY ProcessesAssumption, StageNames DEF StopType, DeleteFails, Advance, Removing, disk
<1>4. RemovalType'
  BY ProcessesAssumption, StageNames DEF RemovalType, DeleteFails, Advance, Removing, disk
<1>5. Writing'
  BY ProcessesAssumption, <1>1, <1>2, <1>3, <1>4 DEF Writing, Alive, RuntimeType, DiskType,
       DeleteFails, Advance, Removing, disk
<1>6. Fresh'
  BY ProcessesAssumption, <1>1, <1>2, <1>3, <1>4 DEF Fresh, Unmade, Making, RuntimeType, DiskType,
       DeleteFails, Advance, Removing, disk
<1>7. RemovalsAim'
  BY ProcessesAssumption, <1>1, <1>2, <1>3, <1>4 DEF RemovalsAim, Begun, Unmade, Making,
       RuntimeType, RemovalType, DeleteFails, Advance, Removing, disk
<1>8. RuntimesAim'
  BY ProcessesAssumption, <1>1, <1>2, <1>3, <1>4 DEF RuntimesAim, Begun, Unmade, Making,
       RuntimeType, RemovalType, DeleteFails, Advance, Removing, disk
<1>9. StopsAim'
  BY ProcessesAssumption, <1>1, <1>2, <1>3, <1>4 DEF StopsAim, RuntimeType, StopType, DeleteFails,
       Advance, Removing, disk
<1>10. Emptied'
  BY ProcessesAssumption, <1>1, <1>2, <1>3, <1>4 DEF Emptied, RemovalType, DiskType, DeleteFails,
       Advance, Removing, disk
<1>11. MarkedWhileItMatters'
  BY ProcessesAssumption, <1>1, <1>2, <1>3, <1>4 DEF MarkedWhileItMatters, DiskType, DeleteFails,
       Advance, Removing, disk
<1> QED BY <1>1, <1>2, <1>3, <1>4, <1>5, <1>6, <1>7, <1>8, <1>9, <1>10, <1>11

LEMMA StartKeeps ==
  ASSUME NEW s \in Sessions, DirectoryInvariant, Start(s)
  PROVE  DirectoryInvariant'
<1> USE DEF DirectoryInvariant, DirectoryType, Targets
<1>a. /\ \A t \in Sessions : t # s => runtime'[t] = runtime[t]
      /\ runtime[s].pc = "none" /\ runtime'[s].pc = "pruning"
      /\ runtime'[s].stale = {t \in Sessions : Stale(t)}
      /\ runtime'[s].appending = runtime[s].appending /\ (runtime'[s].published <=> runtime[s].published)
  BY DEF Start, At, RuntimeType
<1>b. UNCHANGED <<disk, day, stop, removal>>
  BY DEF Start
<1>c. \A t \in runtime'[s].stale : Begun(t)
  BY <1>a DEF Stale, Fresh, Begun, Unmade, Making, DiskType
<1>z. \A t \in Sessions : runtime[t].stale \subseteq Sessions
  BY DEF RuntimeType
<1>1. DiskType'
  BY ProcessesAssumption DEF DiskType, Start, At, disk
<1>2. RuntimeType'
  <2> "pruning" \in RuntimeStages
    BY DEF RuntimeStages
  <2> {t \in Sessions : Stale(t)} \in SUBSET Sessions
    OBVIOUS
  <2> QED BY DEF RuntimeType, Start
<1>3. StopType'
  BY ProcessesAssumption, StageNames DEF StopType, Start, At, disk
<1>4. RemovalType'
  BY ProcessesAssumption, StageNames DEF RemovalType, Start, At, disk
<1>5. Writing'
  BY ProcessesAssumption, <1>a, <1>b, <1>c, <1>z, <1>1, <1>2, <1>3, <1>4 DEF Writing, Alive, Fresh,
       Unmade, Making, RuntimesAim, RemovalsAim, Emptied, Begun, disk
<1>6. Fresh'
  BY ProcessesAssumption, <1>a, <1>b, <1>c, <1>z, <1>1, <1>2, <1>3, <1>4 DEF Fresh, Unmade, Making,
       RemovalsAim, RuntimesAim, Begun, Writing, Alive, disk
<1>7. RemovalsAim'
  BY ProcessesAssumption, <1>a, <1>b, <1>c, <1>z, <1>1, <1>2, <1>3, <1>4 DEF RemovalsAim, Begun,
       Unmade, Making, RuntimesAim, Fresh, StopsAim, disk
<1>8. RuntimesAim'
  BY ProcessesAssumption, <1>a, <1>b, <1>c, <1>z, <1>1, <1>2, <1>3, <1>4 DEF RuntimesAim, Begun,
       Unmade, Making, RemovalsAim, disk
<1>9. StopsAim'
  BY ProcessesAssumption, <1>a, <1>b, <1>c, <1>z, <1>1, <1>2, <1>3, <1>4 DEF StopsAim, RuntimesAim,
       RemovalsAim, Begun, Unmade, Making, disk
<1>10. Emptied'
  BY ProcessesAssumption, <1>a, <1>b, <1>c, <1>z, <1>1, <1>2, <1>3, <1>4 DEF Emptied, Writing,
       Alive, Fresh, Unmade, Making, RemovalsAim, RuntimesAim, Begun, disk
<1>11. MarkedWhileItMatters'
  BY ProcessesAssumption, <1>a, <1>b, <1>c, <1>z, <1>1, <1>2, <1>3, <1>4 DEF MarkedWhileItMatters,
       Emptied, Fresh, Writing, Alive, RemovalsAim, Begun, Unmade, Making, disk
<1> QED BY <1>1, <1>2, <1>3, <1>4, <1>5, <1>6, <1>7, <1>8, <1>9, <1>10, <1>11

LEMMA PruneKeeps ==
  ASSUME NEW s \in Sessions, DirectoryInvariant, Prune(s)
  PROVE  DirectoryInvariant'
<1> USE DEF DirectoryInvariant, DirectoryType, Targets
<1>1. DiskType'
  BY ProcessesAssumption DEF DiskType, Prune, Begin, NoRemoval, Removing, At, disk
<1>2. RuntimeType'
  BY ProcessesAssumption, StageNames DEF RuntimeType, Prune, Begin, NoRemoval, Removing, At, disk
<1>3. StopType'
  BY ProcessesAssumption, StageNames DEF StopType, Prune, Begin, NoRemoval, Removing, At, disk
<1>4. RemovalType'
  <2> "list" \in RemovalStages
    BY DEF RemovalStages
  <2>1. PICK t \in runtime[s].stale : Begin(s, "list", t)
    BY DEF Prune
  <2>2. t \in Sessions \cup {None}
    BY DEF RuntimeType
  <2> QED BY <2>1, <2>2, BeginTyped
<1>5. Writing'
  BY ProcessesAssumption, <1>1, <1>2, <1>3, <1>4 DEF Writing, Alive, RuntimeType, DiskType, Prune,
       Begin, NoRemoval, Removing, At, disk
<1>6. Fresh'
  BY ProcessesAssumption, <1>1, <1>2, <1>3, <1>4 DEF Fresh, Unmade, Making, RuntimeType, DiskType,
       Prune, Begin, NoRemoval, Removing, At, disk
<1>7. RemovalsAim'
  BY ProcessesAssumption, <1>1, <1>2, <1>3, <1>4 DEF RemovalsAim, Begun, Unmade, Making,
       RuntimeType, RemovalType, RuntimesAim, Fresh, StopsAim, StopType, Prune, Begin, NoRemoval,
       Removing, At, disk
<1>8. RuntimesAim'
  BY ProcessesAssumption, <1>1, <1>2, <1>3, <1>4 DEF RuntimesAim, Begun, Unmade, Making,
       RuntimeType, RemovalType, Prune, Begin, NoRemoval, Removing, At, disk
<1>9. StopsAim'
  BY ProcessesAssumption, <1>1, <1>2, <1>3, <1>4 DEF StopsAim, RuntimeType, StopType, Prune, Begin,
       NoRemoval, Removing, At, disk
<1>10. Emptied'
  BY ProcessesAssumption, <1>1, <1>2, <1>3, <1>4 DEF Emptied, RemovalType, DiskType, Prune, Begin,
       NoRemoval, Removing, At, disk
<1>11. MarkedWhileItMatters'
  BY ProcessesAssumption, <1>1, <1>2, <1>3, <1>4 DEF MarkedWhileItMatters, DiskType, Prune, Begin,
       NoRemoval, Removing, At, disk
<1> QED BY <1>1, <1>2, <1>3, <1>4, <1>5, <1>6, <1>7, <1>8, <1>9, <1>10, <1>11

LEMMA PrunedKeeps ==
  ASSUME NEW s \in Sessions, DirectoryInvariant, Pruned(s)
  PROVE  DirectoryInvariant'
<1> USE DEF DirectoryInvariant, DirectoryType, Targets
<1>1. DiskType'
  BY ProcessesAssumption DEF DiskType, Pruned, Ended, NoRemoval, Removing, At, disk
<1>2. RuntimeType'
  BY ProcessesAssumption, StageNames DEF RuntimeType, Pruned, Ended, NoRemoval, Removing, At, disk
<1>3. StopType'
  BY ProcessesAssumption, StageNames DEF StopType, Pruned, Ended, NoRemoval, Removing, At, disk
<1>4. RemovalType'
  BY ProcessesAssumption, StageNames DEF RemovalType, Pruned, Ended, NoRemoval, Removing, At, disk
<1>5. Writing'
  BY ProcessesAssumption, <1>1, <1>2, <1>3, <1>4 DEF Writing, Alive, RuntimeType, DiskType, Pruned,
       Ended, NoRemoval, Removing, At, disk
<1>6. Fresh'
  BY ProcessesAssumption, <1>1, <1>2, <1>3, <1>4 DEF Fresh, Unmade, Making, RuntimeType, DiskType,
       Pruned, Ended, NoRemoval, Removing, At, disk
<1>7. RemovalsAim'
  BY ProcessesAssumption, <1>1, <1>2, <1>3, <1>4 DEF RemovalsAim, Begun, Unmade, Making,
       RuntimeType, RemovalType, Pruned, Ended, NoRemoval, Removing, At, disk
<1>8. RuntimesAim'
  BY ProcessesAssumption, <1>1, <1>2, <1>3, <1>4 DEF RuntimesAim, Begun, Unmade, Making,
       RuntimeType, RemovalType, Pruned, Ended, NoRemoval, Removing, At, disk
<1>9. StopsAim'
  BY ProcessesAssumption, <1>1, <1>2, <1>3, <1>4 DEF StopsAim, RuntimeType, StopType, Pruned,
       Ended, NoRemoval, Removing, At, disk
<1>10. Emptied'
  BY ProcessesAssumption, <1>1, <1>2, <1>3, <1>4 DEF Emptied, RemovalType, DiskType, Pruned, Ended,
       NoRemoval, Removing, At, disk
<1>11. MarkedWhileItMatters'
  BY ProcessesAssumption, <1>1, <1>2, <1>3, <1>4 DEF MarkedWhileItMatters, DiskType, Pruned, Ended,
       NoRemoval, Removing, At, disk
<1> QED BY <1>1, <1>2, <1>3, <1>4, <1>5, <1>6, <1>7, <1>8, <1>9, <1>10, <1>11

LEMMA PruneFailsKeeps ==
  ASSUME NEW s \in Sessions, DirectoryInvariant, PruneFails(s)
  PROVE  DirectoryInvariant'
<1> USE DEF DirectoryInvariant, DirectoryType, Targets
<1>1. DiskType'
  BY ProcessesAssumption DEF DiskType, PruneFails, Ended, Goes, NoRemoval, Removing, At, disk
<1>2. RuntimeType'
  BY ProcessesAssumption, StageNames DEF RuntimeType, PruneFails, Ended, Goes, NoRemoval, Removing,
       At, disk
<1>3. StopType'
  BY ProcessesAssumption, StageNames DEF StopType, PruneFails, Ended, Goes, NoRemoval, Removing,
       At, disk
<1>4. RemovalType'
  BY ProcessesAssumption, StageNames DEF RemovalType, PruneFails, Ended, Goes, NoRemoval, Removing,
       At, disk
<1>5. Writing'
  BY ProcessesAssumption, <1>1, <1>2, <1>3, <1>4 DEF Writing, Alive, RuntimeType, DiskType,
       PruneFails, Ended, Goes, NoRemoval, Removing, At, disk
<1>6. Fresh'
  BY ProcessesAssumption, <1>1, <1>2, <1>3, <1>4 DEF Fresh, Unmade, Making, RuntimeType, DiskType,
       PruneFails, Ended, Goes, NoRemoval, Removing, At, disk
<1>7. RemovalsAim'
  BY ProcessesAssumption, <1>1, <1>2, <1>3, <1>4 DEF RemovalsAim, Begun, Unmade, Making,
       RuntimeType, RemovalType, PruneFails, Ended, Goes, NoRemoval, Removing, At, disk
<1>8. RuntimesAim'
  BY ProcessesAssumption, <1>1, <1>2, <1>3, <1>4 DEF RuntimesAim, Begun, Unmade, Making,
       RuntimeType, RemovalType, PruneFails, Ended, Goes, NoRemoval, Removing, At, disk
<1>9. StopsAim'
  BY ProcessesAssumption, <1>1, <1>2, <1>3, <1>4 DEF StopsAim, RuntimeType, StopType, PruneFails,
       Ended, Goes, NoRemoval, Removing, At, disk
<1>10. Emptied'
  BY ProcessesAssumption, <1>1, <1>2, <1>3, <1>4 DEF Emptied, RemovalType, DiskType, PruneFails,
       Ended, Goes, NoRemoval, Removing, At, disk
<1>11. MarkedWhileItMatters'
  BY ProcessesAssumption, <1>1, <1>2, <1>3, <1>4 DEF MarkedWhileItMatters, DiskType, PruneFails,
       Ended, Goes, NoRemoval, Removing, At, disk
<1> QED BY <1>1, <1>2, <1>3, <1>4, <1>5, <1>6, <1>7, <1>8, <1>9, <1>10, <1>11

LEMMA MakeRootKeeps ==
  ASSUME NEW s \in Sessions, DirectoryInvariant, MakeRoot(s)
  PROVE  DirectoryInvariant'
<1> USE DEF DirectoryInvariant, DirectoryType, Targets
<1>1. DiskType'
  BY DEF DiskType, Entries, MakeRoot, Put
<1>2. RuntimeType'
  BY ProcessesAssumption, StageNames DEF RuntimeType, MakeRoot, Put, Goes, Removing, At, disk
<1>3. StopType'
  BY ProcessesAssumption, StageNames DEF StopType, MakeRoot, Put, Goes, Removing, At, disk
<1>4. RemovalType'
  BY ProcessesAssumption, StageNames DEF RemovalType, MakeRoot, Put, Goes, Removing, At, disk
<1>5. Writing'
  BY ProcessesAssumption, <1>1, <1>2, <1>3, <1>4 DEF Writing, Alive, RuntimeType, DiskType,
       MakeRoot, Put, Goes, Removing, At, disk
<1>6. Fresh'
  BY ProcessesAssumption, <1>1, <1>2, <1>3, <1>4 DEF Fresh, Unmade, Making, RuntimeType, DiskType,
       MakeRoot, Put, Goes, Removing, At, disk
<1>7. RemovalsAim'
  BY ProcessesAssumption, <1>1, <1>2, <1>3, <1>4 DEF RemovalsAim, Begun, Unmade, Making,
       RuntimeType, RemovalType, MakeRoot, Put, Goes, Removing, At, disk
<1>8. RuntimesAim'
  BY ProcessesAssumption, <1>1, <1>2, <1>3, <1>4 DEF RuntimesAim, Begun, Unmade, Making,
       RuntimeType, RemovalType, MakeRoot, Put, Goes, Removing, At, disk
<1>9. StopsAim'
  BY ProcessesAssumption, <1>1, <1>2, <1>3, <1>4 DEF StopsAim, RuntimeType, StopType, MakeRoot,
       Put, Goes, Removing, At, disk
<1>10. Emptied'
  BY ProcessesAssumption, <1>1, <1>2, <1>3, <1>4 DEF Emptied, RemovalType, DiskType, MakeRoot, Put,
       Goes, Removing, At, disk
<1>11. MarkedWhileItMatters'
  BY ProcessesAssumption, <1>1, <1>2, <1>3, <1>4 DEF MarkedWhileItMatters, DiskType, MakeRoot, Put,
       Goes, Removing, At, disk
<1> QED BY <1>1, <1>2, <1>3, <1>4, <1>5, <1>6, <1>7, <1>8, <1>9, <1>10, <1>11

LEMMA WriteMarkerKeeps ==
  ASSUME NEW s \in Sessions, DirectoryInvariant, WriteMarker(s)
  PROVE  DirectoryInvariant'
<1> USE DEF DirectoryInvariant, DirectoryType, Targets
<1>1. DiskType'
  BY DEF DiskType, Entries, WriteMarker, Put
<1>2. RuntimeType'
  BY ProcessesAssumption, StageNames DEF RuntimeType, WriteMarker, Put, Goes, At, disk
<1>3. StopType'
  BY ProcessesAssumption, StageNames DEF StopType, WriteMarker, Put, Goes, At, disk
<1>4. RemovalType'
  BY ProcessesAssumption, StageNames DEF RemovalType, WriteMarker, Put, Goes, At, disk
<1>5. Writing'
  BY ProcessesAssumption, <1>1, <1>2, <1>3, <1>4 DEF Writing, Alive, RuntimeType, DiskType,
       WriteMarker, Put, Goes, At, disk
<1>6. Fresh'
  BY ProcessesAssumption, <1>1, <1>2, <1>3, <1>4 DEF Fresh, Unmade, Making, RuntimeType, DiskType,
       WriteMarker, Put, Goes, At, disk
<1>7. RemovalsAim'
  BY ProcessesAssumption, <1>1, <1>2, <1>3, <1>4 DEF RemovalsAim, Begun, Unmade, Making,
       RuntimeType, RemovalType, WriteMarker, Put, Goes, At, disk
<1>8. RuntimesAim'
  BY ProcessesAssumption, <1>1, <1>2, <1>3, <1>4 DEF RuntimesAim, Begun, Unmade, Making,
       RuntimeType, RemovalType, WriteMarker, Put, Goes, At, disk
<1>9. StopsAim'
  BY ProcessesAssumption, <1>1, <1>2, <1>3, <1>4 DEF StopsAim, RuntimeType, StopType, WriteMarker,
       Put, Goes, At, disk
<1>10. Emptied'
  BY ProcessesAssumption, <1>1, <1>2, <1>3, <1>4 DEF Emptied, RemovalType, DiskType, WriteMarker,
       Put, Goes, At, disk
<1>11. MarkedWhileItMatters'
  BY ProcessesAssumption, <1>1, <1>2, <1>3, <1>4 DEF MarkedWhileItMatters, DiskType, WriteMarker,
       Put, Goes, At, disk
<1> QED BY <1>1, <1>2, <1>3, <1>4, <1>5, <1>6, <1>7, <1>8, <1>9, <1>10, <1>11

LEMMA WriteJournalKeeps ==
  ASSUME NEW s \in Sessions, DirectoryInvariant, WriteJournal(s)
  PROVE  DirectoryInvariant'
<1> USE DEF DirectoryInvariant, DirectoryType, Targets
<1>1. DiskType'
  BY DEF DiskType, Entries, WriteJournal, Put
<1>2. RuntimeType'
  BY ProcessesAssumption, StageNames DEF RuntimeType, WriteJournal, Put, Goes, At, disk
<1>3. StopType'
  BY ProcessesAssumption, StageNames DEF StopType, WriteJournal, Put, Goes, At, disk
<1>4. RemovalType'
  BY ProcessesAssumption, StageNames DEF RemovalType, WriteJournal, Put, Goes, At, disk
<1>5. Writing'
  BY ProcessesAssumption, <1>1, <1>2, <1>3, <1>4 DEF Writing, Alive, RuntimeType, DiskType,
       WriteJournal, Put, Goes, At, disk
<1>6. Fresh'
  BY ProcessesAssumption, <1>1, <1>2, <1>3, <1>4 DEF Fresh, Unmade, Making, RuntimeType, DiskType,
       WriteJournal, Put, Goes, At, disk
<1>7. RemovalsAim'
  BY ProcessesAssumption, <1>1, <1>2, <1>3, <1>4 DEF RemovalsAim, Begun, Unmade, Making,
       RuntimeType, RemovalType, WriteJournal, Put, Goes, At, disk
<1>8. RuntimesAim'
  BY ProcessesAssumption, <1>1, <1>2, <1>3, <1>4 DEF RuntimesAim, Begun, Unmade, Making,
       RuntimeType, RemovalType, WriteJournal, Put, Goes, At, disk
<1>9. StopsAim'
  BY ProcessesAssumption, <1>1, <1>2, <1>3, <1>4 DEF StopsAim, RuntimeType, StopType, WriteJournal,
       Put, Goes, At, disk
<1>10. Emptied'
  BY ProcessesAssumption, <1>1, <1>2, <1>3, <1>4 DEF Emptied, RemovalType, DiskType, Writing,
       Alive, Fresh, Unmade, Making, RemovalsAim, RuntimesAim, Begun, RuntimeType, WriteJournal,
       Put, Goes, At, disk
<1>11. MarkedWhileItMatters'
  BY ProcessesAssumption, <1>1, <1>2, <1>3, <1>4 DEF MarkedWhileItMatters, DiskType, Emptied,
       Fresh, Writing, Alive, RemovalType, RuntimeType, RemovalsAim, Begun, Unmade, Making,
       WriteJournal, Put, Goes, At, disk
<1> QED BY <1>1, <1>2, <1>3, <1>4, <1>5, <1>6, <1>7, <1>8, <1>9, <1>10, <1>11

LEMMA CreationFailsKeeps ==
  ASSUME NEW s \in Sessions, DirectoryInvariant, CreationFails(s)
  PROVE  DirectoryInvariant'
<1> USE DEF DirectoryInvariant, DirectoryType, Targets
<1>1. DiskType'
  BY ProcessesAssumption DEF DiskType, CreationFails, Goes, At, disk
<1>2. RuntimeType'
  BY ProcessesAssumption, StageNames DEF RuntimeType, CreationFails, Goes, At, disk
<1>3. StopType'
  BY ProcessesAssumption, StageNames DEF StopType, CreationFails, Goes, At, disk
<1>4. RemovalType'
  BY ProcessesAssumption, StageNames DEF RemovalType, CreationFails, Goes, At, disk
<1>5. Writing'
  BY ProcessesAssumption, <1>1, <1>2, <1>3, <1>4 DEF Writing, Alive, RuntimeType, DiskType,
       CreationFails, Goes, At, disk
<1>6. Fresh'
  BY ProcessesAssumption, <1>1, <1>2, <1>3, <1>4 DEF Fresh, Unmade, Making, RuntimeType, DiskType,
       CreationFails, Goes, At, disk
<1>7. RemovalsAim'
  BY ProcessesAssumption, <1>1, <1>2, <1>3, <1>4 DEF RemovalsAim, Begun, Unmade, Making,
       RuntimeType, RemovalType, CreationFails, Goes, At, disk
<1>8. RuntimesAim'
  BY ProcessesAssumption, <1>1, <1>2, <1>3, <1>4 DEF RuntimesAim, Begun, Unmade, Making,
       RuntimeType, RemovalType, CreationFails, Goes, At, disk
<1>9. StopsAim'
  BY ProcessesAssumption, <1>1, <1>2, <1>3, <1>4 DEF StopsAim, RuntimeType, StopType,
       CreationFails, Goes, At, disk
<1>10. Emptied'
  BY ProcessesAssumption, <1>1, <1>2, <1>3, <1>4 DEF Emptied, RemovalType, DiskType, CreationFails,
       Goes, At, disk
<1>11. MarkedWhileItMatters'
  BY ProcessesAssumption, <1>1, <1>2, <1>3, <1>4 DEF MarkedWhileItMatters, DiskType, CreationFails,
       Goes, At, disk
<1> QED BY <1>1, <1>2, <1>3, <1>4, <1>5, <1>6, <1>7, <1>8, <1>9, <1>10, <1>11

LEMMA PublishKeeps ==
  ASSUME NEW s \in Sessions, DirectoryInvariant, Publish(s)
  PROVE  DirectoryInvariant'
<1> USE DEF DirectoryInvariant, DirectoryType, Targets
<1>1. DiskType'
  BY DEF DiskType, Entries, Publish, Put
<1>2. RuntimeType'
  BY PublishTyped DEF Publish
<1>3. StopType'
  BY ProcessesAssumption, StageNames DEF StopType, Publish, Put, At, disk
<1>4. RemovalType'
  BY ProcessesAssumption, StageNames DEF RemovalType, Publish, Put, At, disk
<1>5. Writing'
  BY ProcessesAssumption, <1>1, <1>2, <1>3, <1>4 DEF Writing, Alive, RuntimeType, DiskType,
       Publish, Put, At, disk
<1>6. Fresh'
  BY ProcessesAssumption, <1>1, <1>2, <1>3, <1>4 DEF Fresh, Unmade, Making, RuntimeType, DiskType,
       Publish, Put, At, disk
<1>7. RemovalsAim'
  BY ProcessesAssumption, <1>1, <1>2, <1>3, <1>4 DEF RemovalsAim, Begun, Unmade, Making,
       RuntimeType, RemovalType, Publish, Put, At, disk
<1>8. RuntimesAim'
  BY ProcessesAssumption, <1>1, <1>2, <1>3, <1>4 DEF RuntimesAim, Begun, Unmade, Making,
       RuntimeType, RemovalType, Publish, Put, At, disk
<1>9. StopsAim'
  BY ProcessesAssumption, <1>1, <1>2, <1>3, <1>4 DEF StopsAim, RuntimeType, StopType, Publish, Put,
       At, disk
<1>10. Emptied'
  BY ProcessesAssumption, <1>1, <1>2, <1>3, <1>4 DEF Emptied, RemovalType, DiskType, Writing,
       Alive, Fresh, Unmade, Making, RemovalsAim, RuntimesAim, Begun, RuntimeType, Publish, Put,
       At, disk
<1>11. MarkedWhileItMatters'
  BY ProcessesAssumption, <1>1, <1>2, <1>3, <1>4 DEF MarkedWhileItMatters, DiskType, Publish, Put,
       At, disk
<1> QED BY <1>1, <1>2, <1>3, <1>4, <1>5, <1>6, <1>7, <1>8, <1>9, <1>10, <1>11

LEMMA AbandonKeeps ==
  ASSUME NEW s \in Sessions, DirectoryInvariant, Abandon(s)
  PROVE  DirectoryInvariant'
<1> USE DEF DirectoryInvariant, DirectoryType, Targets
<1>1. DiskType'
  BY ProcessesAssumption DEF DiskType, Abandon, Begin, Goes, NoRemoval, At, disk
<1>2. RuntimeType'
  BY ProcessesAssumption, StageNames DEF RuntimeType, Abandon, Begin, Goes, NoRemoval, At, disk
<1>3. StopType'
  BY ProcessesAssumption, StageNames DEF StopType, Abandon, Begin, Goes, NoRemoval, At, disk
<1>4. RemovalType'
  BY ProcessesAssumption, StageNames DEF RemovalType, Abandon, Begin, Goes, NoRemoval, At, disk
<1>5. Writing'
  BY ProcessesAssumption, <1>1, <1>2, <1>3, <1>4 DEF Writing, Alive, RuntimeType, DiskType,
       Abandon, Begin, Goes, NoRemoval, At, disk
<1>6. Fresh'
  BY ProcessesAssumption, <1>1, <1>2, <1>3, <1>4 DEF Fresh, Unmade, Making, RuntimeType, DiskType,
       Abandon, Begin, Goes, NoRemoval, At, disk
<1>7. RemovalsAim'
  BY ProcessesAssumption, <1>1, <1>2, <1>3, <1>4 DEF RemovalsAim, Begun, Unmade, Making,
       RuntimeType, RemovalType, Abandon, Begin, Goes, NoRemoval, At, disk
<1>8. RuntimesAim'
  BY ProcessesAssumption, <1>1, <1>2, <1>3, <1>4 DEF RuntimesAim, Begun, Unmade, Making,
       RuntimeType, RemovalType, Abandon, Begin, Goes, NoRemoval, At, disk
<1>9. StopsAim'
  BY ProcessesAssumption, <1>1, <1>2, <1>3, <1>4 DEF StopsAim, RuntimeType, StopType, Abandon,
       Begin, Goes, NoRemoval, At, disk
<1>10. Emptied'
  BY ProcessesAssumption, <1>1, <1>2, <1>3, <1>4 DEF Emptied, RemovalType, DiskType, Abandon,
       Begin, Goes, NoRemoval, At, disk
<1>11. MarkedWhileItMatters'
  BY ProcessesAssumption, <1>1, <1>2, <1>3, <1>4 DEF MarkedWhileItMatters, DiskType, Abandon,
       Begin, Goes, NoRemoval, At, disk
<1> QED BY <1>1, <1>2, <1>3, <1>4, <1>5, <1>6, <1>7, <1>8, <1>9, <1>10, <1>11

LEMMA AbandonedKeeps ==
  ASSUME NEW s \in Sessions, DirectoryInvariant, Abandoned(s)
  PROVE  DirectoryInvariant'
<1> USE DEF DirectoryInvariant, DirectoryType, Targets
<1>1. DiskType'
  BY ProcessesAssumption DEF DiskType, Abandoned, Ended, Goes, NoRemoval, Removing, At, disk
<1>2. RuntimeType'
  BY ProcessesAssumption, StageNames DEF RuntimeType, Abandoned, Ended, Goes, NoRemoval, Removing,
       At, disk
<1>3. StopType'
  BY ProcessesAssumption, StageNames DEF StopType, Abandoned, Ended, Goes, NoRemoval, Removing, At,
       disk
<1>4. RemovalType'
  <2>1. removal' = [removal EXCEPT ![s] = NoRemoval]
    BY DEF Abandoned, Ended
  <2> QED BY <2>1, EndedTyped
<1>5. Writing'
  BY ProcessesAssumption, <1>1, <1>2, <1>3, <1>4 DEF Writing, Alive, RuntimeType, DiskType,
       Abandoned, Ended, Goes, NoRemoval, Removing, At, disk
<1>6. Fresh'
  BY ProcessesAssumption, <1>1, <1>2, <1>3, <1>4 DEF Fresh, Unmade, Making, RuntimeType, DiskType,
       Abandoned, Ended, Goes, NoRemoval, Removing, At, disk
<1>7. RemovalsAim'
  <2>1. /\ removal' = [removal EXCEPT ![s] = NoRemoval]
        /\ runtime' = [runtime EXCEPT ![s].pc = "refused"]
    BY DEF Abandoned, Ended, Goes
  <2>2. \A t \in Sessions : Begun(t) => Begun(t)'
    BY <2>1 DEF RuntimeType, Begun, Unmade, Making
  <2>3. \A q \in Sessions \cup Stops : removal'[q].pc # "idle" => removal'[q] = removal[q]
    BY <2>1 DEF RemovalType, NoRemoval
  <2> QED BY <2>2, <2>3 DEF RemovalsAim
<1>8. RuntimesAim'
  BY ProcessesAssumption, <1>1, <1>2, <1>3, <1>4 DEF RuntimesAim, Begun, Unmade, Making,
       RuntimeType, RemovalType, Abandoned, Ended, Goes, NoRemoval, Removing, At, disk
<1>9. StopsAim'
  BY ProcessesAssumption, <1>1, <1>2, <1>3, <1>4 DEF StopsAim, RuntimeType, StopType, Abandoned,
       Ended, Goes, NoRemoval, Removing, At, disk
<1>10. Emptied'
  <2>1. removal' = [removal EXCEPT ![s] = NoRemoval] /\ UNCHANGED <<files, undercut>>
    BY DEF Abandoned, Ended, disk
  <2>2. \A q \in Sessions \cup Stops : removal'[q] = removal[q] \/ removal'[q].pc = "idle"
    BY <2>1 DEF RemovalType, NoRemoval
  <2> QED BY <2>1, <2>2 DEF Emptied
<1>11. MarkedWhileItMatters'
  BY ProcessesAssumption, <1>1, <1>2, <1>3, <1>4 DEF MarkedWhileItMatters, DiskType, Abandoned,
       Ended, Goes, NoRemoval, Removing, At, disk
<1> QED BY <1>1, <1>2, <1>3, <1>4, <1>5, <1>6, <1>7, <1>8, <1>9, <1>10, <1>11

LEMMA RespondKeeps ==
  ASSUME NEW s \in Sessions, DirectoryInvariant, Respond(s)
  PROVE  DirectoryInvariant'
<1> USE DEF DirectoryInvariant, DirectoryType, Targets
<1>1. DiskType'
  BY ProcessesAssumption DEF DiskType, Respond, At, disk
<1>2. RuntimeType'
  BY ProcessesAssumption, StageNames DEF RuntimeType, Respond, At, disk
<1>3. StopType'
  BY ProcessesAssumption, StageNames DEF StopType, Respond, At, disk
<1>4. RemovalType'
  BY ProcessesAssumption, StageNames DEF RemovalType, Respond, At, disk
<1>5. Writing'
  BY ProcessesAssumption, <1>1, <1>2, <1>3, <1>4 DEF Writing, Alive, RuntimeType, DiskType,
       Respond, At, disk
<1>6. Fresh'
  BY ProcessesAssumption, <1>1, <1>2, <1>3, <1>4 DEF Fresh, Unmade, Making, RuntimeType, DiskType,
       Respond, At, disk
<1>7. RemovalsAim'
  BY ProcessesAssumption, <1>1, <1>2, <1>3, <1>4 DEF RemovalsAim, Begun, Unmade, Making,
       RuntimeType, RemovalType, Respond, At, disk
<1>8. RuntimesAim'
  BY ProcessesAssumption, <1>1, <1>2, <1>3, <1>4 DEF RuntimesAim, Begun, Unmade, Making,
       RuntimeType, RemovalType, Respond, At, disk
<1>9. StopsAim'
  BY ProcessesAssumption, <1>1, <1>2, <1>3, <1>4 DEF StopsAim, RuntimeType, StopType, Respond, At,
       disk
<1>10. Emptied'
  BY ProcessesAssumption, <1>1, <1>2, <1>3, <1>4 DEF Emptied, RemovalType, DiskType, Respond, At,
       disk
<1>11. MarkedWhileItMatters'
  BY ProcessesAssumption, <1>1, <1>2, <1>3, <1>4 DEF MarkedWhileItMatters, DiskType, Respond, At,
       disk
<1> QED BY <1>1, <1>2, <1>3, <1>4, <1>5, <1>6, <1>7, <1>8, <1>9, <1>10, <1>11

LEMMA AppendKeeps ==
  ASSUME NEW s \in Sessions, DirectoryInvariant, Append(s)
  PROVE  DirectoryInvariant'
<1> USE DEF DirectoryInvariant, DirectoryType, Targets
<1>1. DiskType'
  <2> runtime[s].appending \in {"handoff", "end"}
    BY DEF RuntimeType, Append
  <2>1. CASE "root" \in files[s]
    <3>1. files' \in [Sessions -> SUBSET Entries] /\ activeAt' \in [Sessions -> Nat]
      BY <2>1 DEF DiskType, Append, Put, Entries
    <3> DEFINE j == (IF "journal" \in files[s] THEN journal[s] ELSE {}) \cup {runtime[s].appending}
    <3>2. j \in SUBSET {"handoff", "end"}
      BY DEF DiskType
    <3>3. journal' = [journal EXCEPT ![s] = j]
      BY <2>1 DEF Append, DiskType
    <3> HIDE DEF j
    <3>4. journal' \in [Sessions -> SUBSET {"handoff", "end"}]
      BY <3>2, <3>3 DEF DiskType
    <3> QED BY <3>1, <3>4 DEF DiskType, Append
  <2>2. CASE "root" \notin files[s]
    BY <2>2 DEF DiskType, Append
  <2> QED BY <2>1, <2>2
<1>2. RuntimeType'
  BY ProcessesAssumption, StageNames DEF RuntimeType, Append, Put, disk
<1>3. StopType'
  BY ProcessesAssumption, StageNames DEF StopType, Append, Put, disk
<1>4. RemovalType'
  BY ProcessesAssumption, StageNames DEF RemovalType, Append, Put, disk
<1>5. Writing'
  <2>1. /\ \A t \in Sessions : t # s => runtime'[t] = runtime[t]
        /\ runtime'[s].appending = None /\ runtime'[s].pc = runtime[s].pc
    BY DEF Append, RuntimeType
  <2>2. undercut' = undercut /\ \A t \in Sessions : files[t] \subseteq files'[t]
    BY DEF Append, Put, DiskType
  <2> QED BY <2>1, <2>2 DEF Writing, Alive
<1>6. Fresh'
  BY ProcessesAssumption, <1>1, <1>2, <1>3, <1>4 DEF Fresh, Unmade, Making, RuntimeType, DiskType,
       Append, Put, disk
<1>7. RemovalsAim'
  BY ProcessesAssumption, <1>1, <1>2, <1>3, <1>4 DEF RemovalsAim, Begun, Unmade, Making,
       RuntimeType, RemovalType, Append, Put, disk
<1>8. RuntimesAim'
  BY ProcessesAssumption, <1>1, <1>2, <1>3, <1>4 DEF RuntimesAim, Begun, Unmade, Making,
       RuntimeType, RemovalType, Append, Put, disk
<1>9. StopsAim'
  BY ProcessesAssumption, <1>1, <1>2, <1>3, <1>4 DEF StopsAim, RuntimeType, StopType, Append, Put,
       disk
<1>10. Emptied'
  <2>1. runtime[s].appending # None /\ (s \in undercut \/ "journal" \in files[s])
    BY DEF Append, Writing
  <2>2. /\ removal' = removal /\ undercut' = undercut
        /\ \A t \in Sessions : (files'[t] = files[t] \/ (t = s /\ files'[t] = files[t] \cup {"journal"}))
    BY DEF Append, Put, DiskType
  <2> SUFFICES ASSUME NEW p \in Sessions \cup Stops, removal[p].pc # "idle"
               PROVE  LET t == removal[p].target
                      IN  /\ removal[p].pc = "others" /\ ~removal[p].listed => "descriptor" \notin files'[t]
                          /\ removal[p].pc \in {"journal", "marker", "root"} => "descriptor" \notin files'[t]
                          /\ removal[p].pc \in {"marker", "root"} =>
                               t \in undercut \/ "journal" \notin files'[t]
    BY <2>2 DEF Emptied
  <2>3. removal[p].target \in Sessions
    BY DEF RemovalsAim
  <2>4. CASE files'[removal[p].target] = files[removal[p].target]
    BY <2>4 DEF Emptied
  <2>5. CASE removal[p].target = s /\ files'[s] = files[s] \cup {"journal"}
    BY <2>1, <2>5 DEF Emptied
  <2> QED BY <2>2, <2>3, <2>4, <2>5
<1>11. MarkedWhileItMatters'
  <2>1. runtime[s].appending # None /\ (s \in undercut \/ "journal" \in files[s])
    BY DEF Append, Writing
  <2>2. /\ undercut' = undercut
        /\ \A t \in Sessions : (files'[t] = files[t] \/ (t = s /\ files'[t] = files[t] \cup {"journal"}))
    BY DEF Append, Put, DiskType
  <2> QED BY <2>1, <2>2 DEF MarkedWhileItMatters
<1> QED BY <1>1, <1>2, <1>3, <1>4, <1>5, <1>6, <1>7, <1>8, <1>9, <1>10, <1>11

LEMMA InterruptKeeps ==
  ASSUME NEW s \in Sessions, DirectoryInvariant, Interrupt(s)
  PROVE  DirectoryInvariant'
<1> USE DEF DirectoryInvariant, DirectoryType, Targets
<1>1. DiskType'
  BY ProcessesAssumption DEF DiskType, Interrupt, Goes, Stoppable, disk
<1>2. RuntimeType'
  BY ProcessesAssumption, StageNames DEF RuntimeType, Interrupt, Goes, Stoppable, disk
<1>3. StopType'
  BY ProcessesAssumption, StageNames DEF StopType, Interrupt, Goes, Stoppable, disk
<1>4. RemovalType'
  BY ProcessesAssumption, StageNames DEF RemovalType, Interrupt, Goes, Stoppable, disk
<1>5. Writing'
  BY ProcessesAssumption, <1>1, <1>2, <1>3, <1>4 DEF Writing, Alive, RuntimeType, DiskType,
       Interrupt, Goes, Stoppable, disk
<1>6. Fresh'
  BY ProcessesAssumption, <1>1, <1>2, <1>3, <1>4 DEF Fresh, Unmade, Making, RuntimeType, DiskType,
       Interrupt, Goes, Stoppable, disk
<1>7. RemovalsAim'
  BY ProcessesAssumption, <1>1, <1>2, <1>3, <1>4 DEF RemovalsAim, Begun, Unmade, Making,
       RuntimeType, RemovalType, Interrupt, Goes, Stoppable, disk
<1>8. RuntimesAim'
  BY ProcessesAssumption, <1>1, <1>2, <1>3, <1>4 DEF RuntimesAim, Begun, Unmade, Making,
       RuntimeType, RemovalType, Interrupt, Goes, Stoppable, disk
<1>9. StopsAim'
  BY ProcessesAssumption, <1>1, <1>2, <1>3, <1>4 DEF StopsAim, RuntimeType, StopType, Interrupt,
       Goes, Stoppable, disk
<1>10. Emptied'
  BY ProcessesAssumption, <1>1, <1>2, <1>3, <1>4 DEF Emptied, RemovalType, DiskType, Interrupt,
       Goes, Stoppable, disk
<1>11. MarkedWhileItMatters'
  BY ProcessesAssumption, <1>1, <1>2, <1>3, <1>4 DEF MarkedWhileItMatters, DiskType, Interrupt,
       Goes, Stoppable, disk
<1> QED BY <1>1, <1>2, <1>3, <1>4, <1>5, <1>6, <1>7, <1>8, <1>9, <1>10, <1>11

LEMMA CloseRecordKeeps ==
  ASSUME NEW s \in Sessions, DirectoryInvariant, CloseRecord(s)
  PROVE  DirectoryInvariant'
<1> USE DEF DirectoryInvariant, DirectoryType, Targets
<1>a. /\ \A t \in Sessions : t # s => runtime'[t] = runtime[t]
      /\ runtime[s].pc = "ending" /\ runtime'[s].pc = "closing"
      /\ runtime'[s].stale = runtime[s].stale /\ (runtime'[s].published <=> runtime[s].published)
      /\ (runtime'[s].appending = None \/ ("journal" \in files[s] /\ runtime'[s].appending = "end"))
  <2> DEFINE a == IF runtime[s].handoff = None /\ "journal" \in files[s] THEN "end" ELSE None
  <2>1. runtime' = [runtime EXCEPT ![s].pc = "closing", ![s].appending = a] /\ runtime[s].pc = "ending"
    BY DEF CloseRecord, At
  <2>2. a = None \/ ("journal" \in files[s] /\ a = "end")
    OBVIOUS
  <2> HIDE DEF a
  <2>3. /\ \A t \in Sessions : t # s => runtime'[t] = runtime[t]
        /\ runtime'[s].pc = "closing" /\ runtime'[s].appending = a
        /\ runtime'[s].stale = runtime[s].stale /\ runtime'[s].published = runtime[s].published
    BY <2>1 DEF RuntimeType
  <2> QED BY <2>1, <2>2, <2>3
<1>b. UNCHANGED <<disk, day, stop, removal>>
  BY DEF CloseRecord
<1>z. \A t \in Sessions : runtime[t].stale \subseteq Sessions
  BY DEF RuntimeType
<1>1. DiskType'
  BY ProcessesAssumption DEF DiskType, CloseRecord, At, disk
<1>2. RuntimeType'
  <2> "closing" \in RuntimeStages
    BY DEF RuntimeStages
  <2> DEFINE a == IF runtime[s].handoff = None /\ "journal" \in files[s] THEN "end" ELSE None
  <2> a \in {None, "handoff", "end"}
    OBVIOUS
  <2>1. runtime' = [runtime EXCEPT ![s].pc = "closing", ![s].appending = a]
    BY DEF CloseRecord
  <2> HIDE DEF a
  <2> QED BY <2>1 DEF RuntimeType
<1>3. StopType'
  BY ProcessesAssumption, StageNames DEF StopType, CloseRecord, At, disk
<1>4. RemovalType'
  BY ProcessesAssumption, StageNames DEF RemovalType, CloseRecord, At, disk
<1>5. Writing'
  BY ProcessesAssumption, <1>a, <1>b, <1>z, <1>1, <1>2, <1>3, <1>4 DEF Writing, Alive, Fresh,
       Unmade, Making, RuntimesAim, RemovalsAim, Emptied, Begun, disk
<1>6. Fresh'
  BY ProcessesAssumption, <1>a, <1>b, <1>z, <1>1, <1>2, <1>3, <1>4 DEF Fresh, Unmade, Making,
       RemovalsAim, RuntimesAim, Begun, Writing, Alive, disk
<1>7. RemovalsAim'
  BY ProcessesAssumption, <1>a, <1>b, <1>z, <1>1, <1>2, <1>3, <1>4 DEF RemovalsAim, Begun, Unmade,
       Making, RuntimesAim, Fresh, StopsAim, disk
<1>8. RuntimesAim'
  BY ProcessesAssumption, <1>a, <1>b, <1>z, <1>1, <1>2, <1>3, <1>4 DEF RuntimesAim, Begun, Unmade,
       Making, RemovalsAim, disk
<1>9. StopsAim'
  BY ProcessesAssumption, <1>a, <1>b, <1>z, <1>1, <1>2, <1>3, <1>4 DEF StopsAim, RuntimesAim,
       RemovalsAim, Begun, Unmade, Making, disk
<1>10. Emptied'
  BY ProcessesAssumption, <1>a, <1>b, <1>z, <1>1, <1>2, <1>3, <1>4 DEF Emptied, Writing, Alive,
       Fresh, Unmade, Making, RemovalsAim, RuntimesAim, Begun, disk
<1>11. MarkedWhileItMatters'
  BY ProcessesAssumption, <1>a, <1>b, <1>z, <1>1, <1>2, <1>3, <1>4 DEF MarkedWhileItMatters,
       Emptied, Fresh, Writing, Alive, RemovalsAim, Begun, Unmade, Making, disk
<1> QED BY <1>1, <1>2, <1>3, <1>4, <1>5, <1>6, <1>7, <1>8, <1>9, <1>10, <1>11

LEMMA TerminateKeeps ==
  ASSUME NEW s \in Sessions, DirectoryInvariant, Terminate(s)
  PROVE  DirectoryInvariant'
<1> USE DEF DirectoryInvariant, DirectoryType, Targets
<1>a. /\ \A t \in Sessions : t # s => runtime'[t] = runtime[t]
      /\ runtime[s].pc = "closing"
      /\ runtime'[s].appending = runtime[s].appending /\ runtime'[s].stale = runtime[s].stale
      /\ (runtime'[s].published <=> runtime[s].published)
      /\ \/ runtime'[s].pc = "broken" /\ UNCHANGED removal
         \/ runtime'[s].pc = "removing" /\ Begin(s, "look", s)
  BY TerminateGoes
<1>b. UNCHANGED <<disk, day>>
  BY DEF Terminate
<1>c. \A c \in Stops : stop'[c].target = stop[c].target /\ stop'[c].pc \in {stop[c].pc, "over"}
  BY TerminateGoes
<1>d. \A p \in Sessions \cup Stops :
        \/ removal'[p] = removal[p]
        \/ /\ p = s /\ removal'[p].pc = "look" /\ removal'[p].target = s
           /\ runtime'[s].pc = "removing"
  BY <1>a DEF Begin, NoRemoval, RemovalType
<1>e. runtime[s].appending = None
  BY <1>a DEF Terminate, Writing
<1>z. \A t \in Sessions : runtime[t].stale \subseteq Sessions
  BY DEF RuntimeType
<1>1. DiskType'
  BY ProcessesAssumption DEF DiskType, Terminate, Breaks, Goes, Begin, NoRemoval, At, disk
<1>2. RuntimeType'
  BY TerminateGoes
<1>3. StopType'
  BY TerminateGoes
<1>4. RemovalType'
  BY TerminateGoes
<1>5. Writing'
  BY ProcessesAssumption, <1>a, <1>b, <1>c, <1>d, <1>e, <1>z, <1>1, <1>2, <1>3, <1>4 DEF Writing,
       Alive, Fresh, Unmade, Making, RuntimesAim, RemovalsAim, Emptied, Begun, disk
<1>6. Fresh'
  BY ProcessesAssumption, <1>a, <1>b, <1>c, <1>d, <1>e, <1>z, <1>1, <1>2, <1>3, <1>4 DEF Fresh,
       Unmade, Making, RemovalsAim, RuntimesAim, Begun, Writing, Alive, disk
<1>7. RemovalsAim'
  BY ProcessesAssumption, <1>a, <1>b, <1>c, <1>d, <1>e, <1>z, <1>1, <1>2, <1>3, <1>4 DEF
       RemovalsAim, Begun, Unmade, Making, RuntimesAim, Fresh, StopsAim, disk
<1>8. RuntimesAim'
  BY ProcessesAssumption, <1>a, <1>b, <1>c, <1>d, <1>e, <1>z, <1>1, <1>2, <1>3, <1>4 DEF
       RuntimesAim, Begun, Unmade, Making, RemovalsAim, disk
<1>9. StopsAim'
  BY ProcessesAssumption, <1>a, <1>b, <1>c, <1>d, <1>e, <1>z, <1>1, <1>2, <1>3, <1>4 DEF StopsAim,
       RuntimesAim, RemovalsAim, Begun, Unmade, Making, disk
<1>10. Emptied'
  BY ProcessesAssumption, <1>a, <1>b, <1>c, <1>d, <1>e, <1>z, <1>1, <1>2, <1>3, <1>4 DEF Emptied,
       Writing, Alive, Fresh, Unmade, Making, RemovalsAim, RuntimesAim, Begun, disk
<1>11. MarkedWhileItMatters'
  BY ProcessesAssumption, <1>a, <1>b, <1>c, <1>d, <1>e, <1>z, <1>1, <1>2, <1>3, <1>4 DEF
       MarkedWhileItMatters, Emptied, Fresh, Writing, Alive, RemovalsAim, Begun, Unmade, Making,
       disk
<1> QED BY <1>1, <1>2, <1>3, <1>4, <1>5, <1>6, <1>7, <1>8, <1>9, <1>10, <1>11

LEMMA CloseKeeps ==
  ASSUME NEW s \in Sessions, DirectoryInvariant, Close(s)
  PROVE  DirectoryInvariant'
<1> USE DEF DirectoryInvariant, DirectoryType, Targets
<1>1. DiskType'
  BY ProcessesAssumption DEF DiskType, Close, Ended, NoRemoval, Removing, At, disk
<1>2. RuntimeType'
  <2> "closed" \in RuntimeStages
    BY DEF RuntimeStages
  <2> DEFINE h == IF removal[s].handoff # None THEN removal[s].handoff ELSE runtime[s].handoff
  <2> h \in Kept
    BY DEF RuntimeType, RemovalType
  <2>1. runtime' = [runtime EXCEPT ![s].pc = "closed", ![s].handoff = h]
    BY DEF Close, RuntimeType
  <2> HIDE DEF h
  <2> QED BY <2>1 DEF RuntimeType
<1>3. StopType'
  BY ProcessesAssumption, StageNames DEF StopType, Close, Ended, NoRemoval, Removing, At, disk
<1>4. RemovalType'
  BY ProcessesAssumption, StageNames DEF RemovalType, Close, Ended, NoRemoval, Removing, At, disk
<1>5. Writing'
  BY ProcessesAssumption, <1>1, <1>2, <1>3, <1>4 DEF Writing, Alive, RuntimeType, DiskType, Close,
       Ended, NoRemoval, Removing, At, disk
<1>6. Fresh'
  BY ProcessesAssumption, <1>1, <1>2, <1>3, <1>4 DEF Fresh, Unmade, Making, RuntimeType, DiskType,
       Close, Ended, NoRemoval, Removing, At, disk
<1>7. RemovalsAim'
  BY ProcessesAssumption, <1>1, <1>2, <1>3, <1>4 DEF RemovalsAim, Begun, Unmade, Making,
       RuntimeType, RemovalType, Close, Ended, NoRemoval, Removing, At, disk
<1>8. RuntimesAim'
  BY ProcessesAssumption, <1>1, <1>2, <1>3, <1>4 DEF RuntimesAim, Begun, Unmade, Making,
       RuntimeType, RemovalType, Close, Ended, NoRemoval, Removing, At, disk
<1>9. StopsAim'
  BY ProcessesAssumption, <1>1, <1>2, <1>3, <1>4 DEF StopsAim, RuntimeType, StopType, Close, Ended,
       NoRemoval, Removing, At, disk
<1>10. Emptied'
  BY ProcessesAssumption, <1>1, <1>2, <1>3, <1>4 DEF Emptied, RemovalType, DiskType, Close, Ended,
       NoRemoval, Removing, At, disk
<1>11. MarkedWhileItMatters'
  BY ProcessesAssumption, <1>1, <1>2, <1>3, <1>4 DEF MarkedWhileItMatters, DiskType, Close, Ended,
       NoRemoval, Removing, At, disk
<1> QED BY <1>1, <1>2, <1>3, <1>4, <1>5, <1>6, <1>7, <1>8, <1>9, <1>10, <1>11

LEMMA CloseFailsKeeps ==
  ASSUME NEW s \in Sessions, DirectoryInvariant, CloseFails(s)
  PROVE  DirectoryInvariant'
<1> USE DEF DirectoryInvariant, DirectoryType, Targets
<1>a. /\ \A t \in Sessions : t # s => runtime'[t] = runtime[t]
      /\ runtime[s].pc = "removing" /\ runtime'[s].pc = "broken"
      /\ runtime'[s].appending = runtime[s].appending /\ runtime'[s].stale = runtime[s].stale
      /\ (runtime'[s].published <=> runtime[s].published)
  <2>1. runtime' = [runtime EXCEPT ![s].pc = "broken"] /\ runtime[s].pc = "removing"
    BY DEF CloseFails, Breaks, Goes, At
  <2> QED BY <2>1 DEF RuntimeType
<1>b. /\ UNCHANGED <<disk, day>>
      /\ \A p \in Sessions \cup Stops :
           removal'[p] = removal[p] \/ (p = s /\ removal'[p].pc = "idle")
  BY DEF CloseFails, Ended, NoRemoval, RemovalType
<1>d. removal'[s].pc = "idle"
  BY DEF CloseFails, Ended, NoRemoval, RemovalType
<1>c. \A c \in Stops : stop'[c].target = stop[c].target /\ stop'[c].pc \in {stop[c].pc, "over"}
  BY BreaksTells DEF CloseFails
<1>z. \A t \in Sessions : runtime[t].stale \subseteq Sessions
  BY DEF RuntimeType
<1>1. DiskType'
  BY ProcessesAssumption DEF DiskType, CloseFails, Ended, Breaks, Goes, NoRemoval, Removing, At,
       disk
<1>2. RuntimeType'
  BY BreaksTells DEF CloseFails
<1>3. StopType'
  BY BreaksTells DEF CloseFails
<1>4. RemovalType'
  BY ProcessesAssumption, StageNames DEF RemovalType, CloseFails, Ended, Breaks, Goes, NoRemoval,
       Removing, At, disk
<1>5. Writing'
  BY ProcessesAssumption, <1>a, <1>b, <1>c, <1>d, <1>z, <1>1, <1>2, <1>3, <1>4 DEF Writing, Alive,
       Fresh, Unmade, Making, RuntimesAim, RemovalsAim, Emptied, Begun, disk
<1>6. Fresh'
  BY ProcessesAssumption, <1>a, <1>b, <1>c, <1>d, <1>z, <1>1, <1>2, <1>3, <1>4 DEF Fresh, Unmade,
       Making, RemovalsAim, RuntimesAim, Begun, Writing, Alive, disk
<1>7. RemovalsAim'
  BY ProcessesAssumption, <1>a, <1>b, <1>c, <1>d, <1>z, <1>1, <1>2, <1>3, <1>4 DEF RemovalsAim,
       Begun, Unmade, Making, RuntimesAim, Fresh, StopsAim, disk
<1>8. RuntimesAim'
  BY ProcessesAssumption, <1>a, <1>b, <1>c, <1>d, <1>z, <1>1, <1>2, <1>3, <1>4 DEF RuntimesAim,
       Begun, Unmade, Making, RemovalsAim, disk
<1>9. StopsAim'
  BY ProcessesAssumption, <1>a, <1>b, <1>c, <1>d, <1>z, <1>1, <1>2, <1>3, <1>4 DEF StopsAim,
       RuntimesAim, RemovalsAim, Begun, Unmade, Making, disk
<1>10. Emptied'
  BY ProcessesAssumption, <1>a, <1>b, <1>c, <1>d, <1>z, <1>1, <1>2, <1>3, <1>4 DEF Emptied,
       Writing, Alive, Fresh, Unmade, Making, RemovalsAim, RuntimesAim, Begun, disk
<1>11. MarkedWhileItMatters'
  BY ProcessesAssumption, <1>a, <1>b, <1>c, <1>d, <1>z, <1>1, <1>2, <1>3, <1>4 DEF
       MarkedWhileItMatters, Emptied, Fresh, Writing, Alive, RemovalsAim, Begun, Unmade, Making,
       disk
<1> QED BY <1>1, <1>2, <1>3, <1>4, <1>5, <1>6, <1>7, <1>8, <1>9, <1>10, <1>11

LEMMA KillRuntimeKeeps ==
  ASSUME NEW s \in Sessions, DirectoryInvariant, KillRuntime(s)
  PROVE  DirectoryInvariant'
<1> USE DEF DirectoryInvariant, DirectoryType, Targets
<1>1. DiskType'
  BY ProcessesAssumption DEF DiskType, KillRuntime, Killed, Running, NoRemoval, disk
<1>2. RuntimeType'
  BY KillTyped DEF KillRuntime
<1>3. StopType'
  BY ProcessesAssumption, StageNames DEF StopType, KillRuntime, Killed, Running, NoRemoval, disk
<1>4. RemovalType'
  BY ProcessesAssumption, StageNames DEF RemovalType, KillRuntime, Killed, Running, NoRemoval, disk
<1>5. Writing'
  BY ProcessesAssumption, <1>1, <1>2, <1>3, <1>4 DEF Writing, Alive, RuntimeType, DiskType,
       KillRuntime, Killed, Running, NoRemoval, disk
<1>6. Fresh'
  BY ProcessesAssumption, <1>1, <1>2, <1>3, <1>4 DEF Fresh, Unmade, Making, RuntimeType, DiskType,
       KillRuntime, Killed, Running, NoRemoval, disk
<1>7. RemovalsAim'
  BY ProcessesAssumption, <1>1, <1>2, <1>3, <1>4 DEF RemovalsAim, Begun, Unmade, Making,
       RuntimeType, RemovalType, KillRuntime, Killed, Running, NoRemoval, disk
<1>8. RuntimesAim'
  BY ProcessesAssumption, <1>1, <1>2, <1>3, <1>4 DEF RuntimesAim, Begun, Unmade, Making,
       RuntimeType, RemovalType, KillRuntime, Killed, Running, NoRemoval, disk
<1>9. StopsAim'
  BY ProcessesAssumption, <1>1, <1>2, <1>3, <1>4 DEF StopsAim, RuntimeType, StopType, KillRuntime,
       Killed, Running, NoRemoval, disk
<1>10. Emptied'
  BY ProcessesAssumption, <1>1, <1>2, <1>3, <1>4 DEF Emptied, RemovalType, DiskType, KillRuntime,
       Killed, Running, NoRemoval, disk
<1>11. MarkedWhileItMatters'
  BY ProcessesAssumption, <1>1, <1>2, <1>3, <1>4 DEF MarkedWhileItMatters, DiskType, KillRuntime,
       Killed, Running, NoRemoval, disk
<1> QED BY <1>1, <1>2, <1>3, <1>4, <1>5, <1>6, <1>7, <1>8, <1>9, <1>10, <1>11

LEMMA ReadDescriptorKeeps ==
  ASSUME NEW c \in Stops, DirectoryInvariant, ReadDescriptor(c)
  PROVE  DirectoryInvariant'
<1> USE DEF DirectoryInvariant, DirectoryType, Targets
<1>1. DiskType'
  BY ProcessesAssumption DEF DiskType, ReadDescriptor, Does, StopStays, disk
<1>2. RuntimeType'
  BY ProcessesAssumption, StageNames DEF RuntimeType, ReadDescriptor, Does, StopStays, disk
<1>3. StopType'
  BY ProcessesAssumption, StageNames DEF StopType, ReadDescriptor, Does, StopStays, disk
<1>4. RemovalType'
  BY ProcessesAssumption, StageNames DEF RemovalType, ReadDescriptor, Does, StopStays, disk
<1>5. Writing'
  BY ProcessesAssumption, <1>1, <1>2, <1>3, <1>4 DEF Writing, Alive, RuntimeType, DiskType,
       ReadDescriptor, Does, StopStays, disk
<1>6. Fresh'
  BY ProcessesAssumption, <1>1, <1>2, <1>3, <1>4 DEF Fresh, Unmade, Making, RuntimeType, DiskType,
       ReadDescriptor, Does, StopStays, disk
<1>7. RemovalsAim'
  BY ProcessesAssumption, <1>1, <1>2, <1>3, <1>4 DEF RemovalsAim, Begun, Unmade, Making,
       RuntimeType, RemovalType, ReadDescriptor, Does, StopStays, disk
<1>8. RuntimesAim'
  BY ProcessesAssumption, <1>1, <1>2, <1>3, <1>4 DEF RuntimesAim, Begun, Unmade, Making,
       RuntimeType, RemovalType, ReadDescriptor, Does, StopStays, disk
<1>9. StopsAim'
  BY ProcessesAssumption, <1>1, <1>2, <1>3, <1>4 DEF StopsAim, RuntimeType, StopType,
       ReadDescriptor, Does, StopStays, disk
<1>10. Emptied'
  BY ProcessesAssumption, <1>1, <1>2, <1>3, <1>4 DEF Emptied, RemovalType, DiskType,
       ReadDescriptor, Does, StopStays, disk
<1>11. MarkedWhileItMatters'
  BY ProcessesAssumption, <1>1, <1>2, <1>3, <1>4 DEF MarkedWhileItMatters, DiskType,
       ReadDescriptor, Does, StopStays, disk
<1> QED BY <1>1, <1>2, <1>3, <1>4, <1>5, <1>6, <1>7, <1>8, <1>9, <1>10, <1>11

LEMMA RecoverFirstKeeps ==
  ASSUME NEW c \in Stops, DirectoryInvariant, RecoverFirst(c)
  PROVE  DirectoryInvariant'
<1> USE DEF DirectoryInvariant, DirectoryType, Targets
<1>1. DiskType'
  BY ProcessesAssumption DEF DiskType, RecoverFirst, Recovered, Over, Does, StopStays, disk
<1>2. RuntimeType'
  BY ProcessesAssumption, StageNames DEF RuntimeType, RecoverFirst, Recovered, Over, Does,
       StopStays, disk
<1>3. StopType'
  BY ProcessesAssumption, StageNames DEF StopType, RecoverFirst, Recovered, Over, Does, StopStays,
       disk
<1>4. RemovalType'
  BY ProcessesAssumption, StageNames DEF RemovalType, RecoverFirst, Recovered, Over, Does,
       StopStays, disk
<1>5. Writing'
  BY ProcessesAssumption, <1>1, <1>2, <1>3, <1>4 DEF Writing, Alive, RuntimeType, DiskType,
       RecoverFirst, Recovered, Over, Does, StopStays, disk
<1>6. Fresh'
  BY ProcessesAssumption, <1>1, <1>2, <1>3, <1>4 DEF Fresh, Unmade, Making, RuntimeType, DiskType,
       RecoverFirst, Recovered, Over, Does, StopStays, disk
<1>7. RemovalsAim'
  BY ProcessesAssumption, <1>1, <1>2, <1>3, <1>4 DEF RemovalsAim, Begun, Unmade, Making,
       RuntimeType, RemovalType, RecoverFirst, Recovered, Over, Does, StopStays, disk
<1>8. RuntimesAim'
  BY ProcessesAssumption, <1>1, <1>2, <1>3, <1>4 DEF RuntimesAim, Begun, Unmade, Making,
       RuntimeType, RemovalType, RecoverFirst, Recovered, Over, Does, StopStays, disk
<1>9. StopsAim'
  BY ProcessesAssumption, <1>1, <1>2, <1>3, <1>4 DEF StopsAim, RuntimeType, StopType, RecoverFirst,
       Recovered, Over, Does, StopStays, disk
<1>10. Emptied'
  BY ProcessesAssumption, <1>1, <1>2, <1>3, <1>4 DEF Emptied, RemovalType, DiskType, RecoverFirst,
       Recovered, Over, Does, StopStays, disk
<1>11. MarkedWhileItMatters'
  BY ProcessesAssumption, <1>1, <1>2, <1>3, <1>4 DEF MarkedWhileItMatters, DiskType, RecoverFirst,
       Recovered, Over, Does, StopStays, disk
<1> QED BY <1>1, <1>2, <1>3, <1>4, <1>5, <1>6, <1>7, <1>8, <1>9, <1>10, <1>11

LEMMA AskKeeps ==
  ASSUME NEW c \in Stops, DirectoryInvariant, Ask(c)
  PROVE  DirectoryInvariant'
<1> USE DEF DirectoryInvariant, DirectoryType, Targets
<1>a. /\ stop[c].pc = "asking" /\ stop'[c].target = stop[c].target
      /\ \A d \in Stops : d # c => stop'[d] = stop[d]
  BY DEF Ask, Does, StopType
<1>b. UNCHANGED <<disk, day, removal>>
  BY DEF Ask, StopStays
<1>c. \A t \in Sessions :
        \/ runtime'[t] = runtime[t]
        \/ /\ runtime[t].pc \in {"serving", "broken"} /\ runtime'[t].pc = "ending"
           /\ runtime'[t].appending = runtime[t].appending /\ runtime'[t].stale = runtime[t].stale
           /\ (runtime'[t].published <=> runtime[t].published)
  <2>1. CASE runtime' = runtime
    BY <2>1
  <2>2. CASE Stoppable(stop[c].target) /\ Goes(stop[c].target, "ending")
    BY <2>2 DEF Stoppable, Goes, RuntimeType
  <2> QED BY <2>1, <2>2 DEF Ask
<1>z. \A t \in Sessions : runtime[t].stale \subseteq Sessions
  BY DEF RuntimeType
<1>1. DiskType'
  BY ProcessesAssumption DEF DiskType, Ask, Goes, Stoppable, Does, StopStays, disk
<1>2. RuntimeType'
  BY ProcessesAssumption, StageNames DEF RuntimeType, Ask, Goes, Stoppable, Does, StopStays, disk
<1>3. StopType'
  BY ProcessesAssumption, StageNames DEF StopType, Ask, Goes, Stoppable, Does, StopStays, disk
<1>4. RemovalType'
  BY ProcessesAssumption, StageNames DEF RemovalType, Ask, Goes, Stoppable, Does, StopStays, disk
<1>5. Writing'
  BY ProcessesAssumption, <1>a, <1>b, <1>c, <1>z, <1>1, <1>2, <1>3, <1>4 DEF Writing, Alive, Fresh,
       Unmade, Making, RuntimesAim, RemovalsAim, Emptied, Begun, disk
<1>6. Fresh'
  BY ProcessesAssumption, <1>a, <1>b, <1>c, <1>z, <1>1, <1>2, <1>3, <1>4 DEF Fresh, Unmade, Making,
       RemovalsAim, RuntimesAim, Begun, Writing, Alive, disk
<1>7. RemovalsAim'
  BY ProcessesAssumption, <1>a, <1>b, <1>c, <1>z, <1>1, <1>2, <1>3, <1>4 DEF RemovalsAim, Begun,
       Unmade, Making, RuntimesAim, Fresh, StopsAim, disk
<1>8. RuntimesAim'
  BY ProcessesAssumption, <1>a, <1>b, <1>c, <1>z, <1>1, <1>2, <1>3, <1>4 DEF RuntimesAim, Begun,
       Unmade, Making, RemovalsAim, disk
<1>9. StopsAim'
  BY ProcessesAssumption, <1>a, <1>b, <1>c, <1>z, <1>1, <1>2, <1>3, <1>4 DEF StopsAim, RuntimesAim,
       RemovalsAim, Begun, Unmade, Making, disk
<1>10. Emptied'
  BY ProcessesAssumption, <1>a, <1>b, <1>c, <1>z, <1>1, <1>2, <1>3, <1>4 DEF Emptied, Writing,
       Alive, Fresh, Unmade, Making, RemovalsAim, RuntimesAim, Begun, disk
<1>11. MarkedWhileItMatters'
  BY ProcessesAssumption, <1>a, <1>b, <1>c, <1>z, <1>1, <1>2, <1>3, <1>4 DEF MarkedWhileItMatters,
       Emptied, Fresh, Writing, Alive, RemovalsAim, Begun, Unmade, Making, disk
<1> QED BY <1>1, <1>2, <1>3, <1>4, <1>5, <1>6, <1>7, <1>8, <1>9, <1>10, <1>11

LEMMA AnsweredKeeps ==
  ASSUME NEW c \in Stops, DirectoryInvariant, Answered(c)
  PROVE  DirectoryInvariant'
<1> USE DEF DirectoryInvariant, DirectoryType, Targets
<1>1. DiskType'
  BY ProcessesAssumption DEF DiskType, Answered, At, Does, StopStays, disk
<1>2. RuntimeType'
  BY ProcessesAssumption, StageNames DEF RuntimeType, Answered, At, Does, StopStays, disk
<1>3. StopType'
  <2> "marking" \in StopStages
    BY DEF StopStages
  <2>1. runtime[stop[c].target].handoff \in Kept
    BY DEF StopsAim, Answered, Does, RuntimeType
  <2> DEFINE h == runtime[stop[c].target].handoff
  <2>2. stop' = [stop EXCEPT ![c].pc = "marking", ![c].answer = h]
    BY DEF Answered
  <2>3. h \in Kept
    BY <2>1
  <2> HIDE DEF h
  <2> QED BY <2>2, <2>3 DEF StopType
<1>4. RemovalType'
  BY ProcessesAssumption, StageNames DEF RemovalType, Answered, At, Does, StopStays, disk
<1>5. Writing'
  BY ProcessesAssumption, <1>1, <1>2, <1>3, <1>4 DEF Writing, Alive, RuntimeType, DiskType,
       Answered, At, Does, StopStays, disk
<1>6. Fresh'
  BY ProcessesAssumption, <1>1, <1>2, <1>3, <1>4 DEF Fresh, Unmade, Making, RuntimeType, DiskType,
       Answered, At, Does, StopStays, disk
<1>7. RemovalsAim'
  BY ProcessesAssumption, <1>1, <1>2, <1>3, <1>4 DEF RemovalsAim, Begun, Unmade, Making,
       RuntimeType, RemovalType, Answered, At, Does, StopStays, disk
<1>8. RuntimesAim'
  BY ProcessesAssumption, <1>1, <1>2, <1>3, <1>4 DEF RuntimesAim, Begun, Unmade, Making,
       RuntimeType, RemovalType, Answered, At, Does, StopStays, disk
<1>9. StopsAim'
  BY ProcessesAssumption, <1>1, <1>2, <1>3, <1>4 DEF StopsAim, RuntimeType, StopType, Answered, At,
       Does, StopStays, disk
<1>10. Emptied'
  BY ProcessesAssumption, <1>1, <1>2, <1>3, <1>4 DEF Emptied, RemovalType, DiskType, Answered, At,
       Does, StopStays, disk
<1>11. MarkedWhileItMatters'
  BY ProcessesAssumption, <1>1, <1>2, <1>3, <1>4 DEF MarkedWhileItMatters, DiskType, Answered, At,
       Does, StopStays, disk
<1> QED BY <1>1, <1>2, <1>3, <1>4, <1>5, <1>6, <1>7, <1>8, <1>9, <1>10, <1>11

LEMMA UnansweredKeeps ==
  ASSUME NEW c \in Stops, DirectoryInvariant, Unanswered(c)
  PROVE  DirectoryInvariant'
<1> USE DEF DirectoryInvariant, DirectoryType, Targets
<1>1. DiskType'
  BY ProcessesAssumption DEF DiskType, Unanswered, Does, disk
<1>2. RuntimeType'
  BY ProcessesAssumption, StageNames DEF RuntimeType, Unanswered, Does, disk
<1>3. StopType'
  BY ProcessesAssumption, StageNames DEF StopType, Unanswered, Does, disk
<1>4. RemovalType'
  BY ProcessesAssumption, StageNames DEF RemovalType, Unanswered, Does, disk
<1>5. Writing'
  BY ProcessesAssumption, <1>1, <1>2, <1>3, <1>4 DEF Writing, Alive, RuntimeType, DiskType,
       Unanswered, Does, disk
<1>6. Fresh'
  BY ProcessesAssumption, <1>1, <1>2, <1>3, <1>4 DEF Fresh, Unmade, Making, RuntimeType, DiskType,
       Unanswered, Does, disk
<1>7. RemovalsAim'
  BY ProcessesAssumption, <1>1, <1>2, <1>3, <1>4 DEF RemovalsAim, Begun, Unmade, Making,
       RuntimeType, RemovalType, Unanswered, Does, disk
<1>8. RuntimesAim'
  BY ProcessesAssumption, <1>1, <1>2, <1>3, <1>4 DEF RuntimesAim, Begun, Unmade, Making,
       RuntimeType, RemovalType, Unanswered, Does, disk
<1>9. StopsAim'
  BY ProcessesAssumption, <1>1, <1>2, <1>3, <1>4 DEF StopsAim, RuntimeType, StopType, Unanswered,
       Does, disk
<1>10. Emptied'
  BY ProcessesAssumption, <1>1, <1>2, <1>3, <1>4 DEF Emptied, RemovalType, DiskType, Unanswered,
       Does, disk
<1>11. MarkedWhileItMatters'
  BY ProcessesAssumption, <1>1, <1>2, <1>3, <1>4 DEF MarkedWhileItMatters, DiskType, Unanswered,
       Does, disk
<1> QED BY <1>1, <1>2, <1>3, <1>4, <1>5, <1>6, <1>7, <1>8, <1>9, <1>10, <1>11

LEMMA MarkKeeps ==
  ASSUME NEW c \in Stops, DirectoryInvariant, Mark(c)
  PROVE  DirectoryInvariant'
<1> USE DEF DirectoryInvariant, DirectoryType, Targets
<1>1. DiskType'
  BY ProcessesAssumption DEF DiskType, Mark, Begin, NoRemoval, Does, StopStays, disk
<1>2. RuntimeType'
  BY ProcessesAssumption, StageNames DEF RuntimeType, Mark, Begin, NoRemoval, Does, StopStays, disk
<1>3. StopType'
  BY ProcessesAssumption, StageNames DEF StopType, Mark, Begin, NoRemoval, Does, StopStays, disk
<1>4. RemovalType'
  <2> "look" \in RemovalStages
    BY DEF RemovalStages
  <2>1. stop[c].target \in Sessions \cup {None}
    BY DEF StopType
  <2> QED BY <2>1, BeginTyped DEF Mark
<1>5. Writing'
  BY ProcessesAssumption, <1>1, <1>2, <1>3, <1>4 DEF Writing, Alive, RuntimeType, DiskType, Mark,
       Begin, NoRemoval, Does, StopStays, disk
<1>6. Fresh'
  BY ProcessesAssumption, <1>1, <1>2, <1>3, <1>4 DEF Fresh, Unmade, Making, RuntimeType, DiskType,
       Mark, Begin, NoRemoval, Does, StopStays, disk
<1>7. RemovalsAim'
  BY ProcessesAssumption, <1>1, <1>2, <1>3, <1>4 DEF RemovalsAim, Begun, Unmade, Making,
       RuntimeType, RemovalType, RuntimesAim, Fresh, StopsAim, StopType, Mark, Begin, NoRemoval,
       Does, StopStays, disk
<1>8. RuntimesAim'
  BY ProcessesAssumption, <1>1, <1>2, <1>3, <1>4 DEF RuntimesAim, Begun, Unmade, Making,
       RuntimeType, RemovalType, Mark, Begin, NoRemoval, Does, StopStays, disk
<1>9. StopsAim'
  BY ProcessesAssumption, <1>1, <1>2, <1>3, <1>4 DEF StopsAim, RuntimeType, StopType, Mark, Begin,
       NoRemoval, Does, StopStays, disk
<1>10. Emptied'
  BY ProcessesAssumption, <1>1, <1>2, <1>3, <1>4 DEF Emptied, RemovalType, DiskType, Mark, Begin,
       NoRemoval, Does, StopStays, disk
<1>11. MarkedWhileItMatters'
  BY ProcessesAssumption, <1>1, <1>2, <1>3, <1>4 DEF MarkedWhileItMatters, DiskType, Mark, Begin,
       NoRemoval, Does, StopStays, disk
<1> QED BY <1>1, <1>2, <1>3, <1>4, <1>5, <1>6, <1>7, <1>8, <1>9, <1>10, <1>11

LEMMA StoppedKeeps ==
  ASSUME NEW c \in Stops, DirectoryInvariant, Stopped(c)
  PROVE  DirectoryInvariant'
<1> USE DEF DirectoryInvariant, DirectoryType, Targets
<1>1. DiskType'
  BY ProcessesAssumption DEF DiskType, Stopped, Ended, Over, NoRemoval, Removing, Does, StopStays,
       disk
<1>2. RuntimeType'
  BY ProcessesAssumption, StageNames DEF RuntimeType, Stopped, Ended, Over, NoRemoval, Removing,
       Does, StopStays, disk
<1>3. StopType'
  <2> "over" \in StopStages /\ "handed" \in Results
    BY DEF StopStages, Results
  <2> QED BY DEF StopType, Stopped, Over
<1>4. RemovalType'
  BY ProcessesAssumption, StageNames DEF RemovalType, Stopped, Ended, Over, NoRemoval, Removing,
       Does, StopStays, disk
<1>5. Writing'
  BY ProcessesAssumption, <1>1, <1>2, <1>3, <1>4 DEF Writing, Alive, RuntimeType, DiskType,
       Stopped, Ended, Over, NoRemoval, Removing, Does, StopStays, disk
<1>6. Fresh'
  BY ProcessesAssumption, <1>1, <1>2, <1>3, <1>4 DEF Fresh, Unmade, Making, RuntimeType, DiskType,
       Stopped, Ended, Over, NoRemoval, Removing, Does, StopStays, disk
<1>7. RemovalsAim'
  BY ProcessesAssumption, <1>1, <1>2, <1>3, <1>4 DEF RemovalsAim, Begun, Unmade, Making,
       RuntimeType, RemovalType, Stopped, Ended, Over, NoRemoval, Removing, Does, StopStays, disk
<1>8. RuntimesAim'
  BY ProcessesAssumption, <1>1, <1>2, <1>3, <1>4 DEF RuntimesAim, Begun, Unmade, Making,
       RuntimeType, RemovalType, Stopped, Ended, Over, NoRemoval, Removing, Does, StopStays, disk
<1>9. StopsAim'
  BY ProcessesAssumption, <1>1, <1>2, <1>3, <1>4 DEF StopsAim, RuntimeType, StopType, Stopped,
       Ended, Over, NoRemoval, Removing, Does, StopStays, disk
<1>10. Emptied'
  BY ProcessesAssumption, <1>1, <1>2, <1>3, <1>4 DEF Emptied, RemovalType, DiskType, Stopped,
       Ended, Over, NoRemoval, Removing, Does, StopStays, disk
<1>11. MarkedWhileItMatters'
  BY ProcessesAssumption, <1>1, <1>2, <1>3, <1>4 DEF MarkedWhileItMatters, DiskType, Stopped,
       Ended, Over, NoRemoval, Removing, Does, StopStays, disk
<1> QED BY <1>1, <1>2, <1>3, <1>4, <1>5, <1>6, <1>7, <1>8, <1>9, <1>10, <1>11

LEMMA StopFailsKeeps ==
  ASSUME NEW c \in Stops, DirectoryInvariant, StopFails(c)
  PROVE  DirectoryInvariant'
<1> USE DEF DirectoryInvariant, DirectoryType, Targets
<1>1. DiskType'
  BY ProcessesAssumption DEF DiskType, StopFails, Ended, Over, NoRemoval, Removing, Does,
       StopStays, disk
<1>2. RuntimeType'
  BY ProcessesAssumption, StageNames DEF RuntimeType, StopFails, Ended, Over, NoRemoval, Removing,
       Does, StopStays, disk
<1>3. StopType'
  <2> "over" \in StopStages /\ "refused" \in Results
    BY DEF StopStages, Results
  <2> QED BY DEF StopType, StopFails, Over
<1>4. RemovalType'
  BY ProcessesAssumption, StageNames DEF RemovalType, StopFails, Ended, Over, NoRemoval, Removing,
       Does, StopStays, disk
<1>5. Writing'
  BY ProcessesAssumption, <1>1, <1>2, <1>3, <1>4 DEF Writing, Alive, RuntimeType, DiskType,
       StopFails, Ended, Over, NoRemoval, Removing, Does, StopStays, disk
<1>6. Fresh'
  BY ProcessesAssumption, <1>1, <1>2, <1>3, <1>4 DEF Fresh, Unmade, Making, RuntimeType, DiskType,
       StopFails, Ended, Over, NoRemoval, Removing, Does, StopStays, disk
<1>7. RemovalsAim'
  BY ProcessesAssumption, <1>1, <1>2, <1>3, <1>4 DEF RemovalsAim, Begun, Unmade, Making,
       RuntimeType, RemovalType, StopFails, Ended, Over, NoRemoval, Removing, Does, StopStays, disk
<1>8. RuntimesAim'
  BY ProcessesAssumption, <1>1, <1>2, <1>3, <1>4 DEF RuntimesAim, Begun, Unmade, Making,
       RuntimeType, RemovalType, StopFails, Ended, Over, NoRemoval, Removing, Does, StopStays, disk
<1>9. StopsAim'
  BY ProcessesAssumption, <1>1, <1>2, <1>3, <1>4 DEF StopsAim, RuntimeType, StopType, StopFails,
       Ended, Over, NoRemoval, Removing, Does, StopStays, disk
<1>10. Emptied'
  BY ProcessesAssumption, <1>1, <1>2, <1>3, <1>4 DEF Emptied, RemovalType, DiskType, StopFails,
       Ended, Over, NoRemoval, Removing, Does, StopStays, disk
<1>11. MarkedWhileItMatters'
  BY ProcessesAssumption, <1>1, <1>2, <1>3, <1>4 DEF MarkedWhileItMatters, DiskType, StopFails,
       Ended, Over, NoRemoval, Removing, Does, StopStays, disk
<1> QED BY <1>1, <1>2, <1>3, <1>4, <1>5, <1>6, <1>7, <1>8, <1>9, <1>10, <1>11

LEMMA KillStopKeeps ==
  ASSUME NEW c \in Stops, DirectoryInvariant, KillStop(c)
  PROVE  DirectoryInvariant'
<1> USE DEF DirectoryInvariant, DirectoryType, Targets
<1>1. DiskType'
  BY ProcessesAssumption DEF DiskType, KillStop, Killed, Over, NoRemoval, disk
<1>2. RuntimeType'
  BY ProcessesAssumption, StageNames DEF RuntimeType, KillStop, Killed, Over, NoRemoval, disk
<1>3. StopType'
  <2> "over" \in StopStages /\ "killed" \in Results
    BY DEF StopStages, Results
  <2> QED BY DEF StopType, KillStop, Over
<1>4. RemovalType'
  BY ProcessesAssumption, StageNames DEF RemovalType, KillStop, Killed, Over, NoRemoval, disk
<1>5. Writing'
  BY ProcessesAssumption, <1>1, <1>2, <1>3, <1>4 DEF Writing, Alive, RuntimeType, DiskType,
       KillStop, Killed, Over, NoRemoval, disk
<1>6. Fresh'
  BY ProcessesAssumption, <1>1, <1>2, <1>3, <1>4 DEF Fresh, Unmade, Making, RuntimeType, DiskType,
       KillStop, Killed, Over, NoRemoval, disk
<1>7. RemovalsAim'
  BY ProcessesAssumption, <1>1, <1>2, <1>3, <1>4 DEF RemovalsAim, Begun, Unmade, Making,
       RuntimeType, RemovalType, KillStop, Killed, Over, NoRemoval, disk
<1>8. RuntimesAim'
  BY ProcessesAssumption, <1>1, <1>2, <1>3, <1>4 DEF RuntimesAim, Begun, Unmade, Making,
       RuntimeType, RemovalType, KillStop, Killed, Over, NoRemoval, disk
<1>9. StopsAim'
  BY ProcessesAssumption, <1>1, <1>2, <1>3, <1>4 DEF StopsAim, RuntimeType, StopType, KillStop,
       Killed, Over, NoRemoval, disk
<1>10. Emptied'
  BY ProcessesAssumption, <1>1, <1>2, <1>3, <1>4 DEF Emptied, RemovalType, DiskType, KillStop,
       Killed, Over, NoRemoval, disk
<1>11. MarkedWhileItMatters'
  BY ProcessesAssumption, <1>1, <1>2, <1>3, <1>4 DEF MarkedWhileItMatters, DiskType, KillStop,
       Killed, Over, NoRemoval, disk
<1> QED BY <1>1, <1>2, <1>3, <1>4, <1>5, <1>6, <1>7, <1>8, <1>9, <1>10, <1>11

-----------------------------------------------------------------------------
LEMMA GrowStaleKeeps ==
  ASSUME DirectoryInvariant, GrowStale
  PROVE  DirectoryInvariant'
<1> USE DEF DirectoryInvariant, DirectoryType, Targets, GrowStale, disk
<1>1. DirectoryType'
  BY DEF DiskType, RuntimeType, StopType, RemovalType
<1>2. Writing' /\ Emptied' /\ MarkedWhileItMatters'
  BY DEF Writing, Alive, Emptied, MarkedWhileItMatters
<1>3. Fresh'
  BY DEF Fresh, Making
<1>4. Targets'
  BY DEF RemovalsAim, RuntimesAim, StopsAim, Begun
<1> QED BY <1>1, <1>2, <1>3, <1>4

LEMMA Idles ==
  ASSUME DirectoryInvariant, UNCHANGED vars
  PROVE  DirectoryInvariant'
<1> USE DEF DirectoryInvariant, DirectoryType, Targets, vars, disk
<1>1. DirectoryType'
  BY DEF DiskType, RuntimeType, StopType, RemovalType
<1>2. Writing' /\ Fresh' /\ Emptied' /\ MarkedWhileItMatters'
  BY DEF Writing, Alive, Fresh, Emptied, MarkedWhileItMatters
<1>3. Targets'
  BY DEF RemovalsAim, RuntimesAim, StopsAim, Begun
<1> QED BY <1>1, <1>2, <1>3

LEMMA NothingYet == Init => DirectoryInvariant
<1> SUFFICES ASSUME Init PROVE DirectoryInvariant
  OBVIOUS
<1> USE DEF Init, NoRemoval
<1>1. DiskType
  BY DEF DiskType
<1>2. RuntimeType
  BY DEF RuntimeType, RuntimeStages, Kept
<1>3. StopType
  BY DEF StopType, StopStages, Kept, Results
<1>4. RemovalType
  BY DEF RemovalType, RemovalStages, Kept
<1>5. \A s \in Sessions : /\ runtime[s].pc \in {"none", "refused"} /\ runtime[s].appending = None
                          /\ runtime[s].stale = {} /\ runtime[s].published = FALSE
  OBVIOUS
<1>6. Writing /\ Fresh
  BY <1>5 DEF Writing, Fresh, Unmade, Making
<1>7. Targets
  BY <1>5 DEF Targets, RemovalsAim, RuntimesAim, StopsAim
<1>8. Emptied /\ MarkedWhileItMatters
  BY DEF Emptied, MarkedWhileItMatters
<1> QED BY <1>1, <1>2, <1>3, <1>4, <1>6, <1>7, <1>8 DEF DirectoryInvariant, DirectoryType

(***************************************************************************)
(* Every step of every process keeps it.                                   *)
(***************************************************************************)
LEMMA StepsKeep ==
  ASSUME DirectoryInvariant, [Next]_vars
  PROVE  DirectoryInvariant'
<1>1. ASSUME NEW p \in Sessions \cup Stops, Remove(p) PROVE DirectoryInvariant'
  BY <1>1, LookKeeps, AuthoriseKeeps, RecoverKeeps, ListKeeps, DeleteOthersKeeps,
     DeleteJournalKeeps, DeleteMarkerKeeps, DeleteRootKeeps, DeleteFailsKeeps DEF Remove
<1>2. ASSUME NEW s \in Sessions, RuntimeStep(s) PROVE DirectoryInvariant'
  BY <1>2, StartKeeps, PruneKeeps, PrunedKeeps, PruneFailsKeeps, MakeRootKeeps, WriteMarkerKeeps,
     WriteJournalKeeps, CreationFailsKeeps, PublishKeeps, AbandonKeeps, AbandonedKeeps, RespondKeeps,
     AppendKeeps, InterruptKeeps, CloseRecordKeeps, TerminateKeeps, CloseKeeps, CloseFailsKeeps
     DEF RuntimeStep
<1>3. ASSUME NEW c \in Stops, StopStep(c) PROVE DirectoryInvariant'
  BY <1>3, ReadDescriptorKeeps, RecoverFirstKeeps, AskKeeps, AnsweredKeeps, UnansweredKeeps,
     MarkKeeps, StoppedKeeps, StopFailsKeeps DEF StopStep
<1>4. ASSUME NEW s \in Sessions, KillRuntime(s) PROVE DirectoryInvariant'
  BY <1>4, KillRuntimeKeeps
<1>5. ASSUME NEW c \in Stops, KillStop(c) PROVE DirectoryInvariant'
  BY <1>5, KillStopKeeps
<1>6. CASE GrowStale
  BY <1>6, GrowStaleKeeps
<1>7. CASE UNCHANGED vars
  BY <1>7, Idles
<1> QED BY <1>1, <1>2, <1>3, <1>4, <1>5, <1>6, <1>7 DEF Next

(***************************************************************************)
(* A directory that still holds a journal or a descriptor is marked, so a  *)
(* later stop or prune agrees to remove it: whoever removes it, however    *)
(* many at once, and wherever they were killed (removeSessionDirectory).   *)
(***************************************************************************)
THEOREM MarksCorrect == Spec => []MarkedWhileItMatters
<1>1. DirectoryInvariant => MarkedWhileItMatters
  BY DEF DirectoryInvariant
<1> QED BY <1>1, NothingYet, StepsKeep, PTL DEF Spec

-----------------------------------------------------------------------------
(***************************************************************************)
(* What a stop hands over.  A directory is emptied by taking its root, and *)
(* what is done removing it finds nothing (Rooted); a record is accepted   *)
(* into the journal that is there (Journaled); a handoff is taken when     *)
(* nothing more is written (HandoffsWhole); so what a stop was told stays  *)
(* true (StopsKnow).                                                       *)
(***************************************************************************)
Rooted ==
  /\ \A s \in Sessions :
       /\ files[s] # {} => "root" \in files[s]
       /\ runtime[s].pc \in Making => "root" \in files[s]
  /\ \A p \in Sessions \cup Stops : removal[p].pc = "done" => files[removal[p].target] = {}

Journaled ==
  /\ accepted \in [Sessions -> SUBSET {"handoff", "end"}]
  /\ \A s \in Sessions \ undercut : accepted[s] \subseteq journal[s]

Late == {"ending", "closing", "broken", "removing", "closed", "crashed"}

\* A handoff, taken or recovered by the removal, has everything accepted.
Whole(s) ==
  /\ runtime[s].handoff # None =>
       /\ runtime[s].pc \in Late /\ runtime[s].appending = None
       /\ s \notin undercut => accepted[s] \subseteq runtime[s].handoff
  /\ runtime[s].pc = "removing" =>
       /\ removal[s].target = s
       /\ removal[s].handoff # None /\ s \notin undercut =>
            accepted[s] \subseteq removal[s].handoff

HandoffsWhole == \A s \in Sessions : Whole(s)

Knows(c) ==
  /\ stop[c].pc = "removing" => removal[c].target = stop[c].target
  /\ stop[c].result \in {"handed", "stopped"} =>
       /\ stop[c].target \in Sessions /\ Begun(stop[c].target)
       /\ files[stop[c].target] = {}
  /\ stop[c].answer # None =>
       /\ stop[c].pc # "idle" /\ stop[c].target \in Sessions
       /\ runtime[stop[c].target].pc = "closed"
       /\ stop[c].answer = runtime[stop[c].target].handoff

StopsKnow == \A c \in Stops : Knows(c)

HandoverInvariant == Rooted /\ Journaled /\ HandoffsWhole /\ StopsKnow

\* Four kinds of step.  A removal takes things out of one directory.
RemovalMoves(p) ==
  LET t == removal[p].target
  IN  /\ UNCHANGED <<runtime, stop, journal, accepted>> /\ undercut \subseteq undercut'
      /\ \A q \in Sessions \cup Stops : q # p => removal'[q] = removal[q]
      /\ removal'[p].target = t
      /\ \A s \in Sessions :
           \/ files'[s] = {}
           \/ files'[s] \subseteq files[s] /\ ("root" \in files[s] => "root" \in files'[s])
      /\ \A s \in Sessions : s # t => files'[s] = files[s]
      /\ removal'[p].pc = "done" => files'[t] = {}
      /\ removal'[p].handoff \in {None, removal[p].handoff, journal[t]}
      /\ t \in Sessions /\ Begun(t)

\* A runtime writes in its own directory.
RuntimeWrites(s) ==
  /\ UNCHANGED <<undercut, stop, removal>>
  /\ \A t \in Sessions : t # s => /\ files'[t] = files[t] /\ runtime'[t] = runtime[t]
                                  /\ accepted'[t] = accepted[t] /\ journal'[t] = journal[t]
  /\ files'[s] # {} => "root" \in files'[s]
  /\ runtime'[s].pc \in Making => "root" \in files'[s]
  /\ Begun(s) => Begun(s)' /\ (files[s] = {} => files'[s] = {})
  /\ accepted' \in [Sessions -> SUBSET {"handoff", "end"}]
  /\ s \notin undercut => accepted'[s] \subseteq journal'[s]
  /\ runtime'[s].handoff = None
  /\ runtime'[s].pc # "removing" /\ runtime[s].pc # "closed"

\* A runtime goes on and writes nothing.
RuntimeMoves(s) ==
  /\ UNCHANGED <<files, journal, accepted, undercut>>
  /\ \A t \in Sessions : t # s => runtime'[t] = runtime[t]
  /\ runtime[s].pc # "closed"
  /\ Begun(s) => Begun(s)'
  /\ runtime'[s].pc \in Making => runtime[s].pc \in Making
  /\ Whole(s)'
  /\ \A q \in Sessions \cup Stops : q # s => removal'[q] = removal[q]
  /\ removal'[s].pc # "done" \/ removal'[s] = removal[s]
  /\ \A c \in Stops :
       /\ stop'[c].target = stop[c].target /\ stop'[c].answer = stop[c].answer
       /\ stop'[c].pc \in {stop[c].pc, "over"} /\ stop'[c].result \in {stop[c].result, "refused"}

\* A stop goes on, and has a runtime end perhaps.
StopMoves(c) ==
  /\ UNCHANGED <<files, journal, accepted, undercut>>
  /\ \A t \in Sessions :
       /\ runtime'[t].handoff = runtime[t].handoff
       /\ runtime'[t].appending = runtime[t].appending
       /\ \/ runtime'[t].pc = runtime[t].pc
          \/ runtime[t].pc \in {"serving", "broken"} /\ runtime'[t].pc = "ending"
  /\ \A q \in Sessions \cup Stops : q # c => removal'[q] = removal[q]
  /\ \A d \in Stops : d # c => stop'[d] = stop[d]
  /\ removal'[c].pc # "done" \/ removal'[c] = removal[c]
  /\ Knows(c)'

LEMMA RemovalsHandOver ==
  ASSUME DirectoryInvariant, HandoverInvariant, NEW p \in Sessions \cup Stops, RemovalMoves(p)
  PROVE  HandoverInvariant'
<1> USE DEF HandoverInvariant
<1>1. Rooted'
  <2>1. \A s \in Sessions : /\ files'[s] # {} => "root" \in files'[s]
                            /\ files[s] = {} => files'[s] = {}
    BY DEF RemovalMoves, Rooted
  <2>2. \A s \in Sessions : runtime[s].pc \in Making => files'[s] = files[s]
    BY DEF RemovalMoves, Begun
  <2>3. \A q \in Sessions \cup Stops : removal'[q].pc = "done" => files'[removal'[q].target] = {}
    <3> SUFFICES ASSUME NEW q \in Sessions \cup Stops, removal'[q].pc = "done"
                 PROVE  files'[removal'[q].target] = {}
      OBVIOUS
    <3>1. CASE q = p
      BY <3>1 DEF RemovalMoves
    <3>2. CASE q # p
      <4>1. removal'[q] = removal[q] /\ files[removal[q].target] = {}
        BY <3>2 DEF RemovalMoves, Rooted
      <4>2. removal[q].target \in Sessions
        BY <4>1 DEF DirectoryInvariant, Targets, RemovalsAim
      <4> QED BY <4>1, <4>2, <2>1
    <3> QED BY <3>1, <3>2
  <2> QED BY <2>1, <2>2, <2>3 DEF Rooted, RemovalMoves
<1>2. Journaled'
  BY DEF Journaled, RemovalMoves
<1>3. HandoffsWhole'
  <2> SUFFICES ASSUME NEW s \in Sessions PROVE Whole(s)'
    BY DEF HandoffsWhole
  <2>1. Whole(s) /\ (s \notin undercut => accepted[s] \subseteq journal[s])
    BY DEF HandoffsWhole, Journaled
  <2>2. CASE s # p
    BY <2>1, <2>2 DEF Whole, RemovalMoves
  <2>3. CASE s = p
    BY <2>1, <2>3 DEF Whole, RemovalMoves
  <2> QED BY <2>2, <2>3
<1>4. StopsKnow'
  <2> SUFFICES ASSUME NEW c \in Stops PROVE Knows(c)'
    BY DEF StopsKnow
  <2>1. Knows(c)
    BY DEF StopsKnow
  <2>2. removal'[c].target = removal[c].target
    BY DEF RemovalMoves
  <2>3. \A s \in Sessions : files[s] = {} => files'[s] = {}
    BY DEF RemovalMoves, Rooted
  <2>4. UNCHANGED <<runtime, stop>>
    BY DEF RemovalMoves
  <2> QED BY <2>1, <2>2, <2>3, <2>4 DEF Knows, Begun
<1> QED BY <1>1, <1>2, <1>3, <1>4

LEMMA WritesHandOver ==
  ASSUME DirectoryInvariant, HandoverInvariant, NEW s \in Sessions, RuntimeWrites(s)
  PROVE  HandoverInvariant'
<1> USE DEF HandoverInvariant
<1>1. \A t \in Sessions : Begun(t) => Begun(t)' /\ (files[t] = {} => files'[t] = {})
  BY DEF RuntimeWrites, Begun
<1>2. Rooted'
  <2>1. \A t \in Sessions : /\ files'[t] # {} => "root" \in files'[t]
                            /\ runtime'[t].pc \in Making => "root" \in files'[t]
    BY DEF RuntimeWrites, Rooted
  <2>2. \A q \in Sessions \cup Stops : removal[q].pc = "done" => files'[removal[q].target] = {}
    BY <1>1 DEF Rooted, DirectoryInvariant, Targets, RemovalsAim
  <2> QED BY <2>1, <2>2 DEF Rooted, RuntimeWrites
<1>3. Journaled'
  BY DEF Journaled, RuntimeWrites
<1>4. HandoffsWhole'
  <2> SUFFICES ASSUME NEW t \in Sessions PROVE Whole(t)'
    BY DEF HandoffsWhole
  <2>1. Whole(t)
    BY DEF HandoffsWhole
  <2>2. CASE t = s
    BY <2>2 DEF Whole, RuntimeWrites
  <2>3. CASE t # s
    BY <2>1, <2>3 DEF Whole, RuntimeWrites
  <2> QED BY <2>2, <2>3
<1>5. StopsKnow'
  <2> SUFFICES ASSUME NEW c \in Stops PROVE Knows(c)'
    BY DEF StopsKnow
  <2>1. Knows(c)
    BY DEF StopsKnow
  <2>2. UNCHANGED <<stop, removal>>
    BY DEF RuntimeWrites
  <2>3. \A t \in Sessions : runtime[t].pc = "closed" => runtime'[t] = runtime[t]
    BY DEF RuntimeWrites
  <2> QED BY <1>1, <2>1, <2>2, <2>3 DEF Knows
<1> QED BY <1>2, <1>3, <1>4, <1>5

LEMMA RuntimesHandOver ==
  ASSUME DirectoryInvariant, HandoverInvariant, NEW s \in Sessions, RuntimeMoves(s)
  PROVE  HandoverInvariant'
<1> USE DEF HandoverInvariant
<1>1. Rooted'
  <2>1. \A t \in Sessions : runtime'[t].pc \in Making => runtime[t].pc \in Making
    BY DEF RuntimeMoves
  <2>2. \A q \in Sessions \cup Stops : removal'[q].pc = "done" => removal'[q] = removal[q]
    BY DEF RuntimeMoves
  <2>3. UNCHANGED files
    BY DEF RuntimeMoves
  <2> QED BY <2>1, <2>2, <2>3 DEF Rooted
<1>2. Journaled'
  BY DEF Journaled, RuntimeMoves
<1>3. HandoffsWhole'
  <2> SUFFICES ASSUME NEW t \in Sessions PROVE Whole(t)'
    BY DEF HandoffsWhole
  <2>1. Whole(t)
    BY DEF HandoffsWhole
  <2>2. CASE t = s
    BY <2>2 DEF RuntimeMoves
  <2>3. CASE t # s
    BY <2>1, <2>3 DEF Whole, RuntimeMoves
  <2> QED BY <2>2, <2>3
<1>4. StopsKnow'
  <2> SUFFICES ASSUME NEW c \in Stops PROVE Knows(c)'
    BY DEF StopsKnow
  <2>1. Knows(c)
    BY DEF StopsKnow
  <2>2. removal'[c] = removal[c]
    BY ProcessesAssumption DEF RuntimeMoves
  <2>3. \A t \in Sessions : /\ runtime[t].pc = "closed" => runtime'[t] = runtime[t]
                            /\ Begun(t) => Begun(t)'
    BY DEF RuntimeMoves, Begun
  <2>4. /\ stop'[c].target = stop[c].target /\ stop'[c].answer = stop[c].answer
        /\ stop'[c].pc \in {stop[c].pc, "over"} /\ stop'[c].result \in {stop[c].result, "refused"}
        /\ UNCHANGED files
    BY DEF RuntimeMoves
  <2> QED BY <2>1, <2>2, <2>3, <2>4 DEF Knows
<1> QED BY <1>1, <1>2, <1>3, <1>4

LEMMA StopsHandOverSteps ==
  ASSUME DirectoryInvariant, HandoverInvariant, NEW c \in Stops, StopMoves(c)
  PROVE  HandoverInvariant'
<1> USE DEF HandoverInvariant
<1>1. \A t \in Sessions : /\ Begun(t) => Begun(t)'
                          /\ runtime'[t].pc \in Making => runtime[t].pc \in Making
                          /\ runtime[t].pc = "closed" => runtime'[t].pc = "closed"
                          /\ runtime'[t].pc = "removing" => runtime[t].pc = "removing"
                          /\ runtime[t].pc \in Late => runtime'[t].pc \in Late
                          /\ runtime'[t].handoff = runtime[t].handoff
                          /\ runtime'[t].appending = runtime[t].appending
  BY DEF StopMoves, Begun, Unmade, Making, Late
<1>2. UNCHANGED <<files, journal, accepted, undercut>>
  BY DEF StopMoves
<1>3. Rooted'
  <2>1. \A q \in Sessions \cup Stops : removal'[q].pc = "done" => removal'[q] = removal[q]
    BY DEF StopMoves
  <2> QED BY <1>1, <1>2, <2>1 DEF Rooted
<1>4. Journaled'
  BY <1>2 DEF Journaled
<1>5. HandoffsWhole'
  <2>1. \A s \in Sessions : removal'[s] = removal[s]
    BY ProcessesAssumption DEF StopMoves
  <2> QED BY <1>1, <1>2, <2>1 DEF HandoffsWhole, Whole
<1>6. StopsKnow'
  <2> SUFFICES ASSUME NEW d \in Stops PROVE Knows(d)'
    BY DEF StopsKnow
  <2>1. Knows(d)
    BY DEF StopsKnow
  <2>2. CASE d = c
    BY <2>2 DEF StopMoves
  <2>3. CASE d # c
    <3>1. stop'[d] = stop[d] /\ removal'[d] = removal[d]
      BY <2>3 DEF StopMoves
    <3> QED BY <1>1, <1>2, <2>1, <3>1 DEF Knows
  <2> QED BY <2>2, <2>3
<1> QED BY <1>3, <1>4, <1>5, <1>6

LEMMA RemovalSteps ==
  ASSUME DirectoryInvariant, HandoverInvariant, NEW p \in Sessions \cup Stops, Remove(p)
  PROVE  RemovalMoves(p)
<1> DEFINE t == removal[p].target
<1>1. removal[p].pc # "idle"
  BY DEF Remove, Look, Authorise, Recover, List, DeleteOthers, DeleteJournal, DeleteMarker,
         DeleteRoot, Delete, DeleteFails, Removing
<1>2. t \in Sessions /\ Begun(t)
  BY <1>1 DEF DirectoryInvariant, Targets, RemovalsAim
<1>3. UNCHANGED <<runtime, stop, journal, accepted>> /\ undercut \subseteq undercut'
  BY DEF Remove, Look, Authorise, Recover, List, DeleteOthers, DeleteJournal, DeleteMarker,
         DeleteRoot, Delete, DeleteFails, disk
<1>4. /\ DOMAIN removal = Sessions \cup Stops
      /\ removal[p] \in [pc : RemovalStages, target : Sessions \cup {None}, listed : BOOLEAN,
                         handoff : Kept]
      /\ files \in [Sessions -> SUBSET Entries]
  BY DEF DirectoryInvariant, DirectoryType, RemovalType, DiskType
<1>5. \A s \in Sessions : files[s] # {} => "root" \in files[s]
  BY DEF HandoverInvariant, Rooted
<1>6. ASSUME UNCHANGED disk, NEW pc, Advance(p, pc), pc = "done" => files[t] = {}
      PROVE  RemovalMoves(p)
  BY <1>2, <1>3, <1>4, <1>6 DEF RemovalMoves, Advance, disk
<1>7. ASSUME NEW entries, NEW pc, Take(t, entries), Advance(p, pc),
             \/ "root" \notin entries /\ pc # "done"
             \/ entries = Entries
      PROVE  RemovalMoves(p)
  <2>1. files' = [files EXCEPT ![t] = @ \ entries]
    BY <1>7 DEF Take
  <2>2. /\ \A q \in Sessions \cup Stops : q # p => removal'[q] = removal[q]
        /\ removal'[p].target = t /\ removal'[p].handoff = removal[p].handoff
        /\ removal'[p].pc = pc
    BY <1>4, <1>7 DEF Advance
  <2>3. /\ \A s \in Sessions : s # t => files'[s] = files[s]
        /\ files'[t] = files[t] \ entries
    BY <1>2, <1>4, <2>1
  <2>4. files'[t] = {} \/ ("root" \notin entries /\ pc # "done")
    BY <1>2, <1>4, <1>7, <2>3
  <2> HIDE DEF t
  <2>5. \A s \in Sessions : \/ files'[s] = {}
                            \/ files'[s] \subseteq files[s]
                               /\ ("root" \in files[s] => "root" \in files'[s])
    BY <2>3, <2>4
  <2> QED BY <1>2, <1>3, <2>2, <2>3, <2>4, <2>5 DEF RemovalMoves, t
<1>8. CASE Look(p)
  <2>1. UNCHANGED disk /\ Advance(p, IF "root" \in files[t] THEN "authorise" ELSE "done")
    BY <1>8 DEF Look
  <2> QED BY <1>2, <1>5, <1>6, <2>1
<1>9. CASE Authorise(p)
  <2>1. UNCHANGED disk /\ \E pc \in {"failed", "recover", "list"} : Advance(p, pc)
    BY <1>9 DEF Authorise
  <2> QED BY <1>6, <2>1
<1>10. CASE Recover(p)
  <2>1. PICK handoff, pc : /\ handoff = Recovered(t)
                           /\ pc = (IF handoff = None THEN "failed" ELSE "list")
                           /\ removal' = [removal EXCEPT ![p].handoff = handoff, ![p].pc = pc]
                           /\ UNCHANGED disk
    BY <1>10 DEF Recover
  <2>2. handoff \in {None, journal[t]} /\ pc # "done"
    BY <2>1 DEF Recovered
  <2>3. /\ \A q \in Sessions \cup Stops : q # p => removal'[q] = removal[q]
        /\ removal'[p].target = t /\ removal'[p].handoff = handoff
        /\ removal'[p].pc = pc
    BY <1>4, <2>1
  <2> HIDE DEF t
  <2> QED BY <1>2, <1>3, <2>1, <2>2, <2>3 DEF RemovalMoves, disk, t
<1>11. CASE List(p)
  <2>1. PICK listed, pc : /\ pc = (IF "root" \in files[t] THEN "others" ELSE "done")
                          /\ removal' = [removal EXCEPT ![p].listed = listed, ![p].pc = pc]
                          /\ UNCHANGED disk
    BY <1>11 DEF List
  <2>2. pc = "done" => files[t] = {}
    BY <1>2, <1>5, <2>1
  <2>3. /\ \A q \in Sessions \cup Stops : q # p => removal'[q] = removal[q]
        /\ removal'[p].target = t /\ removal'[p].handoff = removal[p].handoff
        /\ removal'[p].pc = pc
    BY <1>4, <2>1
  <2> HIDE DEF t
  <2> QED BY <1>2, <1>3, <2>1, <2>2, <2>3 DEF RemovalMoves, disk, t
<1>12. CASE DeleteOthers(p)
  <2>1. PICK entries : /\ entries = (IF removal[p].listed THEN {"descriptor"} ELSE {})
                       /\ Take(t, entries) /\ Advance(p, "journal")
    BY <1>12 DEF DeleteOthers, Delete
  <2> QED BY <1>7, <2>1
<1>13. CASE DeleteJournal(p)
  <2>1. Take(t, {"journal"}) /\ Advance(p, "marker")
    BY <1>13 DEF DeleteJournal, Delete
  <2> QED BY <1>7, <2>1
<1>14. CASE DeleteMarker(p)
  <2>1. Take(t, {"marker"}) /\ Advance(p, "root")
    BY <1>14 DEF DeleteMarker, Delete
  <2> QED BY <1>7, <2>1
<1>15. CASE DeleteRoot(p)
  <2>1. Take(t, Entries) /\ Advance(p, "done")
    BY <1>15 DEF DeleteRoot, Delete
  <2> QED BY <1>7, <2>1
<1>16. CASE DeleteFails(p)
  <2>1. UNCHANGED disk /\ Advance(p, "failed")
    BY <1>16 DEF DeleteFails
  <2> QED BY <1>6, <2>1
<1> QED
  BY <1>8, <1>9, <1>10, <1>11, <1>12, <1>13, <1>14, <1>15, <1>16 DEF Remove

\* A directory made and a record appended.
LEMMA WriteSteps ==
  ASSUME DirectoryInvariant, HandoverInvariant, NEW s \in Sessions,
         MakeRoot(s) \/ WriteMarker(s) \/ WriteJournal(s) \/ Publish(s) \/ Append(s)
  PROVE  RuntimeWrites(s)
<1>1. /\ files \in [Sessions -> SUBSET Entries] /\ DOMAIN runtime = Sessions
      /\ runtime[s] \in [pc : RuntimeStages, listening : BOOLEAN,
                         appending : {None, "handoff", "end"},
                         handoff : Kept, stale : SUBSET Sessions, published : BOOLEAN]
      /\ journal \in [Sessions -> SUBSET {"handoff", "end"}]
      /\ accepted \in [Sessions -> SUBSET {"handoff", "end"}]
      /\ s \notin undercut => accepted[s] \subseteq journal[s]
      /\ Whole(s)
  BY DEF DirectoryInvariant, DirectoryType, DiskType, RuntimeType, HandoverInvariant, Journaled,
         HandoffsWhole
<1>2. ASSUME NEW entries, Put(s, entries)
      PROVE  /\ \A t \in Sessions : t # s => files'[t] = files[t]
             /\ files'[s] = files[s] \cup entries
  BY <1>1, <1>2 DEF Put
<1>3. ASSUME NEW entries, Put(s, entries), "root" \in files[s] \cup entries,
             ~Begun(s), runtime'[s].handoff = runtime[s].handoff,
             runtime'[s].pc \in Making \cup {"serving"},
             \A t \in Sessions : t # s => runtime'[t] = runtime[t],
             UNCHANGED <<journal, accepted, undercut, stop, removal>>
      PROVE  RuntimeWrites(s)
  <2>1. runtime[s].pc \notin Late
    BY <1>3 DEF Begun, Late, Unmade, Making
  <2>2. runtime'[s].handoff = None
    BY <1>1, <1>3, <2>1 DEF Whole
  <2>3. runtime'[s].pc # "removing" /\ runtime[s].pc # "closed"
    BY <1>3, <2>1 DEF Making, Late
  <2>4. "root" \in files'[s] /\ \A t \in Sessions : t # s => files'[t] = files[t]
    BY <1>2, <1>3
  <2> QED BY <1>1, <1>3, <2>2, <2>3, <2>4 DEF RuntimeWrites
<1>4. runtime[s].pc \in Making => "root" \in files[s]
  BY DEF HandoverInvariant, Rooted
<1>5. CASE MakeRoot(s)
  <2>1. /\ runtime[s].pc = "pruning" /\ Put(s, {"root"})
        /\ runtime' = [runtime EXCEPT ![s].pc = "marking"]
        /\ UNCHANGED <<journal, accepted, undercut, stop, removal>>
    BY <1>5 DEF MakeRoot, At, Goes
  <2>2. /\ runtime'[s].handoff = runtime[s].handoff /\ runtime'[s].pc \in Making
        /\ \A t \in Sessions : t # s => runtime'[t] = runtime[t]
    BY <1>1, <2>1 DEF Making
  <2> QED BY <1>3, <2>1, <2>2 DEF Begun, Unmade
<1>6. CASE WriteMarker(s)
  <2>1. /\ runtime[s].pc = "marking" /\ Put(s, {"marker"})
        /\ runtime' = [runtime EXCEPT ![s].pc = "journaling"]
        /\ UNCHANGED <<journal, accepted, undercut, stop, removal>>
    BY <1>6 DEF WriteMarker, At, Goes
  <2>2. /\ runtime'[s].handoff = runtime[s].handoff /\ runtime'[s].pc \in Making
        /\ \A t \in Sessions : t # s => runtime'[t] = runtime[t]
    BY <1>1, <2>1 DEF Making
  <2> QED BY <1>3, <1>4, <2>1, <2>2 DEF Begun, Making
<1>7. CASE WriteJournal(s)
  <2>1. /\ runtime[s].pc = "journaling" /\ Put(s, {"journal"})
        /\ runtime' = [runtime EXCEPT ![s].pc = "publishing"]
        /\ UNCHANGED <<journal, accepted, undercut, stop, removal>>
    BY <1>7 DEF WriteJournal, At, Goes
  <2>2. /\ runtime'[s].handoff = runtime[s].handoff /\ runtime'[s].pc \in Making
        /\ \A t \in Sessions : t # s => runtime'[t] = runtime[t]
    BY <1>1, <2>1 DEF Making
  <2> QED BY <1>3, <1>4, <2>1, <2>2 DEF Begun, Making
<1>8. CASE Publish(s)
  <2>1. /\ runtime[s].pc = "publishing" /\ Put(s, {"descriptor"})
        /\ runtime' = [runtime EXCEPT ![s].pc = "serving", ![s].listening = TRUE,
                                      ![s].published = TRUE]
        /\ UNCHANGED <<journal, accepted, undercut, stop, removal>>
    BY <1>8 DEF Publish, At
  <2>2. /\ runtime'[s].handoff = runtime[s].handoff /\ runtime'[s].pc = "serving"
        /\ \A t \in Sessions : t # s => runtime'[t] = runtime[t]
    BY <1>1, <2>1
  <2> QED BY <1>3, <1>4, <2>1, <2>2 DEF Begun, Making
<1>9. CASE Append(s)
  <2>1. PICK record : record = runtime[s].appending
    OBVIOUS
  <2>2. /\ record # None /\ record \in {"handoff", "end"}
        /\ Alive(s) /\ (s \in undercut \/ "journal" \in files[s])
    BY <1>1, <1>9, <2>1 DEF Append, DirectoryInvariant, Writing
  <2>3. /\ runtime' = [runtime EXCEPT ![s].appending = None]
        /\ UNCHANGED <<undercut, stop, removal>>
    BY <1>9 DEF Append
  <2>4. /\ runtime'[s].handoff = runtime[s].handoff /\ runtime'[s].pc = runtime[s].pc
        /\ \A t \in Sessions : t # s => runtime'[t] = runtime[t]
    BY <1>1, <2>3
  <2>5. runtime[s].handoff = None
    BY <1>1, <2>1, <2>2 DEF Whole
  <2>6. /\ Begun(s) /\ Begun(s)'
        /\ runtime[s].pc \notin Making \cup {"removing", "closed"}
    BY <2>2, <2>4 DEF Alive, Begun, Unmade, Making
  <2>7. CASE "root" \in files[s]
    <3>1. /\ Put(s, {"journal"})
          /\ journal' = [journal EXCEPT ![s] =
               (IF "journal" \in files[s] THEN @ ELSE {}) \cup {record}]
          /\ accepted' = [accepted EXCEPT ![s] = @ \cup {record}]
      BY <1>9, <2>1, <2>7 DEF Append
    <3>2. "root" \in files'[s] /\ \A t \in Sessions : t # s => files'[t] = files[t]
      BY <1>2, <2>7, <3>1
    <3>3. /\ \A t \in Sessions : t # s => accepted'[t] = accepted[t] /\ journal'[t] = journal[t]
          /\ accepted' \in [Sessions -> SUBSET {"handoff", "end"}]
          /\ s \notin undercut => accepted'[s] \subseteq journal'[s]
      BY <1>1, <2>2, <3>1
    <3> QED BY <2>3, <2>4, <2>5, <2>6, <2>7, <3>2, <3>3 DEF RuntimeWrites
  <2>8. CASE "root" \notin files[s]
    <3>1. UNCHANGED <<files, journal, accepted>>
      BY <1>9, <2>8 DEF Append
    <3>2. files[s] = {}
      BY <2>8 DEF HandoverInvariant, Rooted
    <3> QED BY <1>1, <2>3, <2>4, <2>5, <2>6, <3>1, <3>2 DEF RuntimeWrites
  <2> QED BY <2>7, <2>8
<1> QED BY <1>5, <1>6, <1>7, <1>8, <1>9

\* What every step of a runtime that writes nothing has in common.
Keeps(s) ==
  /\ UNCHANGED <<files, journal, accepted, undercut>>
  /\ \A t \in Sessions : t # s => runtime'[t] = runtime[t]
  /\ runtime[s].pc # "closed"
  /\ Begun(s) => Begun(s)'
  /\ runtime'[s].pc \in Making => runtime[s].pc \in Making

Parts(s) ==
  /\ \A q \in Sessions \cup Stops : q # s => removal'[q] = removal[q]
  /\ removal'[s].pc # "done" \/ removal'[s] = removal[s]

\* A step on which the handoff stays and nothing more is to be written.
Quiet(s) ==
  /\ runtime'[s].handoff = runtime[s].handoff /\ runtime'[s].pc # "removing"
  /\ runtime[s].handoff # None => runtime'[s].pc \in Late /\ runtime'[s].appending = None

LEMMA QuietMoves ==
  ASSUME HandoverInvariant, NEW s \in Sessions, Keeps(s), Parts(s), Quiet(s), UNCHANGED stop
  PROVE  RuntimeMoves(s)
<1>1. Whole(s)
  BY DEF HandoverInvariant, HandoffsWhole
<1>2. Whole(s)'
  BY <1>1 DEF Whole, Quiet, Keeps
<1> QED BY <1>2 DEF RuntimeMoves, Keeps, Parts

LEMMA BeginParts ==
  ASSUME RemovalType, NEW s \in Sessions \cup Stops, NEW pc, NEW t, Begin(s, pc, t), pc # "done"
  PROVE  /\ Parts(s)
         /\ removal'[s].pc = pc /\ removal'[s].target = t /\ removal'[s].handoff = None
BY DEF RemovalType, Begin, NoRemoval, Parts

LEMMA EndedParts ==
  ASSUME RemovalType, NEW s \in Sessions \cup Stops, NEW pc, Ended(s, pc)
  PROVE  Parts(s) /\ removal[s].pc = pc
BY DEF RemovalType, Ended, NoRemoval, Parts, Removing

LEMMA MoveSteps ==
  ASSUME DirectoryInvariant, HandoverInvariant, NEW s \in Sessions,
         \/ Start(s) \/ Prune(s) \/ Pruned(s) \/ PruneFails(s)
         \/ CreationFails(s) \/ Abandon(s) \/ Abandoned(s) \/ Respond(s)
         \/ Interrupt(s) \/ CloseRecord(s) \/ KillRuntime(s)
  PROVE  RuntimeMoves(s)
<1>1. /\ RemovalType /\ DOMAIN runtime = Sessions
      /\ runtime[s] \in [pc : RuntimeStages, listening : BOOLEAN,
                         appending : {None, "handoff", "end"},
                         handoff : Kept, stale : SUBSET Sessions, published : BOOLEAN]
  BY DEF DirectoryInvariant, DirectoryType, RuntimeType
<1>2. runtime[s].handoff # None => runtime[s].pc \in Late /\ runtime[s].appending = None
  BY DEF HandoverInvariant, HandoffsWhole, Whole
<1>3. ASSUME UNCHANGED <<files, journal, accepted, undercut>>, UNCHANGED stop, Parts(s),
             \A t \in Sessions : t # s => runtime'[t] = runtime[t],
             runtime'[s].handoff = runtime[s].handoff,
             runtime'[s].pc \notin Making \cup {"removing"}, Begun(s) => Begun(s)',
             \/ runtime[s].pc \notin Late
             \/ /\ runtime[s].pc # "closed" /\ runtime'[s].pc \in Late
                /\ runtime[s].handoff # None => runtime'[s].appending = None
      PROVE  RuntimeMoves(s)
  <2>1. runtime[s].pc # "closed"
    BY <1>3 DEF Late
  <2>2. Keeps(s)
    BY <1>3, <2>1 DEF Keeps
  <2>3. Quiet(s)
    BY <1>2, <1>3 DEF Quiet
  <2> QED BY <1>3, <2>2, <2>3, QuietMoves
<1>4. ASSUME UNCHANGED removal PROVE Parts(s)
  BY <1>4 DEF Parts
<1>5. CASE Start(s)
  <2>1. /\ runtime[s].pc = "none" /\ UNCHANGED <<files, journal, accepted, undercut, stop, removal>>
        /\ runtime' = [runtime EXCEPT ![s].pc = "pruning", ![s].stale = {t \in Sessions : Stale(t)}]
    BY <1>5 DEF Start, At, disk
  <2>2. /\ \A t \in Sessions : t # s => runtime'[t] = runtime[t]
        /\ runtime'[s].handoff = runtime[s].handoff /\ runtime'[s].pc = "pruning"
    BY <1>1, <2>1
  <2> QED BY <1>3, <1>4, <2>1, <2>2 DEF Making, Late, Begun, Unmade
<1>6. CASE Prune(s)
  <2>1. PICK t \in runtime[s].stale :
          /\ Begin(s, "list", t) /\ runtime' = [runtime EXCEPT ![s].stale = @ \ {t}]
          /\ runtime[s].pc = "pruning" /\ UNCHANGED <<files, journal, accepted, undercut, stop>>
    BY <1>6 DEF Prune, At, disk
  <2>2. /\ \A u \in Sessions : u # s => runtime'[u] = runtime[u]
        /\ runtime'[s].handoff = runtime[s].handoff /\ runtime'[s].pc = "pruning"
    BY <1>1, <2>1
  <2>3. Parts(s)
    BY <1>1, <2>1, BeginParts
  <2> QED BY <1>3, <2>1, <2>2, <2>3 DEF Making, Late, Begun, Unmade
<1>7. CASE Pruned(s)
  <2>1. /\ runtime[s].pc = "pruning" /\ Ended(s, "done")
        /\ UNCHANGED <<files, journal, accepted, undercut, stop, runtime>>
    BY <1>7 DEF Pruned, At, disk
  <2>2. Parts(s)
    BY <1>1, <2>1, EndedParts
  <2> QED BY <1>3, <2>1, <2>2 DEF Making, Late, Begun, Unmade
<1>8. CASE PruneFails(s) \/ CreationFails(s) \/ Abandoned(s)
  <2>1. /\ runtime[s].pc \in {"pruning", "marking", "journaling", "abandoning"}
        /\ runtime' = [runtime EXCEPT ![s].pc = "refused"]
        /\ UNCHANGED <<files, journal, accepted, undercut, stop>>
    BY <1>8 DEF PruneFails, CreationFails, Abandoned, At, Goes, disk
  <2>2. /\ \A t \in Sessions : t # s => runtime'[t] = runtime[t]
        /\ runtime'[s].handoff = runtime[s].handoff /\ runtime'[s].pc = "refused"
    BY <1>1, <2>1
  <2>3. Ended(s, "done") \/ Ended(s, "failed") \/ UNCHANGED removal
    BY <1>8 DEF PruneFails, CreationFails, Abandoned
  <2>4. Parts(s)
    BY <1>1, <1>4, <2>3, EndedParts
  <2> QED BY <1>3, <2>1, <2>2, <2>4 DEF Making, Late, Begun, Unmade
<1>9. CASE Abandon(s)
  <2>1. /\ runtime[s].pc = "publishing" /\ runtime' = [runtime EXCEPT ![s].pc = "abandoning"]
        /\ Begin(s, "look", s) /\ UNCHANGED <<files, journal, accepted, undercut, stop>>
    BY <1>9 DEF Abandon, At, Goes, disk
  <2>2. /\ \A t \in Sessions : t # s => runtime'[t] = runtime[t]
        /\ runtime'[s].handoff = runtime[s].handoff /\ runtime'[s].pc = "abandoning"
    BY <1>1, <2>1
  <2>3. Parts(s)
    BY <1>1, <2>1, BeginParts
  <2> QED BY <1>3, <2>1, <2>2, <2>3 DEF Making, Late, Begun, Unmade
<1>10. CASE Respond(s)
  <2>1. /\ runtime[s].pc = "serving" /\ runtime' = [runtime EXCEPT ![s].appending = "handoff"]
        /\ UNCHANGED <<files, journal, accepted, undercut, stop, removal>>
    BY <1>10 DEF Respond, At, disk
  <2>2. /\ \A t \in Sessions : t # s => runtime'[t] = runtime[t]
        /\ runtime'[s].handoff = runtime[s].handoff /\ runtime'[s].pc = "serving"
    BY <1>1, <2>1
  <2> QED BY <1>3, <1>4, <2>1, <2>2 DEF Making, Late, Begun, Unmade
<1>11. CASE Interrupt(s)
  <2>1. /\ runtime[s].pc \in {"serving", "broken"} /\ runtime' = [runtime EXCEPT ![s].pc = "ending"]
        /\ UNCHANGED <<files, journal, accepted, undercut, stop, removal>>
    BY <1>11 DEF Interrupt, Stoppable, Goes, disk
  <2>2. /\ \A t \in Sessions : t # s => runtime'[t] = runtime[t]
        /\ runtime'[s].handoff = runtime[s].handoff /\ runtime'[s].pc = "ending"
        /\ runtime'[s].appending = runtime[s].appending
    BY <1>1, <2>1
  <2> QED BY <1>2, <1>3, <1>4, <2>1, <2>2 DEF Making, Late, Begun, Unmade
<1>12. CASE CloseRecord(s)
  <2>1. PICK record :
          /\ runtime[s].handoff # None => record = None
          /\ runtime' = [runtime EXCEPT ![s].pc = "closing", ![s].appending = record]
    BY <1>12 DEF CloseRecord
  <2>2. runtime[s].pc = "ending" /\ UNCHANGED <<files, journal, accepted, undercut, stop, removal>>
    BY <1>12 DEF CloseRecord, At, disk
  <2>3. /\ \A t \in Sessions : t # s => runtime'[t] = runtime[t]
        /\ runtime'[s].handoff = runtime[s].handoff /\ runtime'[s].pc = "closing"
        /\ runtime'[s].appending = record
    BY <1>1, <2>1
  <2> QED BY <1>2, <1>3, <1>4, <2>1, <2>2, <2>3 DEF Making, Late, Begun, Unmade
<1>13. CASE KillRuntime(s)
  <2>1. /\ runtime[s].pc \notin {"none", "refused", "closed", "crashed"}
        /\ runtime' = [runtime EXCEPT ![s].pc = "crashed", ![s].listening = FALSE,
                                      ![s].appending = None]
        /\ UNCHANGED <<files, journal, accepted, undercut, stop>>
        /\ removal' = [removal EXCEPT ![s] = NoRemoval]
    BY <1>13 DEF KillRuntime, Running, Killed, disk
  <2>2. /\ \A t \in Sessions : t # s => runtime'[t] = runtime[t]
        /\ runtime'[s].handoff = runtime[s].handoff /\ runtime'[s].pc = "crashed"
        /\ runtime'[s].appending = None
    BY <1>1, <2>1
  <2>3. Parts(s)
    BY <1>1, <2>1 DEF RemovalType, NoRemoval, Parts
  <2> QED BY <1>3, <2>1, <2>2, <2>3 DEF Making, Late, Begun, Unmade
<1> QED BY <1>5, <1>6, <1>7, <1>8, <1>9, <1>10, <1>11, <1>12, <1>13

\* A stop that breaks tells who waited for it, and nobody is answered.
LEMMA BreaksRefuses ==
  ASSUME NEW s \in Sessions, RuntimeType, StopType, Breaks(s)
  PROVE  /\ \A t \in Sessions : t # s => runtime'[t] = runtime[t]
         /\ runtime'[s].pc = "broken" /\ runtime'[s].handoff = runtime[s].handoff
         /\ runtime'[s].appending = runtime[s].appending
         /\ \A c \in Stops :
              /\ stop'[c].target = stop[c].target /\ stop'[c].answer = stop[c].answer
              /\ stop'[c].pc \in {stop[c].pc, "over"} /\ stop'[c].result \in {stop[c].result, "refused"}
<1>1. runtime' = [runtime EXCEPT ![s].pc = "broken"]
  BY DEF Breaks, Goes
<1>2. stop' = [c \in Stops |-> IF stop[c].pc = "waiting" /\ stop[c].target = s
                               THEN [stop[c] EXCEPT !.pc = "over", !.result = "refused"] ELSE stop[c]]
  BY DEF Breaks
<1>3. \A c \in Stops :
        /\ stop'[c].target = stop[c].target /\ stop'[c].answer = stop[c].answer
        /\ stop'[c].pc \in {stop[c].pc, "over"} /\ stop'[c].result \in {stop[c].result, "refused"}
  BY <1>2 DEF StopType
<1> QED BY <1>1, <1>3 DEF RuntimeType

LEMMA EndingSteps ==
  ASSUME DirectoryInvariant, HandoverInvariant, NEW s \in Sessions,
         Terminate(s) \/ Close(s) \/ CloseFails(s)
  PROVE  RuntimeMoves(s)
<1>1. /\ RuntimeType /\ RemovalType /\ StopType /\ DOMAIN runtime = Sessions
      /\ runtime[s] \in [pc : RuntimeStages, listening : BOOLEAN,
                         appending : {None, "handoff", "end"},
                         handoff : Kept, stale : SUBSET Sessions, published : BOOLEAN]
  BY DEF DirectoryInvariant, DirectoryType, RuntimeType
<1>2. Whole(s) /\ (s \notin undercut => accepted[s] \subseteq journal[s])
  BY DEF HandoverInvariant, HandoffsWhole, Journaled
<1>3. /\ runtime[s].pc \in {"closing", "removing"}
      /\ UNCHANGED <<files, journal, accepted, undercut>>
  BY DEF Terminate, Close, CloseFails, At, disk
<1>4. runtime[s].appending = None
  <2>1. runtime[s].appending # None => Alive(s)
    BY DEF DirectoryInvariant, Writing
  <2>2. CASE runtime[s].pc = "removing"
    BY <2>1, <2>2 DEF Alive
  <2>3. CASE runtime[s].pc = "closing"
    <3>1. runtime[s].appending # "end"
      BY <2>3 DEF Terminate, Close, CloseFails, At
    <3> QED BY <2>3, <3>1 DEF DirectoryInvariant, Writing
  <2> QED BY <1>3, <2>2, <2>3
<1>5. ASSUME \A t \in Sessions : t # s => runtime'[t] = runtime[t],
             runtime'[s].pc \in {"broken", "removing", "closed"}
      PROVE  Keeps(s)
  BY <1>3, <1>5 DEF Keeps, Begun, Unmade, Making
<1>6. ASSUME Breaks(s), Parts(s) PROVE RuntimeMoves(s)
  <2>1. /\ \A t \in Sessions : t # s => runtime'[t] = runtime[t]
        /\ runtime'[s].pc = "broken" /\ runtime'[s].handoff = runtime[s].handoff
        /\ runtime'[s].appending = runtime[s].appending
        /\ \A c \in Stops :
             /\ stop'[c].target = stop[c].target /\ stop'[c].answer = stop[c].answer
             /\ stop'[c].pc \in {stop[c].pc, "over"} /\ stop'[c].result \in {stop[c].result, "refused"}
    BY <1>1, <1>6, BreaksRefuses
  <2>2. Keeps(s)
    BY <1>5, <2>1
  <2>3. Whole(s)'
    BY <1>2, <1>3, <1>4, <2>1 DEF Whole, Late
  <2> QED BY <1>6, <2>1, <2>2, <2>3 DEF RuntimeMoves, Keeps, Parts
<1>7. CASE Terminate(s)
  <2>1. PICK handoff : handoff = (IF runtime[s].handoff # None THEN runtime[s].handoff ELSE Recovered(s))
    OBVIOUS
  <2>2. CASE handoff = None
    <3>1. Breaks(s) /\ UNCHANGED removal
      BY <1>7, <2>1, <2>2 DEF Terminate
    <3> QED BY <1>6, <3>1 DEF Parts
  <2>3. CASE handoff # None
    <3>1. /\ runtime' = [runtime EXCEPT ![s].pc = "removing", ![s].handoff = handoff,
                                        ![s].listening = FALSE]
          /\ Begin(s, "look", s) /\ UNCHANGED stop
      BY <1>7, <2>1, <2>3 DEF Terminate
    <3>2. /\ \A t \in Sessions : t # s => runtime'[t] = runtime[t]
          /\ runtime'[s].pc = "removing" /\ runtime'[s].handoff = handoff
          /\ runtime'[s].appending = runtime[s].appending
      BY <1>1, <3>1
    <3>3. Parts(s) /\ removal'[s].target = s /\ removal'[s].handoff = None
      BY <1>1, <3>1, BeginParts
    <3>4. s \notin undercut => accepted[s] \subseteq handoff
      BY <1>2, <2>1, <2>3 DEF Whole, Recovered
    <3>5. Whole(s)'
      BY <1>3, <1>4, <3>2, <3>3, <3>4 DEF Whole, Late
    <3>6. Keeps(s)
      BY <1>5, <3>2
    <3> QED BY <3>1, <3>3, <3>5, <3>6 DEF RuntimeMoves, Keeps, Parts
  <2> QED BY <2>2, <2>3
<1>8. CASE Close(s)
  <2>1. PICK handoff : handoff = (IF removal[s].handoff # None THEN removal[s].handoff
                                  ELSE runtime[s].handoff)
    OBVIOUS
  <2>2. /\ runtime[s].pc = "removing" /\ Ended(s, "done") /\ UNCHANGED stop
        /\ runtime' = [runtime EXCEPT ![s].pc = "closed", ![s].handoff = handoff]
    BY <1>1, <1>8, <2>1 DEF Close, At
  <2>3. /\ \A t \in Sessions : t # s => runtime'[t] = runtime[t]
        /\ runtime'[s].pc = "closed" /\ runtime'[s].handoff = handoff
        /\ runtime'[s].appending = runtime[s].appending
    BY <1>1, <2>2
  <2>4. Parts(s)
    BY <1>1, <2>2, EndedParts
  <2>5. handoff # None /\ s \notin undercut => accepted[s] \subseteq handoff
    BY <1>2, <2>1, <2>2 DEF Whole
  <2>6. Whole(s)'
    BY <1>3, <1>4, <2>3, <2>5 DEF Whole, Late
  <2>7. Keeps(s)
    BY <1>5, <2>3
  <2> QED BY <2>2, <2>4, <2>6, <2>7 DEF RuntimeMoves, Keeps, Parts
<1>9. CASE CloseFails(s)
  <2>1. Ended(s, "failed") /\ Breaks(s)
    BY <1>9 DEF CloseFails
  <2>2. Parts(s)
    BY <1>1, <2>1, EndedParts
  <2> QED BY <1>6, <2>1, <2>2
<1> QED BY <1>7, <1>8, <1>9

\* A stop's step, by the stage it leaves and the one it reaches.
LEMMA StopSteps ==
  ASSUME DirectoryInvariant, HandoverInvariant, NEW c \in Stops, StopStep(c) \/ KillStop(c)
  PROVE  StopMoves(c)
<1>1. /\ RemovalType /\ DOMAIN runtime = Sessions /\ DOMAIN stop = Stops
      /\ stop[c] \in [pc : StopStages, target : Sessions \cup {None}, recovered : Kept,
                      answer : Kept, result : Results]
  BY DEF DirectoryInvariant, DirectoryType, RuntimeType, StopType
<1>2. Knows(c)
  BY DEF HandoverInvariant, StopsKnow
<1>3. ASSUME NEW s \in Sessions, runtime[s].published PROVE Begun(s)
  BY <1>3 DEF DirectoryInvariant, Targets, RuntimesAim
<1>4. ASSUME NEW s \in Sessions, "root" \notin files[s] PROVE files[s] = {}
  BY <1>4 DEF HandoverInvariant, Rooted
<1>5. stop[c].pc \notin {"idle", "over"} =>
        stop[c].target \in Sessions /\ Begun(stop[c].target)
  BY <1>3 DEF DirectoryInvariant, Targets, StopsAim
<1>6. None \notin {"handed", "stopped"}
  BY ProcessesAssumption
<1>7. ASSUME UNCHANGED removal PROVE Parts(c)
  BY <1>7 DEF Parts
<1>8. ASSUME UNCHANGED <<files, journal, accepted, undercut, runtime>>, Parts(c), Knows(c)',
             \A d \in Stops : d # c => stop'[d] = stop[d]
      PROVE  StopMoves(c)
  BY <1>8 DEF StopMoves, Parts
<1>9. CASE ReadDescriptor(c)
  <2>1. PICK s \in Sessions, pc \in {"recovering", "over"},
             result \in {None, "unreadable", "stopped"} :
          /\ runtime[s].published
          /\ stop' = [stop EXCEPT ![c].target = s, ![c].pc = pc, ![c].result = result]
          /\ result \in {None, "unreadable"} \/ AlreadyStopped(s)
    BY <1>9 DEF ReadDescriptor
  <2>2. stop[c].pc = "idle" /\ UNCHANGED <<files, journal, accepted, undercut, runtime, removal>>
    BY <1>9 DEF ReadDescriptor, Does, disk
  <2>3. /\ \A d \in Stops : d # c => stop'[d] = stop[d]
        /\ stop'[c].target = s /\ stop'[c].pc = pc /\ stop'[c].result = result
        /\ stop'[c].answer = stop[c].answer
    BY <1>1, <2>1
  <2>4. result \in {"handed", "stopped"} => files[s] = {}
    BY <1>4, <1>6, <2>1 DEF AlreadyStopped
  <2>5. Begun(s)'
    BY <1>3, <2>1, <2>2 DEF Begun
  <2>6. Knows(c)'
    BY <1>2, <2>1, <2>2, <2>3, <2>4, <2>5 DEF Knows
  <2> QED BY <1>7, <1>8, <2>2, <2>3, <2>6
<1>10. CASE RecoverFirst(c)
  <2>1. stop[c].pc = "recovering" /\ UNCHANGED <<files, journal, accepted, undercut, runtime, removal>>
    BY <1>10 DEF RecoverFirst, Does, disk
  <2>2. \/ "root" \notin files[stop[c].target] /\ Over(c, "stopped")
        \/ Over(c, "refused")
        \/ \E handoff : stop' = [stop EXCEPT ![c].pc = "asking", ![c].recovered = handoff]
    BY <1>10 DEF RecoverFirst
  <2>3. /\ \A d \in Stops : d # c => stop'[d] = stop[d]
        /\ stop'[c].target = stop[c].target /\ stop'[c].answer = stop[c].answer
        /\ stop'[c].pc \in {"over", "asking"}
        /\ \/ stop'[c].result \in {stop[c].result, "refused"}
           \/ stop'[c].result = "stopped" /\ "root" \notin files[stop[c].target]
    BY <1>1, <2>2 DEF Over
  <2>4. Knows(c)'
    BY <1>2, <1>4, <1>5, <2>1, <2>3 DEF Knows, Begun
  <2> QED BY <1>7, <1>8, <2>1, <2>3, <2>4
<1>11. CASE Ask(c)
  <2>1. PICK s, pc : /\ s = stop[c].target /\ pc \in {"waiting", "marking"}
                     /\ stop' = [stop EXCEPT ![c].pc = pc]
                     /\ UNCHANGED runtime \/ (Stoppable(s) /\ Goes(s, "ending"))
    BY <1>11 DEF Ask
  <2>2. stop[c].pc = "asking" /\ UNCHANGED <<files, journal, accepted, undercut, removal>>
    BY <1>11 DEF Ask, Does, disk
  <2>3. /\ \A d \in Stops : d # c => stop'[d] = stop[d]
        /\ stop'[c].target = stop[c].target /\ stop'[c].answer = stop[c].answer
        /\ stop'[c].pc = pc /\ stop'[c].result = stop[c].result
    BY <1>1, <2>1
  <2>4. \A t \in Sessions :
          /\ runtime'[t].handoff = runtime[t].handoff
          /\ runtime'[t].appending = runtime[t].appending
          /\ \/ runtime'[t].pc = runtime[t].pc
             \/ runtime[t].pc \in {"serving", "broken"} /\ runtime'[t].pc = "ending"
    <3>1. CASE UNCHANGED runtime
      BY <3>1
    <3>2. CASE Stoppable(s) /\ runtime' = [runtime EXCEPT ![s].pc = "ending"]
      <4>1. runtime[s].pc \in {"serving", "broken"}
        BY <3>2 DEF Stoppable
      <4> QED BY <3>2, <4>1 DEF DirectoryInvariant, DirectoryType, RuntimeType
    <3> QED BY <2>1, <3>1, <3>2 DEF Goes
  <2>5. \A t \in Sessions : /\ Begun(t) => Begun(t)'
                            /\ runtime[t].pc = "closed" => runtime'[t].pc = "closed"
    BY <2>4 DEF Begun, Unmade, Making
  <2>6. Knows(c)'
    BY <1>2, <2>1, <2>2, <2>3, <2>4, <2>5 DEF Knows
  <2> QED BY <1>7, <2>2, <2>3, <2>4, <2>6 DEF StopMoves, Parts
<1>12. CASE Answered(c)
  <2>1. PICK answer : /\ answer = runtime[stop[c].target].handoff
                      /\ stop' = [stop EXCEPT ![c].pc = "marking", ![c].answer = answer]
    BY <1>12 DEF Answered
  <2>2. /\ stop[c].pc = "waiting" /\ runtime[stop[c].target].pc = "closed"
        /\ UNCHANGED <<files, journal, accepted, undercut, runtime, removal>>
    BY <1>12 DEF Answered, Does, At, disk
  <2>3. /\ \A d \in Stops : d # c => stop'[d] = stop[d]
        /\ stop'[c].target = stop[c].target /\ stop'[c].answer = answer
        /\ stop'[c].pc = "marking" /\ stop'[c].result = stop[c].result
    BY <1>1, <2>1
  <2>4. Knows(c)'
    BY <1>2, <1>5, <2>1, <2>2, <2>3 DEF Knows, Begun
  <2> QED BY <1>7, <1>8, <2>2, <2>3, <2>4
<1>13. CASE Unanswered(c)
  <2>1. /\ stop[c].pc = "waiting" /\ stop' = [stop EXCEPT ![c].pc = "marking"]
        /\ UNCHANGED <<files, journal, accepted, undercut, runtime, removal>>
    BY <1>13 DEF Unanswered, Does, disk
  <2>2. /\ \A d \in Stops : d # c => stop'[d] = stop[d]
        /\ stop'[c].target = stop[c].target /\ stop'[c].answer = stop[c].answer
        /\ stop'[c].pc = "marking" /\ stop'[c].result = stop[c].result
    BY <1>1, <2>1
  <2>3. Knows(c)'
    BY <1>2, <2>1, <2>2 DEF Knows, Begun
  <2> QED BY <1>7, <1>8, <2>1, <2>2, <2>3
<1>14. CASE Mark(c)
  <2>1. /\ stop[c].pc = "marking" /\ stop' = [stop EXCEPT ![c].pc = "removing"]
        /\ Begin(c, "look", stop[c].target)
        /\ UNCHANGED <<files, journal, accepted, undercut, runtime>>
    BY <1>14 DEF Mark, Does
  <2>2. /\ \A d \in Stops : d # c => stop'[d] = stop[d]
        /\ stop'[c].target = stop[c].target /\ stop'[c].answer = stop[c].answer
        /\ stop'[c].pc = "removing" /\ stop'[c].result = stop[c].result
    BY <1>1, <2>1
  <2>3. Parts(c) /\ removal'[c].target = stop[c].target
    BY <1>1, <2>1, BeginParts
  <2>4. Knows(c)'
    BY <1>2, <2>1, <2>2, <2>3 DEF Knows, Begun
  <2> QED BY <1>8, <2>1, <2>2, <2>3, <2>4
<1>15. CASE Stopped(c)
  <2>1. /\ stop[c].pc = "removing" /\ Ended(c, "done") /\ Over(c, "handed")
        /\ UNCHANGED <<files, journal, accepted, undercut, runtime>>
    BY <1>15 DEF Stopped, Does, disk
  <2>2. /\ \A d \in Stops : d # c => stop'[d] = stop[d]
        /\ stop'[c].target = stop[c].target /\ stop'[c].answer = stop[c].answer
        /\ stop'[c].pc = "over" /\ stop'[c].result = "handed"
    BY <1>1, <2>1 DEF Over
  <2>3. Parts(c) /\ removal[c].pc = "done"
    BY <1>1, <2>1, EndedParts
  <2>4. files[stop[c].target] = {}
    BY <1>2, <2>1, <2>3 DEF HandoverInvariant, Rooted, Knows
  <2>5. Knows(c)'
    BY <1>2, <1>5, <2>1, <2>2, <2>4 DEF Knows, Begun
  <2> QED BY <1>8, <2>1, <2>2, <2>3, <2>5
<1>16. CASE StopFails(c) \/ KillStop(c)
  <2>1. /\ stop[c].pc \notin {"idle", "over"}
        /\ Over(c, "refused") \/ Over(c, "killed")
        /\ UNCHANGED <<files, journal, accepted, undercut, runtime>>
        /\ removal' = [removal EXCEPT ![c] = NoRemoval]
    BY <1>16 DEF StopFails, KillStop, Killed, Ended, Does, disk
  <2>2. /\ \A d \in Stops : d # c => stop'[d] = stop[d]
        /\ stop'[c].target = stop[c].target /\ stop'[c].answer = stop[c].answer
        /\ stop'[c].pc = "over" /\ stop'[c].result \in {"refused", "killed"}
    BY <1>1, <2>1 DEF Over
  <2>3. Parts(c)
    BY <1>1, <2>1 DEF RemovalType, NoRemoval, Parts
  <2>4. Knows(c)'
    BY <1>2, <2>1, <2>2 DEF Knows, Begun
  <2> QED BY <1>8, <2>1, <2>2, <2>3, <2>4
<1> QED
  BY <1>9, <1>10, <1>11, <1>12, <1>13, <1>14, <1>15, <1>16 DEF StopStep

-----------------------------------------------------------------------------
LEMMA NothingHandedYet == Init => HandoverInvariant
<1> SUFFICES ASSUME Init PROVE HandoverInvariant
  OBVIOUS
<1> USE DEF Init, NoRemoval
<1>1. \A s \in Sessions : /\ runtime[s].pc \in {"none", "refused"} /\ runtime[s].handoff = None
                          /\ files[s] = {}
  OBVIOUS
<1>2. Rooted
  BY <1>1 DEF Rooted, Making
<1>3. Journaled
  BY DEF Journaled
<1>4. HandoffsWhole
  BY <1>1 DEF HandoffsWhole, Whole
<1>5. StopsKnow
  <2>1. \A c \in Stops : /\ stop[c].pc \in {"idle", "over"} /\ stop[c].answer = None
                         /\ stop[c].result = None
    OBVIOUS
  <2> QED BY <2>1, ProcessesAssumption DEF StopsKnow, Knows
<1> QED BY <1>2, <1>3, <1>4, <1>5 DEF HandoverInvariant

LEMMA NothingMoves ==
  ASSUME HandoverInvariant, UNCHANGED <<disk, runtime, stop, removal>>
  PROVE  HandoverInvariant'
BY DEF HandoverInvariant, Rooted, Journaled, HandoffsWhole, Whole, StopsKnow, Knows, Begun, disk

(***************************************************************************)
(* Every step keeps what is known of handoffs.                             *)
(***************************************************************************)
LEMMA StepsHandOver ==
  ASSUME DirectoryInvariant, HandoverInvariant, [Next]_vars
  PROVE  HandoverInvariant'
<1>1. ASSUME NEW p \in Sessions \cup Stops, Remove(p) PROVE HandoverInvariant'
  BY <1>1, RemovalSteps, RemovalsHandOver
<1>2. ASSUME NEW s \in Sessions, RuntimeStep(s) \/ KillRuntime(s) PROVE HandoverInvariant'
  <2>1. CASE MakeRoot(s) \/ WriteMarker(s) \/ WriteJournal(s) \/ Publish(s) \/ Append(s)
    BY <2>1, WriteSteps, WritesHandOver
  <2>2. CASE \/ Start(s) \/ Prune(s) \/ Pruned(s) \/ PruneFails(s)
             \/ CreationFails(s) \/ Abandon(s) \/ Abandoned(s) \/ Respond(s)
             \/ Interrupt(s) \/ CloseRecord(s) \/ KillRuntime(s)
    BY <2>2, MoveSteps, RuntimesHandOver
  <2>3. CASE Terminate(s) \/ Close(s) \/ CloseFails(s)
    BY <2>3, EndingSteps, RuntimesHandOver
  <2> QED BY <1>2, <2>1, <2>2, <2>3 DEF RuntimeStep
<1>3. ASSUME NEW c \in Stops, StopStep(c) \/ KillStop(c) PROVE HandoverInvariant'
  BY <1>3, StopSteps, StopsHandOverSteps
<1>4. CASE GrowStale \/ UNCHANGED vars
  BY <1>4, NothingMoves DEF GrowStale, vars
<1> QED BY <1>1, <1>2, <1>3, <1>4 DEF Next

LEMMA KnownIsHanded ==
  ASSUME HandoverInvariant
  PROVE  StopsHandOver
<1> SUFFICES ASSUME NEW c \in Stops
             PROVE  /\ stop[c].result \in {"handed", "stopped"} => files[stop[c].target] = {}
                    /\ stop[c].result = "handed" /\ stop[c].answer # None
                         /\ stop[c].target \notin undercut =>
                         accepted[stop[c].target] \subseteq Handed(c)
  BY DEF StopsHandOver
<1>1. Knows(c)
  BY DEF HandoverInvariant, StopsKnow
<1>2. ASSUME stop[c].answer # None, stop[c].target \notin undercut
      PROVE  accepted[stop[c].target] \subseteq Handed(c)
  <2>1. PICK s \in Sessions : s = stop[c].target
    BY <1>1, <1>2 DEF Knows
  <2>2. runtime[s].handoff # None /\ Handed(c) = runtime[s].handoff
    BY <1>1, <1>2, <2>1 DEF Knows, Handed
  <2>3. Whole(s)
    BY DEF HandoverInvariant, HandoffsWhole
  <2> QED BY <1>2, <2>1, <2>2, <2>3 DEF Whole
<1> QED BY <1>1, <1>2 DEF Knows

(***************************************************************************)
(* A stop that reports success leaves nothing of the session behind, and   *)
(* one the runtime answered hands over every record the journal took,      *)
(* whatever other stops, prunes, appends and crashes happened meanwhile    *)
(* (stopVisualSessionClient, terminateVisualSession).                      *)
(***************************************************************************)
THEOREM HandoversComplete == Spec => []StopsHandOver
<1>1. DirectoryInvariant /\ HandoverInvariant /\ [Next]_vars
        => (DirectoryInvariant /\ HandoverInvariant)'
  BY StepsKeep, StepsHandOver
<1>2. Init => DirectoryInvariant /\ HandoverInvariant
  BY NothingYet, NothingHandedYet
<1>3. HandoverInvariant => StopsHandOver
  BY KnownIsHanded
<1> QED BY <1>1, <1>2, <1>3, PTL DEF Spec
=============================================================================
