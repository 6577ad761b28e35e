--------------------------- MODULE SessionDirectory ---------------------------
(***************************************************************************)
(* The directories visual sessions live in, and every process that writes  *)
(* them: the runtimes (`yarramate-visual start`), which prune what earlier *)
(* ones left, create a directory, serve it and remove it; and the `stop`   *)
(* commands, which ask a runtime to end and then remove what is left.      *)
(*                                                                         *)
(* A step is one file operation.  Any process can be killed between two of *)
(* them, an operation can throw, and an answer can be lost.  `day` counts  *)
(* the age after which a session is stale.                                 *)
(***************************************************************************)
EXTENDS Naturals, FiniteSets

CONSTANTS Sessions,     \* one for each `start`
          Stops,        \* invocations of `stop`
          None,         \* no session, no record, no handoff
          Casts,        \* bound: which processes run in one behaviour
          MaxServed,    \* bound: sessions served in one behaviour
          MaxDays,      \* bound: times a silent session grows stale
          MaxFaults     \* bound: processes killed, operations that throw, answers lost

ASSUME ProcessesAssumption ==
  /\ Sessions \cap Stops = {} /\ None \notin Sessions \cup Stops
  /\ None \notin {"handed", "stopped"}
  /\ Casts \subseteq SUBSET (Sessions \cup Stops)

Entries == {"root", "marker", "journal", "descriptor"}

VARIABLES
  files,     \* what is on disk, by session
  journal,   \* the records of its journal
  activeAt,  \* the day something in it was last written
  stopped,   \* the sessions a `.stopped-<id>.json` names
  day,
  runtime,   \* the process serving each session
  stop,      \* the `stop` commands
  removal,   \* the removal a process is in the middle of
  faults,
  accepted,  \* records whose append succeeded
  undercut   \* sessions whose journal was deleted under a runtime still writing it

disk  == <<files, journal, activeAt, stopped, accepted, undercut>>
vars  == <<disk, day, runtime, stop, removal, faults>>

NoRemoval == [pc |-> "idle", target |-> None, listed |-> FALSE, handoff |-> None]

Init ==
  /\ files = [s \in Sessions |-> {}] /\ journal = [s \in Sessions |-> {}]
  /\ activeAt = [s \in Sessions |-> 0] /\ stopped = {} /\ day = 0
  /\ \E cast \in Casts :
       /\ runtime = [s \in Sessions |->
            [pc |-> IF s \in cast THEN "none" ELSE "refused", listening |-> FALSE,
             appending |-> None, handoff |-> None, stale |-> {}, published |-> FALSE]]
       /\ stop = [c \in Stops |->
            [pc |-> IF c \in cast THEN "idle" ELSE "over", target |-> None,
             recovered |-> None, answer |-> None, result |-> None]]
  /\ removal = [p \in Sessions \cup Stops |-> NoRemoval]
  /\ faults = 0
  /\ accepted = [s \in Sessions |-> {}] /\ undercut = {}

-----------------------------------------------------------------------------
(***************************************************************************)
(* Writing in a session's directory is its activity.                       *)
(***************************************************************************)
Put(s, entries) ==
  /\ files' = [files EXCEPT ![s] = @ \cup entries]
  /\ activeAt' = [activeAt EXCEPT ![s] = day]

Take(s, entries) ==
  /\ files' = [files EXCEPT ![s] = @ \ entries]
  /\ activeAt' = IF files[s] \cap entries = {} THEN activeAt ELSE [activeAt EXCEPT ![s] = day]

Fault == faults < MaxFaults /\ faults' = faults + 1

Recovered(s) == IF {"marker", "journal"} \subseteq files[s] THEN journal[s] ELSE None

Alive(s) == runtime[s].pc \in {"serving", "ending", "closing"}

-----------------------------------------------------------------------------
(***************************************************************************)
(* removeVisualSession, in the hands of process p: look at the root, read  *)
(* the marker, recover the handoff, then delete one entry at a time.  A    *)
(* prune starts at the listing.                                            *)
(***************************************************************************)
Removing(p, pc) == removal[p].pc = pc

Advance(p, pc) == removal' = [removal EXCEPT ![p].pc = pc]

Look(p) ==
  /\ Removing(p, "look")
  /\ Advance(p, IF "root" \in files[removal[p].target] THEN "authorise" ELSE "done")
  /\ UNCHANGED <<disk, faults>>

Authorise(p) ==
  /\ Removing(p, "authorise")
  /\ LET found == files[removal[p].target]
     IN  Advance(p, IF "marker" \notin found THEN "failed"
                    ELSE IF "journal" \in found THEN "recover" ELSE "list")
  /\ UNCHANGED <<disk, faults>>

Recover(p) ==
  /\ Removing(p, "recover")
  /\ LET handoff == Recovered(removal[p].target)
     IN  removal' = [removal EXCEPT ![p].handoff = handoff,
                                    ![p].pc = IF handoff = None THEN "failed" ELSE "list"]
  /\ UNCHANGED <<disk, faults>>

List(p) ==
  /\ Removing(p, "list")
  /\ LET found == files[removal[p].target]
     IN  removal' = [removal EXCEPT ![p].listed = "descriptor" \in found,
                                    ![p].pc = IF "root" \in found THEN "others" ELSE "done"]
  /\ UNCHANGED <<disk, faults>>

Delete(p, pc, entries, next) ==
  /\ Removing(p, pc)
  /\ Take(removal[p].target, entries)
  /\ Advance(p, next)
  /\ UNCHANGED <<journal, stopped, accepted, faults>>

DeleteOthers(p) ==
  /\ Delete(p, "others", IF removal[p].listed THEN {"descriptor"} ELSE {}, "journal")
  /\ UNCHANGED undercut

DeleteMarkerFirstVariant(p) ==
  /\ Delete(p, "journal", {"marker"}, "marker")
  /\ UNCHANGED undercut

DeleteJournal(p) ==
  /\ Delete(p, "journal", {"journal"}, "marker")
  /\ undercut' = undercut \cup {s \in {removal[p].target} : p # s /\ Alive(s)}

DeleteMarker(p) == Delete(p, "marker", {"marker"}, "root") /\ UNCHANGED undercut
DeleteRoot(p)   == Delete(p, "root", Entries, "done") /\ UNCHANGED undercut

DeleteFails(p) ==
  /\ \E pc \in {"others", "journal", "marker", "root"} : Removing(p, pc)
  /\ Fault /\ Advance(p, "failed")
  /\ UNCHANGED disk

Remove(p) ==
  /\ \/ Look(p) \/ Authorise(p) \/ Recover(p) \/ List(p)
     \/ DeleteOthers(p) \/ DeleteJournal(p) \/ DeleteMarker(p) \/ DeleteRoot(p)
     \/ DeleteFails(p)
  /\ UNCHANGED <<day, runtime, stop>>

Begin(p, pc, target) ==
  removal' = [removal EXCEPT ![p] = [NoRemoval EXCEPT !.pc = pc, !.target = target]]

Ended(p, pc) == Removing(p, pc) /\ removal' = [removal EXCEPT ![p] = NoRemoval]

-----------------------------------------------------------------------------
(***************************************************************************)
(* A runtime's start: collect what is stale, create, publish.              *)
(***************************************************************************)
At(s, pc) == runtime[s].pc = pc
Goes(s, pc) == runtime' = [runtime EXCEPT ![s].pc = pc]

Stale(t) == {"root", "marker"} \subseteq files[t] /\ day > activeAt[t]

Start(s) ==
  /\ At(s, "none")
  /\ runtime' = [runtime EXCEPT ![s].pc = "pruning", ![s].stale = {t \in Sessions : Stale(t)}]
  /\ UNCHANGED <<disk, day, stop, removal, faults>>

Prune(s) ==
  /\ At(s, "pruning") /\ Removing(s, "idle")
  /\ \E t \in runtime[s].stale :
       /\ Begin(s, "list", t)
       /\ runtime' = [runtime EXCEPT ![s].stale = @ \ {t}]
  /\ UNCHANGED <<disk, day, stop, faults>>

Pruned(s) ==
  /\ At(s, "pruning") /\ Ended(s, "done")
  /\ UNCHANGED <<disk, day, runtime, stop, faults>>

PruneFails(s) ==
  /\ At(s, "pruning") /\ Ended(s, "failed") /\ Goes(s, "refused")
  /\ UNCHANGED <<disk, day, stop, faults>>

Served == {s \in Sessions : runtime[s].pc \notin {"none", "pruning", "refused"}}

MakeRoot(s) ==
  /\ At(s, "pruning") /\ Removing(s, "idle") /\ runtime[s].stale = {}
  /\ Cardinality(Served) < MaxServed
  /\ Put(s, {"root"}) /\ Goes(s, "marking")
  /\ UNCHANGED <<journal, stopped, accepted, undercut, day, stop, removal, faults>>

WriteMarker(s) ==
  /\ At(s, "marking")
  /\ Put(s, {"marker"}) /\ Goes(s, "journaling")
  /\ UNCHANGED <<journal, stopped, accepted, undercut, day, stop, removal, faults>>

WriteJournal(s) ==
  /\ At(s, "journaling") /\ "root" \in files[s]
  /\ Put(s, {"journal"}) /\ Goes(s, "publishing")
  /\ UNCHANGED <<journal, stopped, accepted, undercut, day, stop, removal, faults>>

(* Nothing has been handed to the server yet: what was made is left.       *)
CreationFails(s) ==
  /\ At(s, "marking") \/ At(s, "journaling")
  /\ Fault /\ Goes(s, "refused")
  /\ UNCHANGED <<disk, day, stop, removal>>

Publish(s) ==
  /\ At(s, "publishing") /\ {"root", "marker"} \subseteq files[s]
  /\ Put(s, {"descriptor"})
  /\ runtime' = [runtime EXCEPT ![s].pc = "serving", ![s].listening = TRUE, ![s].published = TRUE]
  /\ UNCHANGED <<journal, stopped, accepted, undercut, day, stop, removal, faults>>

Abandon(s) ==
  /\ At(s, "publishing") /\ Fault
  /\ Begin(s, "look", s) /\ Goes(s, "abandoning")
  /\ UNCHANGED <<disk, day, stop>>

Abandoned(s) ==
  /\ At(s, "abandoning") /\ (Ended(s, "done") \/ Ended(s, "failed"))
  /\ Goes(s, "refused")
  /\ UNCHANGED <<disk, day, stop, faults>>

-----------------------------------------------------------------------------
(***************************************************************************)
(* Serving.  An append looks at the journal and then opens it for          *)
(* appending, which creates a file that is gone.                           *)
(***************************************************************************)
Respond(s) ==
  /\ At(s, "serving") /\ runtime[s].appending = None
  /\ "descriptor" \in files[s] /\ "journal" \in files[s] /\ "handoff" \notin journal[s]
  /\ runtime' = [runtime EXCEPT ![s].appending = "handoff"]
  /\ UNCHANGED <<disk, day, stop, removal, faults>>

Append(s) ==
  /\ runtime[s].appending # None
  /\ runtime' = [runtime EXCEPT ![s].appending = None]
  /\ IF "root" \in files[s]
     THEN /\ Put(s, {"journal"})
          /\ journal' = [journal EXCEPT ![s] =
               (IF "journal" \in files[s] THEN @ ELSE {}) \cup {runtime[s].appending}]
          /\ accepted' = [accepted EXCEPT ![s] = @ \cup {runtime[s].appending}]
     ELSE UNCHANGED <<files, activeAt, journal, accepted>>
  /\ UNCHANGED <<stopped, undercut, day, stop, removal, faults>>

-----------------------------------------------------------------------------
(***************************************************************************)
(* The runtime's stop: asked by a signal, a timer, or a `stop` command.    *)
(* Admitted work finishes, the closing record is journaled, the handoff is *)
(* recovered, the listener closes and the directory is removed.  A stop    *)
(* that throws may be asked for again.                                     *)
(***************************************************************************)
Stoppable(s) == runtime[s].pc \in {"serving", "broken"}

Interrupt(s) ==
  /\ Stoppable(s) /\ Goes(s, "ending")
  /\ UNCHANGED <<disk, day, stop, removal, faults>>

CloseRecordUnadmittedVariant(s) ==
  /\ At(s, "ending")
  /\ runtime' = [runtime EXCEPT ![s].pc = "closing",
       ![s].appending = IF @ = None /\ runtime[s].handoff = None /\ "journal" \in files[s]
                        THEN "end" ELSE @]
  /\ UNCHANGED <<disk, day, stop, removal, faults>>

CloseRecord(s) ==
  /\ At(s, "ending") /\ runtime[s].appending = None
  /\ runtime' = [runtime EXCEPT ![s].pc = "closing",
       ![s].appending = IF runtime[s].handoff = None /\ "journal" \in files[s]
                        THEN "end" ELSE None]
  /\ UNCHANGED <<disk, day, stop, removal, faults>>

(* A stop that failed: everybody who waited for it is told so.             *)
Breaks(s) ==
  /\ Goes(s, "broken")
  /\ stop' = [c \in Stops |->
       IF stop[c].pc = "waiting" /\ stop[c].target = s
       THEN [stop[c] EXCEPT !.pc = "over", !.result = "refused"] ELSE stop[c]]

Terminate(s) ==
  /\ At(s, "closing") /\ runtime[s].appending \notin {"end"}
  /\ LET handoff == IF runtime[s].handoff # None THEN runtime[s].handoff ELSE Recovered(s)
     IN  IF handoff = None
         THEN Breaks(s) /\ UNCHANGED removal
         ELSE /\ runtime' = [runtime EXCEPT ![s].pc = "removing", ![s].handoff = handoff,
                                            ![s].listening = FALSE]
              /\ Begin(s, "look", s)
              /\ UNCHANGED stop
  /\ UNCHANGED <<disk, day, faults>>

Close(s) ==
  /\ At(s, "removing") /\ Ended(s, "done")
  /\ runtime' = [runtime EXCEPT ![s].pc = "closed",
       ![s].handoff = IF removal[s].handoff # None THEN removal[s].handoff ELSE @]
  /\ UNCHANGED <<disk, day, stop, faults>>

CloseFails(s) ==
  /\ At(s, "removing") /\ Ended(s, "failed") /\ Breaks(s)
  /\ UNCHANGED <<disk, day, faults>>

RuntimeStep(s) ==
  \/ Start(s) \/ Prune(s) \/ Pruned(s) \/ PruneFails(s)
  \/ MakeRoot(s) \/ WriteMarker(s) \/ WriteJournal(s) \/ CreationFails(s)
  \/ Publish(s) \/ Abandon(s) \/ Abandoned(s)
  \/ Respond(s) \/ Append(s)
  \/ Interrupt(s) \/ CloseRecord(s) \/ Terminate(s) \/ Close(s) \/ CloseFails(s)

-----------------------------------------------------------------------------
(***************************************************************************)
(* A `stop` command.                                                       *)
(***************************************************************************)
Does(c, pc) == stop[c].pc = pc
Over(c, result) == stop' = [stop EXCEPT ![c].pc = "over", ![c].result = result]
StopStays == UNCHANGED <<day, faults>>

AlreadyStopped(s) == files[s] \cap {"descriptor", "root"} = {} /\ s \in stopped

ReadDescriptor(c) ==
  /\ Does(c, "idle")
  /\ \E s \in Sessions :
       /\ runtime[s].published
       /\ stop' = [stop EXCEPT ![c].target = s,
            ![c].pc = IF "descriptor" \in files[s] THEN "recovering" ELSE "over",
            ![c].result = IF "descriptor" \in files[s] THEN None
                          ELSE IF AlreadyStopped(s) THEN "stopped" ELSE "unreadable"]
  /\ UNCHANGED <<disk, runtime, removal>> /\ StopStays

(* The root is looked for and the handoff recovered before anything else.  *)
RecoverFirst(c) ==
  /\ Does(c, "recovering")
  /\ LET handoff == Recovered(stop[c].target)
     IN  IF "root" \notin files[stop[c].target] THEN Over(c, "stopped")
         ELSE IF handoff = None THEN Over(c, "refused")
         ELSE stop' = [stop EXCEPT ![c].pc = "asking", ![c].recovered = handoff]
  /\ UNCHANGED <<disk, runtime, removal>> /\ StopStays

Ask(c) ==
  /\ Does(c, "asking")
  /\ LET s == stop[c].target
     IN  /\ stop' = [stop EXCEPT ![c].pc = IF runtime[s].listening THEN "waiting" ELSE "marking"]
         /\ IF runtime[s].listening /\ Stoppable(s) THEN Goes(s, "ending") ELSE UNCHANGED runtime
  /\ UNCHANGED <<disk, removal>> /\ StopStays

Answered(c) ==
  /\ Does(c, "waiting") /\ At(stop[c].target, "closed")
  /\ stop' = [stop EXCEPT ![c].pc = "marking", ![c].answer = runtime[stop[c].target].handoff]
  /\ UNCHANGED <<disk, runtime, removal>> /\ StopStays

(* Killed while it owed an answer, or slower than the request may take.    *)
Unanswered(c) ==
  /\ Does(c, "waiting")
  /\ \/ At(stop[c].target, "crashed") /\ UNCHANGED faults
     \/ ~At(stop[c].target, "crashed") /\ Fault
  /\ stop' = [stop EXCEPT ![c].pc = "marking"]
  /\ UNCHANGED <<disk, day, runtime, removal>>

Mark(c) ==
  /\ Does(c, "marking")
  /\ stopped' = stopped \cup {stop[c].target}
  /\ stop' = [stop EXCEPT ![c].pc = "removing"]
  /\ Begin(c, "look", stop[c].target)
  /\ UNCHANGED <<files, journal, activeAt, accepted, undercut, runtime>> /\ StopStays

Handed(c) == IF stop[c].answer # None THEN stop[c].answer ELSE stop[c].recovered

Stopped(c) ==
  /\ Does(c, "removing") /\ Ended(c, "done") /\ Over(c, "handed")
  /\ UNCHANGED <<disk, runtime>> /\ StopStays

StopFails(c) ==
  /\ Does(c, "removing") /\ Ended(c, "failed") /\ Over(c, "refused")
  /\ UNCHANGED <<disk, runtime>> /\ StopStays

StopStep(c) ==
  \/ ReadDescriptor(c) \/ RecoverFirst(c) \/ Ask(c) \/ Answered(c) \/ Unanswered(c)
  \/ Mark(c) \/ Stopped(c) \/ StopFails(c)

-----------------------------------------------------------------------------
Running(s) == runtime[s].pc \notin {"none", "refused", "closed", "crashed"}

Killed(p) ==
  /\ Fault
  /\ removal' = [removal EXCEPT ![p] = NoRemoval]
  /\ UNCHANGED <<disk, day>>

KillRuntime(s) ==
  /\ Running(s) /\ Killed(s)
  /\ runtime' = [runtime EXCEPT ![s].pc = "crashed", ![s].listening = FALSE, ![s].appending = None]
  /\ UNCHANGED stop

KillStop(c) ==
  /\ stop[c].pc \notin {"idle", "over"} /\ Killed(c)
  /\ Over(c, "killed")
  /\ UNCHANGED runtime

(* Making a directory takes less than a day.                               *)
GrowStale ==
  /\ \A s \in Sessions : runtime[s].pc \notin {"marking", "journaling", "publishing"}
  /\ day < MaxDays /\ day' = day + 1
  /\ UNCHANGED <<disk, runtime, stop, removal, faults>>

Next ==
  \/ \E p \in Sessions \cup Stops : Remove(p)
  \/ \E s \in Sessions : RuntimeStep(s) \/ KillRuntime(s)
  \/ \E c \in Stops : StopStep(c) \/ KillStop(c)
  \/ GrowStale

Spec == Init /\ [][Next]_vars

-----------------------------------------------------------------------------
(***************************************************************************)
(* A directory that still holds something a retry depends on is one a      *)
(* later pass agrees to remove: whoever removes it, however many at once,  *)
(* and wherever they stop (removeSessionDirectory).  Left out: a session   *)
(* whose journal was deleted under its runtime.                            *)
(***************************************************************************)
MarkedWhileItMatters ==
  \A s \in Sessions \ undercut :
    files[s] \cap {"journal", "descriptor"} # {} => "marker" \in files[s]

(***************************************************************************)
(* A `stop` that reports success leaves nothing of the session behind, and *)
(* one the runtime answered hands over every record the journal ever took  *)
(* (stopVisualSessionClient, terminateVisualSession) - whatever other      *)
(* stops, prunes, appends and crashes happened meanwhile.                  *)
(***************************************************************************)
StopsHandOver ==
  \A c \in Stops :
    LET s == stop[c].target
    IN  /\ stop[c].result \in {"handed", "stopped"} => files[s] = {}
        /\ stop[c].result = "handed" /\ stop[c].answer # None /\ s \notin undercut =>
             accepted[s] \subseteq Handed(c)
=============================================================================
