----------------------------- MODULE Finalizer ------------------------------
(***************************************************************************)
(* "vibedrive task finalize" (automation.Finalize): the process a workflow *)
(* starts after its agents are done.  It reads the task result, runs the   *)
(* verify commands, and moves the outcome into the plan and the task       *)
(* notes, one file operation at a time, before it commits.                 *)
(*                                                                         *)
(* Simplifications:                                                        *)
(*  - a note is a message the agents chose plus the marks vibedrive adds   *)
(*    to it, each at most once;                                            *)
(*  - legacy notes inside the plan file are left out (Save clears them);   *)
(*  - the repository is the plan its HEAD holds: the model does not look   *)
(*    inside the workers' code changes;                                    *)
(*  - os.WriteFile truncates before it writes, so a process that dies in a *)
(*    Save may leave an empty file.  An empty plan fails Validate; empty   *)
(*    notes parse as no notes at all.                                      *)
(***************************************************************************)
EXTENDS TaskPlan, FiniteSets

CONSTANTS
  Msgs,        \* what agents may write as notes ("" is an empty note)
  HasVerify,   \* the tasks with verify_commands
  AbortsAt     \* the finalizer phases a timeout, signal or I/O error may hit

\* What vibedrive adds to a text: VerificationFailureNotePrefix, the note about
\* a review that was never written, and those of the parallel integration.
Marks == {"verify", "review",
          "failed", "uncollected", "synced", "unapplied", "unverified"}

\* "missing" and "invalid" are the runner's own messages.
Texts == [msg: Msgs \cup {"", "missing", "invalid"}, marks: SUBSET Marks]

EmptyText == [msg |-> "", marks |-> {}]

ResultStatuses == Statuses \ {"todo"}
Results == [status: ResultStatuses, text: Texts]
Notes == [status: Statuses, text: Texts]

NoFile == [absent |-> TRUE]      \* nothing at the path, or no entry
BadFile == [malformed |-> TRUE]  \* unparsable, or a status out of the schema
Review == [by |-> "reviewer"]    \* a valid peer review; nobody reads its decision
OwnReview == [by |-> "vibedrive"] \* the fallback that stands in for one

Phases == {"load", "verify", "apply", "removeReview", "saveNotes",
           "savePlan", "commit"}
Exits == {"exitOK", "exitVerify", "exitError"}

ASSUME FinalizerAssumption ==
  HasVerify \subseteq Tasks /\ AbortsAt \subseteq Phases

VARIABLES
  plan,         \* vibedrive-plan.yaml, as it was last written completely
  torn,         \* the files whose last write was cut short
  notes,        \* .vibedrive/task-notes.yaml, by task
  notesParse,   \* whether the notes file is valid YAML
  result,       \* .vibedrive/task-results/<task>.json
  review,       \* .vibedrive/reviews/<task>.json
  head,         \* the plan in the repository's HEAD commit
  fpc,          \* the finalizer process: "idle", a phase, or how it exited
  fplan,        \* its copy of the plan, loaded before the verify commands
  fnotes,       \* its copy of the notes
  fresult,      \* the outcome it is going to record
  ffailed,      \* whether that outcome stands for a failed verification
  verified      \* history: the tasks whose verify commands passed, since
                \* their agents last worked on them

files == <<plan, torn, notes, notesParse, result, review, head>>
fvars == <<fpc, fplan, fnotes, fresult, ffailed, verified>>

PlanReadable == "plan" \notin torn

FinalizerTypeOK ==
  /\ plan \in [Tasks -> Statuses]
  /\ torn \subseteq {"plan", "notes"}
  /\ notes \in [Tasks -> Notes \cup {NoFile}]
  /\ notesParse \in BOOLEAN
  /\ result \in [Tasks -> Results \cup {NoFile, BadFile}]
  /\ review \in [Tasks -> {NoFile, BadFile, Review, OwnReview}]
  /\ head \in [Tasks -> Statuses]
  /\ fpc \in {"idle"} \cup Phases \cup Exits
  /\ fplan \in [Tasks -> Statuses]
  /\ fnotes \in [Tasks -> Notes \cup {NoFile}]
  /\ fresult \in Results
  /\ ffailed \in BOOLEAN
  /\ verified \subseteq Tasks

FinalizerInit ==
  /\ plan \in [Tasks -> Statuses]
  /\ torn = {}
  /\ notes = [t \in Tasks |-> NoFile]
  /\ notesParse = TRUE
  /\ result = [t \in Tasks |-> NoFile]
  /\ review = [t \in Tasks |-> NoFile]
  /\ head = plan
  /\ fpc = "idle"
  /\ fplan = plan
  /\ fnotes = notes
  /\ fresult = [status |-> "in_progress", text |-> EmptyText]
  /\ ffailed = FALSE
  /\ verified = {t \in Tasks : plan[t] = "done"}

-----------------------------------------------------------------------------
\* appendFailureNote
WithMark(text, mark) == [text EXCEPT !.marks = @ \cup {mark}]

\* The task stays done; it gets a status the schema does not have.
BugFailedResult(r) == [status |-> r.status, text |-> WithMark(r.text, "verify")]
BugFailedStatus(r) == [status |-> "failed", text |-> WithMark(r.text, "verify")]

\* What is recorded instead of a "done" whose verification failed.
FailedResult(r) ==
  [status |-> "in_progress", text |-> WithMark(r.text, "verify")]

\* A verification failure is recorded in the notes of task t.
FailureNoted(t) ==
  /\ notesParse
  /\ notes[t] # NoFile
  /\ notes[t].status = "in_progress"
  /\ "verify" \in notes[t].text.marks

\* loadTask, loadResult, normalizeStatus and loadTaskNotes.
FinLoadFails(t) ==
  /\ fpc = "load"
  /\ ~PlanReadable \/ result[t] \notin Results \/ ~notesParse
  /\ fpc' = "exitError"
  /\ UNCHANGED <<files, fplan, fnotes, fresult, ffailed, verified>>

\* A "done" goes straight into the plan.
BugFinLoad(t) ==
  /\ fpc = "load"
  /\ PlanReadable /\ result[t] \in Results /\ notesParse
  /\ fplan' = plan
  /\ fnotes' = notes
  /\ fresult' = result[t]
  /\ ffailed' = FALSE
  /\ fpc' = "apply"
  /\ UNCHANGED <<files, verified>>

\* The plan of the last commit instead of the file.
BugFinLoadCommitted(t) ==
  /\ fpc = "load"
  /\ PlanReadable /\ result[t] \in Results /\ notesParse
  /\ fplan' = head
  /\ fnotes' = notes
  /\ fresult' = result[t]
  /\ ffailed' = FALSE
  /\ fpc' = IF result[t].status = "done" THEN "verify" ELSE "apply"
  /\ UNCHANGED <<files, verified>>

FinLoad(t) ==
  /\ fpc = "load"
  /\ PlanReadable /\ result[t] \in Results /\ notesParse
  /\ fplan' = plan
  /\ fnotes' = notes
  /\ fresult' = result[t]
  /\ ffailed' = FALSE
  /\ fpc' = IF result[t].status = "done" THEN "verify" ELSE "apply"
  /\ UNCHANGED <<files, verified>>

\* runVerifyCommands: every command succeeds ...
FinVerifyPasses(t) ==
  /\ fpc = "verify"
  /\ fpc' = "apply"
  /\ verified' = verified \cup {t}
  /\ UNCHANGED <<files, fplan, fnotes, fresult, ffailed>>

\* ... or the first that does not ends the verification.
FinVerifyFails(t) ==
  /\ fpc = "verify"
  /\ t \in HasVerify
  /\ fpc' = "apply"
  /\ fresult' = FailedResult(fresult)
  /\ ffailed' = TRUE
  /\ verified' = verified \ {t}
  /\ UNCHANGED <<files, fplan, fnotes>>

\* The result file is left behind.
BugFinApply(t) ==
  /\ fpc = "apply"
  /\ fplan' = [fplan EXCEPT ![t] = fresult.status]
  /\ fnotes' = [fnotes EXCEPT ![t] = fresult]
  /\ fpc' = "removeReview"
  /\ UNCHANGED <<files, fresult, ffailed, verified>>

\* applyResult and Upsert change the copies, removeResultFile the first file:
\* from here on the outcome is only in the process's memory.
FinApply(t) ==
  /\ fpc = "apply"
  /\ fplan' = [fplan EXCEPT ![t] = fresult.status]
  /\ fnotes' = [fnotes EXCEPT ![t] = fresult]
  /\ result' = [result EXCEPT ![t] = NoFile]
  /\ fpc' = "removeReview"
  /\ UNCHANGED <<plan, torn, notes, notesParse, review, head,
                 fresult, ffailed, verified>>

\* The notes are never saved.
BugFinRemoveReview(t) ==
  /\ fpc = "removeReview"
  /\ review' = [review EXCEPT ![t] = NoFile]
  /\ fpc' = "savePlan"
  /\ UNCHANGED <<plan, torn, notes, notesParse, result, head,
                 fplan, fnotes, fresult, ffailed, verified>>

FinRemoveReview(t) ==
  /\ fpc = "removeReview"
  /\ review' = [review EXCEPT ![t] = NoFile]
  /\ fpc' = "saveNotes"
  /\ UNCHANGED <<plan, torn, notes, notesParse, result, head,
                 fplan, fnotes, fresult, ffailed, verified>>

FinSaveNotes ==
  /\ fpc = "saveNotes"
  /\ notes' = fnotes
  /\ fpc' = "savePlan"
  /\ UNCHANGED <<plan, torn, notesParse, result, review, head,
                 fplan, fnotes, fresult, ffailed, verified>>

\* A failed verification ends here, uncommitted, with a VerificationError.
FinSavePlan ==
  /\ fpc = "savePlan"
  /\ plan' = fplan
  /\ fpc' = IF ffailed THEN "exitVerify" ELSE "commit"
  /\ UNCHANGED <<torn, notes, notesParse, result, review, head,
                 fplan, fnotes, fresult, ffailed, verified>>

\* CommitIfNeeded stages every change of the workspace, so HEAD gets the plan
\* file as it is.
FinCommit ==
  /\ fpc = "commit"
  /\ head' = plan
  /\ fpc' = "exitOK"
  /\ UNCHANGED <<plan, torn, notes, notesParse, result, review,
                 fplan, fnotes, fresult, ffailed, verified>>

\* What the files look like after the process dies in phase fpc.
WritesCutShort ==
  \/ UNCHANGED <<torn, notes>>
  \/ /\ fpc = "saveNotes"
     /\ torn' = torn \cup {"notes"}
     /\ notes' = [t \in Tasks |-> NoFile]
  \/ /\ fpc = "savePlan"
     /\ torn' = torn \cup {"plan"}
     /\ UNCHANGED notes

\* A failing Remove, Save or git command, or the kill that ends a step at its
\* timeout: the process exits with the rest undone.
FinAborts ==
  /\ fpc \in AbortsAt
  /\ fpc' = "exitError"
  /\ WritesCutShort
  /\ UNCHANGED <<plan, notesParse, result, review, head,
                 fplan, fnotes, fresult, ffailed, verified>>

FinalizerStep(t) ==
  \/ FinLoadFails(t) \/ FinLoad(t)
  \/ FinVerifyPasses(t) \/ FinVerifyFails(t)
  \/ FinApply(t) \/ FinRemoveReview(t)
  \/ FinSaveNotes \/ FinSavePlan \/ FinCommit
  \/ FinAborts
=============================================================================
