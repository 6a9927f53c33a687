------------------------------ MODULE Reporters ------------------------------
(***************************************************************************)
(* BroadcastReporter, and the reporters that keep state: the progress      *)
(* counters, the event recorder, the html and the dashboard reporter.      *)
(* "plugin" is a reporter of somebody else: its handlers may throw, which  *)
(* has no effect, and its wrapUp() may reject.                             *)
(*                                                                         *)
(* Work that a reporter starts and does not await goes on by itself:       *)
(* files that are written, a report that is uploaded.  wrapUp() is where   *)
(* Stryker waits for it.                                                   *)
(***************************************************************************)
EXTENDS Naturals, FiniteSets

CONSTANT ReportFiles                   \* how many files the html report has
ASSUME ReportersAssumption == ReportFiles \in Nat \ {0}

VARIABLES reporters,   \* the names of the reporters
          progress,    \* ProgressKeeper's counters, and the interval
          recorder,    \* EventRecorderReporter
          html,        \* HtmlReporter
          dashboard,   \* DashboardReporter.onGoingWork
          wrapUps      \* the promise of each wrapUp(), "none" before the call

reporterVars == <<reporters, progress, recorder, html, dashboard, wrapUps>>
working == <<recorder, html, dashboard>>

Promise == {"none", "pending", "resolved", "rejected"}

NoProgress == [total |-> 0, tested |-> 0, survived |-> 0, timedOut |-> 0,
               uncovered |-> {}, interval |-> FALSE]

ProgressType(mutants) == [total : Nat, tested : Nat, survived : Nat, timedOut : Nat,
                          uncovered : SUBSET mutants, interval : BOOLEAN]
RecorderType == [folder : Promise, waiting : Nat, writing : Nat, failed : BOOLEAN]
HtmlType == [main : Promise, cleaning : BOOLEAN, copying : 0..ReportFiles]
ReportersTypeOK(mutants) ==
  /\ progress \in ProgressType(mutants)
  /\ recorder \in RecorderType
  /\ html \in HtmlType
  /\ dashboard \in Promise
  /\ \A r \in DOMAIN wrapUps : wrapUps[r] \in Promise

InitReporters ==
  /\ reporters = {} /\ progress = NoProgress
  /\ recorder = [folder |-> "none", waiting |-> 0, writing |-> 0, failed |-> FALSE]
  /\ html = [main |-> "none", cleaning |-> FALSE, copying |-> 0]
  /\ dashboard = "none"
  /\ wrapUps = << >>

----------------------------------------------------------------------------
(* Creation.  The record of an event recorder starts with its folder being cleaned. *)

CreateReporter(name, isTTY) ==
  IF name = "progress" /\ ~isTTY THEN "progress-append-only" ELSE name

CreateReporters(names, isTTY) ==
  /\ reporters' = {CreateReporter(name, isTTY) : name \in names}
  /\ recorder' = IF "event-recorder" \in names
                 THEN [recorder EXCEPT !.folder = "pending"] ELSE recorder
  /\ UNCHANGED <<progress, html, dashboard, wrapUps>>

----------------------------------------------------------------------------
(* The event recorder: one file for each event, written when the folder is there. *)

Work(r) == CASE r.folder = "pending"  -> [r EXCEPT !.waiting = @ + 1]
             [] r.folder = "resolved" -> [r EXCEPT !.writing = @ + 1]
             [] OTHER                 -> r

Record == recorder' = Work(recorder)

CleanFolder ==
  /\ recorder.folder = "pending"
  /\ recorder' \in {[recorder EXCEPT !.folder = "resolved", !.waiting = 0, !.writing = recorder.waiting],
                    [recorder EXCEPT !.folder = "rejected", !.waiting = 0]}
  /\ UNCHANGED <<reporters, progress, html, dashboard, wrapUps>>

WriteEvent ==
  /\ recorder.writing > 0
  /\ \E failed \in {recorder.failed, TRUE} :
       recorder' = [recorder EXCEPT !.writing = recorder.writing - 1, !.failed = failed]
  /\ UNCHANGED <<reporters, progress, html, dashboard, wrapUps>>

----------------------------------------------------------------------------
(* The html reporter: the base folder is emptied and made, then all files are copied at once. *)

GenerateReport(h) == IF "html" \in reporters THEN [h EXCEPT !.main = "pending", !.cleaning = TRUE] ELSE h

CleanBaseFolder ==
  /\ html.cleaning
  /\ html' \in {[html EXCEPT !.cleaning = FALSE, !.copying = ReportFiles],
                [html EXCEPT !.cleaning = FALSE, !.main = "rejected"]}
  /\ UNCHANGED <<reporters, progress, recorder, dashboard, wrapUps>>

CopyFile ==
  /\ html.copying > 0
  /\ \E ok \in BOOLEAN :
       html' = [html EXCEPT !.copying = html.copying - 1,
                            !.main = CASE ~ok -> "rejected"
                                       [] ok /\ html.main = "pending" /\ html.copying = 1 -> "resolved"
                                       [] OTHER -> html.main]
  /\ UNCHANGED <<reporters, progress, recorder, dashboard, wrapUps>>

----------------------------------------------------------------------------
(* The dashboard: determining the project may throw (a CI variable is missing), or find nothing; the *)
(* errors of an upload are caught. *)

SendReport == IF "dashboard" \in reporters THEN {"pending", "resolved", "rejected"} ELSE {"none"}

UpdateReport ==
  /\ dashboard = "pending"
  /\ dashboard' = "resolved"
  /\ UNCHANGED <<reporters, progress, recorder, html, wrapUps>>

----------------------------------------------------------------------------
(* The progress reporters *)

ShowsProgress == reporters \cap {"progress", "progress-append-only"} # {}

MutantsMatched(matched, uncovered) ==
  IF ShowsProgress
  THEN [progress EXCEPT !.uncovered = uncovered,
                        !.total = Cardinality(matched) - Cardinality(uncovered),
                        !.interval = matched # {} /\ "progress-append-only" \in reporters]
  ELSE progress

BugCountsUncovered(m, status) ==
  IF ShowsProgress
  THEN [progress EXCEPT !.tested = @ + 1,
                        !.survived = IF status = "Survived" THEN @ + 1 ELSE @,
                        !.timedOut = IF status = "TimedOut" THEN @ + 1 ELSE @]
  ELSE progress
MutantTested(m, status) ==
  IF ShowsProgress
  THEN [progress EXCEPT !.tested = progress.tested + (IF m \in progress.uncovered THEN 0 ELSE 1),
                        !.survived = progress.survived + (IF status = "Survived" THEN 1 ELSE 0),
                        !.timedOut = progress.timedOut + (IF status = "TimedOut" THEN 1 ELSE 0)]
  ELSE progress

BugKeepsTicking(p) == p
AllMutantsTested(p) == [p EXCEPT !.interval = FALSE]

----------------------------------------------------------------------------
(* The events.  No handler is awaited but wrapUp(). *)

OnSourceFileRead == Record /\ UNCHANGED <<reporters, progress, html, dashboard, wrapUps>>
OnAllSourceFilesRead == Record /\ UNCHANGED <<reporters, progress, html, dashboard, wrapUps>>

OnAllMutantsMatchedWithTests(matched, uncovered) ==
  /\ progress' = MutantsMatched(matched, uncovered)
  /\ Record
  /\ UNCHANGED <<reporters, html, dashboard, wrapUps>>

OnMutantTested(m, status) ==
  /\ progress' = MutantTested(m, status)
  /\ Record
  /\ UNCHANGED <<reporters, html, dashboard, wrapUps>>

\* The last mutant: onMutantTested, onAllMutantsTested, and as nothing happens in between
\* onMutationTestReportReady and the calls of wrapUp().
WrappingUp == reporters \cap {"event-recorder", "html", "dashboard", "plugin"}

OnLastMutantTested(m, status) ==
  /\ progress' = AllMutantsTested(MutantTested(m, status))
  /\ recorder' = Work(Work(Work(recorder)))
  /\ html' = GenerateReport(html)
  /\ dashboard' \in SendReport
  /\ wrapUps' = [r \in WrappingUp |-> "pending"]
  /\ UNCHANGED reporters

----------------------------------------------------------------------------
(* wrapUp() of each reporter, and of BroadcastReporter, which catches what they throw. *)

RecorderWrapUp ==
  CASE recorder.folder = "rejected" \/ recorder.failed -> "rejected"
    [] recorder.folder = "resolved" /\ recorder.writing = 0 /\ ~recorder.failed -> "resolved"
    [] OTHER -> "pending"

WrapUpResults(r) ==
  CASE r = "event-recorder" -> {RecorderWrapUp}
    [] r = "html"      -> {html.main}
    [] r = "dashboard" -> {dashboard}
    [] OTHER -> {"resolved", "rejected"}

ReporterWrapsUp(r) ==
  /\ r \in DOMAIN wrapUps /\ wrapUps[r] = "pending"
  /\ \E result \in WrapUpResults(r) \ {"pending"} : wrapUps' = [wrapUps EXCEPT ![r] = result]
  /\ UNCHANGED <<reporters, progress, working>>

\* `broadcast` awaits all of them.  If an error were not caught, Promise.all would stop at the first.
BugFailsFast == \/ \A r \in DOMAIN wrapUps : wrapUps[r] # "pending"
                \/ \E r \in DOMAIN wrapUps : wrapUps[r] = "rejected"
BroadcastWrapUpDone == \A r \in DOMAIN wrapUps : wrapUps[r] # "pending"

ReporterStep ==
  \/ CleanFolder \/ WriteEvent \/ CleanBaseFolder \/ CopyFile \/ UpdateReport
  \/ \E r \in DOMAIN wrapUps : ReporterWrapsUp(r)

\* What a reporter has not done yet.
Unfinished(r) ==
  CASE r = "event-recorder" -> recorder.waiting + recorder.writing > 0
    [] r = "html"      -> html.cleaning \/ html.copying > 0
    [] r = "dashboard" -> dashboard = "pending"
    [] OTHER -> FALSE
=============================================================================
