------------------------------- MODULE Tasks -------------------------------
(***************************************************************************)
(* Waiting on the platform's background work: Client.WaitForTask           *)
(* (pkg/transpareo/task.go) and those who call it with a status URL,       *)
(* `tasks wait` and the --wait of the generated commands (cli/tasks.go,    *)
(* cli/generated.go), the MCP tools wait_for_task and export_catalogue     *)
(* (mcp/data.go), and `exports create` with its --download                 *)
(* (flows/export.go, cli/composite.go, Client.Download).                   *)
(*                                                                         *)
(* The platform's side (which statuses follow each other, that one export  *)
(* of a consumer runs at a time) is that of spec/openapi.json.  One poll   *)
(* with its retries is Exchange's and is one step here; how long the waits *)
(* between polls are is left out.  Each download has a file of its own, at *)
(* whose path an earlier archive lies.                                     *)
(***************************************************************************)
CONSTANTS
  Waiters,   \* runs of the commands and calls of the tools
  Bulks,     \* bulk creates,
  Imports,   \* steps of an import
  Exports,   \* and exports the platform may come to work on
  Endless,   \* the work that may never end
  NoTask     \* no task yet

Work == Bulks \cup Imports \cup Exports

ASSUME TasksAssumption ==
  /\ Endless \subseteq Work /\ NoTask \notin Work
  /\ Bulks \cap Imports = {} /\ (Bulks \cup Imports) \cap Exports = {}

\* "wait" a command, "tool" wait_for_task, "export" an export waited for,
\* "download" one whose archive is then fetched.
Kinds == {"wait", "tool", "export", "download"}

VARIABLES
  kind,     \* what each waiter is
  place,    \* where it is
  target,   \* the task it follows
  result,   \* how it ended
  status,   \* of each task on the platform, "none" before it is started
  reached,  \* every status each task has had
  archive   \* what lies at the path of each download

tasksVars == <<kind, place, target, result, status, reached, archive>>

TasksInit ==
  /\ kind \in [Waiters -> Kinds]
  /\ place = [w \in Waiters |-> "start"]
  /\ target = [w \in Waiters |-> NoTask]
  /\ result = [w \in Waiters |-> "none"]
  /\ status = [t \in Work |-> "none"]
  /\ reached = [t \in Work |-> {}]
  /\ archive = [w \in Waiters |-> "earlier"]

-----------------------------------------------------------------------------
(* The platform. *)

\* The statuses that may follow a running one.
Successors(t, s) ==
  CASE s = "pending" /\ t \in Bulks -> {"running", "failed", "cancelled"}
    [] s = "pending" -> {"running", "failed"}
    [] s = "running" /\ t \in Bulks -> {"completed", "failed", "cancelled"}
    [] s = "running" -> {"completed", "failed"}
    [] s = "validating" -> {"validated", "failed"}
    [] s = "importing" -> {"completed", "failed"}
    [] s = "restoring" -> {"reverted", "failed"}
    [] OTHER -> {}

\* What a colleague may have an import do next: a run can be reverted when it
\* is completed, and when it failed having written.
Resume(t) ==
  CASE status[t] = "validated" -> {"validating", "importing"}
    [] status[t] = "completed" -> {"restoring"}
    [] status[t] = "failed" /\ "importing" \in reached[t] -> {"restoring"}
    [] OTHER -> {}

Turns(t, s) ==
  /\ status' = [status EXCEPT ![t] = s]
  /\ reached' = [reached EXCEPT ![t] = @ \cup {s}]

\* A bulk create or an import is started by somebody.
Started(t) ==
  /\ status[t] = "none" /\ t \notin Exports
  /\ Turns(t, IF t \in Bulks THEN "pending" ELSE "validating")
  /\ UNCHANGED <<kind, place, target, result, archive>>

Progress(t) ==
  /\ \E s \in Successors(t, status[t]) : Turns(t, s)
  /\ UNCHANGED <<kind, place, target, result, archive>>

Resumed(t) ==
  /\ t \in Imports
  /\ \E s \in Resume(t) \ reached[t] : Turns(t, s)
  /\ UNCHANGED <<kind, place, target, result, archive>>

-----------------------------------------------------------------------------
\* Mutant of Running: an import being restored counts as at rest.
RunningWithoutRestoring == {"pending", "running", "validating", "importing"}

\* runningStatuses.
Running == {"pending", "running", "validating", "importing", "restoring"}

\* Mutant of TaskDone: a wait knows only the endings it hopes for.
TaskDoneWell(s) == s \in {"completed", "validated", "reverted"}

TaskDone(s) == s \notin Running

\* Mutant of TaskFailed: a cancelled task counts as done.
TaskFailedOnly(s) == s = "failed"

TaskFailed(s) == s \in {"failed", "cancelled"}

Ends(w, how) ==
  /\ place' = [place EXCEPT ![w] = "ended"]
  /\ result' = [result EXCEPT ![w] = how]

Goes(w, p) == place' = [place EXCEPT ![w] = p] /\ UNCHANGED result

\* A status URL is known once the work has been started.
Follows(w) ==
  /\ place[w] = "start" /\ kind[w] \in {"wait", "tool"}
  /\ \E t \in Work :
       /\ status[t] # "none"
       /\ target' = [target EXCEPT ![w] = t]
  /\ Goes(w, "poll")
  /\ UNCHANGED <<kind, status, reached, archive>>

\* StartExport: the platform refuses one while another runs.
StartExport(w) ==
  /\ place[w] = "start" /\ kind[w] \in {"export", "download"}
  /\ \/ \E t \in Exports :
          /\ status[t] = "none"
          /\ \A other \in Exports : status[other] \notin Running
          /\ Turns(t, "pending")
          /\ target' = [target EXCEPT ![w] = t]
          /\ Goes(w, "poll")
     \/ Ends(w, "error") /\ UNCHANGED <<target, status, reached>>
  /\ UNCHANGED <<kind, archive>>

\* Mutant of Concluded: an archive is fetched that nobody asked for.
ConcludedFetching(w, s) ==
  IF kind[w] \in {"wait", "tool"}
  THEN Ends(w, IF TaskFailed(s) THEN "failed" ELSE "ok")
  ELSE \/ s = "failed" /\ Ends(w, "failed")
       \/ s # "failed" /\ Goes(w, "create")

\* What each caller makes of a task that is done: only WaitForTask's callers
\* ask TaskFailed, WaitExport knows "failed" alone.
Concluded(w, s) ==
  IF kind[w] \in {"wait", "tool"}
  THEN Ends(w, IF TaskFailed(s) THEN "failed" ELSE "ok")
  ELSE \/ s = "failed" /\ Ends(w, "failed")
       \/ s # "failed" /\ kind[w] = "export" /\ Ends(w, "ok")
       \/ s # "failed" /\ kind[w] = "download" /\ Goes(w, "create")

\* GetTask and what WaitForTask does with it.
Poll(w) ==
  LET s == status[target[w]]
  IN /\ place[w] = "poll"
     /\ \/ Ends(w, "error")
        \/ TaskDone(s) /\ Concluded(w, s)
        \/ ~TaskDone(s) /\ Goes(w, "sleep")
     /\ UNCHANGED <<kind, target, status, reached, archive>>

Wake(w) ==
  /\ place[w] = "sleep"
  /\ Goes(w, "poll")
  /\ UNCHANGED <<kind, target, status, reached, archive>>

\* The deadline of wait_for_task ends its context, between two polls or in
\* the middle of one.
Expire(w) ==
  /\ kind[w] = "tool" /\ place[w] \in {"poll", "sleep"}
  /\ Ends(w, "error")
  /\ UNCHANGED <<kind, target, status, reached, archive>>

\* The user stops a command, the client of the assistant a call.
Interrupt(w) ==
  /\ place[w] # "ended"
  /\ Ends(w, "error")
  /\ UNCHANGED <<kind, target, status, reached, archive>>

-----------------------------------------------------------------------------
\* exportsCreate: os.Create empties the file, or cannot.
Create(w) ==
  /\ place[w] = "create"
  /\ \/ archive' = [archive EXCEPT ![w] = "empty"] /\ Goes(w, "copy")
     \/ Ends(w, "error") /\ UNCHANGED archive
  /\ UNCHANGED <<kind, target, status, reached>>

\* Mutant of Copy: a body that stops short is taken for a whole one.
CopyUnchecked(w) ==
  /\ place[w] = "copy"
  /\ \/ archive' = [archive EXCEPT ![w] = "whole"] /\ Ends(w, "ok")
     \/ archive' = [archive EXCEPT ![w] = "part"] /\ Ends(w, "ok")
     \/ Ends(w, "error") /\ UNCHANGED archive
  /\ UNCHANGED <<kind, target, status, reached>>

\* Client.Download: refused, whole, or broken off; never retried.
Copy(w) ==
  /\ place[w] = "copy"
  /\ \/ archive' = [archive EXCEPT ![w] = "whole"] /\ Ends(w, "ok")
     \/ archive' = [archive EXCEPT ![w] = "part"] /\ Ends(w, "error")
     \/ Ends(w, "error") /\ UNCHANGED archive
  /\ UNCHANGED <<kind, target, status, reached>>

-----------------------------------------------------------------------------
Begin(w) == Follows(w) \/ StartExport(w)

Step(w) == Poll(w) \/ Wake(w) \/ Create(w) \/ Copy(w)

TasksNext ==
  \/ \E t \in Work : Started(t) \/ Progress(t) \/ Resumed(t)
  \/ \E w \in Waiters : Begin(w) \/ Step(w) \/ Expire(w) \/ Interrupt(w)

\* Every step of a waiter comes, the timer of a tool's deadline fires, and
\* the platform ends what is not endless.
TasksFairness ==
  /\ \A w \in Waiters : WF_tasksVars(Step(w)) /\ WF_tasksVars(Expire(w))
  /\ \A t \in Work \ Endless : WF_tasksVars(Progress(t))

TasksSpec == TasksInit /\ [][TasksNext]_tasksVars /\ TasksFairness

-----------------------------------------------------------------------------
Places == {"start", "poll", "sleep", "create", "copy", "ended"}

TasksTypeOK ==
  /\ kind \in [Waiters -> Kinds]
  /\ place \in [Waiters -> Places]
  /\ target \in [Waiters -> Work \cup {NoTask}]
  /\ result \in [Waiters -> {"none", "ok", "failed", "error"}]
  /\ archive \in [Waiters -> {"earlier", "empty", "part", "whole"}]
  /\ \A w \in Waiters :
       /\ result[w] # "none" <=> place[w] = "ended"
       /\ place[w] \in {"create", "copy"} => kind[w] = "download"
       /\ place[w] \notin {"start", "ended"} => target[w] \in Work

(* In the step a wait is told how its work ended, the work is at rest and  *)
(* ended that way: nothing is still being written, undone or checked, and  *)
(* called off or failed work is told as failed, any other as done (task.go *)
(* runningStatuses and Failed, their callers, cli/tasks.go "A task that    *)
(* failed exits with 1").  A colleague may have an import go on later.     *)
RestedWhenTold ==
  [][\A w \in Waiters :
       result[w] = "none" /\ result'[w] \in {"ok", "failed"} =>
         /\ Successors(target[w], status[target[w]]) = {}
         /\ result'[w] = "failed" <=>
              status[target[w]] \in {"failed", "cancelled"}]_tasksVars

(* What lies at the path of a download fits what the command said: after   *)
(* success the whole archive, after a failed export still the earlier one, *)
(* and nothing is touched before the export is complete.  The earlier one  *)
(* is given up then: a download that breaks off leaves an empty or a part  *)
(* archive in its place, but always says so (composite.go exportsCreate).  *)
DownloadsKeepWord ==
  \A w \in Waiters :
    /\ archive[w] # "earlier" => status[target[w]] = "completed"
    /\ kind[w] = "download" /\ result[w] = "ok" => archive[w] = "whole"
    /\ result[w] = "failed" => archive[w] = "earlier"
    /\ archive[w] \in {"empty", "part"} => result[w] = "error" \/ place[w] = "copy"

(* A wait ends: the tool's by its deadline whatever the work does, any     *)
(* other when the work does (data.go waitForTask, task.go WaitForTask).    *)
WaitEnds ==
  \A w \in Waiters :
    place[w] \in Places \ {"start", "ended"} ~>
      \/ place[w] = "ended"
      \/ target[w] \in Endless /\ kind[w] # "tool"

-----------------------------------------------------------------------------
(* The inductive invariant behind the theorems of WorkProofs. *)

\* What each kind of work may come to.
StatusesOf(t) ==
  {"none", "failed"} \cup
    (IF t \in Imports
     THEN {"validating", "validated", "importing", "completed", "restoring", "reverted"}
     ELSE {"pending", "running", "completed"})
    \cup (IF t \in Bulks THEN {"cancelled"} ELSE {})

StatusInv ==
  /\ status \in [Work -> UNION {StatusesOf(t) : t \in Work}]
  /\ reached \in [Work -> SUBSET UNION {StatusesOf(t) : t \in Work}]
  /\ \A t \in Work :
       /\ status[t] \in StatusesOf(t)
       /\ status[t] # "none" => status[t] \in reached[t]

\* A waiter follows work that was started, a download a completed export.
FollowInv ==
  \A w \in Waiters :
    /\ place[w] \notin {"start", "ended"} \/ result[w] \in {"ok", "failed"} =>
         target[w] \in Work /\ status[target[w]] # "none"
    /\ kind[w] \in {"export", "download"} => target[w] \in Exports \cup {NoTask}
    /\ place[w] \in {"create", "copy"} => status[target[w]] = "completed"
    /\ archive[w] # "earlier" =>
         /\ place[w] \in {"copy", "ended"} /\ kind[w] = "download"
         /\ target[w] \in Exports

WaitInv == TasksTypeOK /\ StatusInv /\ FollowInv /\ DownloadsKeepWord

=============================================================================
