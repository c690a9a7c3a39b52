----------------------------- MODULE ImportRun -----------------------------
(***************************************************************************)
(* internal/flows/import.go: Run takes a spreadsheet through an import job *)
(* of the platform (upload, mapping, validation, execution), polling the   *)
(* job in between, as `transpareo imports run` and the MCP tool            *)
(* import_spreadsheet start it.  Other programs that hold the same         *)
(* credential see the same job and may send it a mapping meanwhile         *)
(* (`transpareo imports map`, cli/composite.go), or revert it.             *)
(*                                                                         *)
(* The rows and the columns are left out: a mapping is named by the        *)
(* program that sent it, and what ResolveMappings makes of a preview is an *)
(* outcome.  The platform's side follows spec/openapi.json.                *)
(***************************************************************************)
CONSTANTS
  Run,      \* the program that runs the import
  Mappers,  \* programs that map or revert the same import
  Nobody    \* no mapping yet

ASSUME ImportAssumption ==
  Run \notin Mappers /\ Nobody \notin Mappers /\ Run # Nobody

VARIABLES
  opts,      \* RunOptions.Execute, Options.Auto and the --read-only flag
  pc,        \* where Run is, or how it ended
  mapperPc,  \* where each of the other programs is
  job,       \* the import: its status and mapping, the rows found failing, and
             \* whether there is a backup or a record to revert
  clean,     \* mappings a validation passed
  landed     \* mappings rows were written under

vars == <<opts, pc, mapperPc, job, clean, landed>>

-----------------------------------------------------------------------------
Programs == Mappers \cup {Run}

\* "none" until the upload; the rest is the enumeration of the platform.
Statuses == {"none", "fresh", "mapped", "validating", "validated",
             "importing", "completed", "failed", "restoring", "reverted"}

Jobs == [status : Statuses, mapping : Programs \cup {Nobody},
         failing : BOOLEAN, revertable : BOOLEAN]

Options == [execute : BOOLEAN, auto : BOOLEAN, readOnly : BOOLEAN]

\* The exit codes: rows written, validation passed, columns unmapped (5),
\* findings (3), refused (before any call), any other failure.
Ended == {"written", "passed", "unmapped", "invalid", "refused", "error"}

PC == Ended \cup {"guard", "upload", "map", "validate", "validating",
                  "execute", "importing", "auto"}

\* Mutant of Done: a wait knows only the endings it hopes for.
DoneWell(status) == status \in {"validated", "completed"}

\* Task.Done: every status but the running ones ends a wait.
Done(status) == status \notin {"validating", "importing", "restoring"}

Init ==
  /\ opts \in Options
  /\ pc = "guard"
  /\ mapperPc = [m \in Mappers |-> "get"]
  /\ job = [status |-> "none", mapping |-> Nobody, failing |-> FALSE, revertable |-> FALSE]
  /\ clean = {}
  /\ landed = {}

-----------------------------------------------------------------------------
(* The command and Run. *)

Become(status) == job' = [job EXCEPT !.status = status]

\* Mutant of Permitted: only --execute is weighed as a write.
PermittedUnlessExecute(o) == ~(o.readOnly /\ o.execute)

\* importsRun: a run that may write is guarded as execute_import, which
\* --read-only refuses; any other as validate_import, which is safe.
Permitted(o) == ~(o.readOnly /\ (o.execute \/ o.auto))

Guard ==
  /\ pc = "guard"
  /\ pc' = IF Permitted(opts) THEN "upload" ELSE "refused"
  /\ UNCHANGED <<opts, mapperPc, job, clean, landed>>

\* Run: an automatic upload is under validation at once, one whose columns
\* all resolve is mapped, any other is fresh and has a mapping to find:
\* ResolveMappings completes it, leaves columns over or knows no such column.
Upload ==
  /\ pc = "upload"
  /\ \/ /\ opts.auto
        /\ job' = [job EXCEPT !.status = "validating", !.mapping = Run]
        /\ pc' = "auto"
     \/ /\ ~opts.auto
        /\ job' = [job EXCEPT !.status = "mapped", !.mapping = Run]
        /\ pc' = "validate"
     \/ /\ ~opts.auto
        /\ Become("fresh")
        /\ pc' \in {"map", "unmapped", "error"}
  /\ UNCHANGED <<opts, mapperPc, clean, landed>>

Mappable == job.status \in {"fresh", "mapped", "validated"}

\* The platform stores a mapping; the findings of an earlier validation may
\* stay with the import.
Map(program) ==
  \E failing \in {FALSE, job.failing} :
    job' = [job EXCEPT !.status = "mapped", !.mapping = program, !.failing = failing]

SendMappings ==
  /\ pc = "map"
  /\ \/ Mappable /\ Map(Run) /\ pc' = "validate"
     \/ ~Mappable /\ pc' = "error" /\ UNCHANGED job
  /\ UNCHANGED <<opts, mapperPc, clean, landed>>

\* runStep: the platform starts the step unless the import is not mapped or
\* has a task running or behind it.
StartStep(step) ==
  \/ /\ job.status \in {"mapped", "validated"}
     /\ job' = [job EXCEPT !.status = step, !.failing = FALSE]
     /\ pc' = step
  \/ /\ job.status \notin {"mapped", "validated"}
     /\ pc' = "error"
     /\ UNCHANGED job

StartValidation ==
  /\ pc = "validate"
  /\ StartStep("validating")
  /\ UNCHANGED <<opts, mapperPc, clean, landed>>

\* Mutant of Validated: the findings are not looked at.
ValidatedUnread ==
  /\ pc = "validating"
  /\ Done(job.status)
  /\ pc' = IF opts.execute THEN "execute" ELSE "passed"
  /\ UNCHANGED <<opts, mapperPc, job, clean, landed>>

\* Validate, once a poll finds the import at rest: failing rows end the run.
Validated ==
  /\ pc = "validating"
  /\ Done(job.status)
  /\ pc' = IF job.failing THEN "invalid"
           ELSE IF opts.execute THEN "execute" ELSE "passed"
  /\ UNCHANGED <<opts, mapperPc, job, clean, landed>>

StartExecution ==
  /\ pc = "execute"
  /\ StartStep("importing")
  /\ UNCHANGED <<opts, mapperPc, clean, landed>>

\* Mutant of Executed: the end of the task is taken for success.
ExecutedAnyway ==
  /\ pc = "importing"
  /\ Done(job.status)
  /\ pc' = "written"
  /\ UNCHANGED <<opts, mapperPc, job, clean, landed>>

\* Mutant of Executed: the platform's status is handed on as the outcome.
ExecutedAsIs ==
  /\ pc = "importing"
  /\ Done(job.status)
  /\ pc' = job.status
  /\ UNCHANGED <<opts, mapperPc, job, clean, landed>>

\* Execute, once a poll finds the import at rest: every ending but failed is
\* taken for success, one that another program has brought about as well.
Executed ==
  /\ pc = "importing"
  /\ Done(job.status)
  /\ pc' = IF job.status = "failed" THEN "invalid" ELSE "written"
  /\ UNCHANGED <<opts, mapperPc, job, clean, landed>>

\* awaitAuto: completed is the one ending in which the rows landed.
AutoEnded ==
  /\ pc = "auto"
  /\ Done(job.status)
  /\ pc' = IF job.status = "completed" THEN "written" ELSE "invalid"
  /\ UNCHANGED <<opts, mapperPc, job, clean, landed>>

\* A call of the run fails or the command is interrupted, before the platform
\* heard of it or after (every call that has an effect has a state behind it).
CallFails ==
  /\ pc \notin Ended \cup {"guard"}
  /\ pc' = "error"
  /\ UNCHANGED <<opts, mapperPc, job, clean, landed>>

-----------------------------------------------------------------------------
(* importsMap of another program: the import is read, and a mapping that   *)
(* could be completed sent, whatever became of the import meanwhile.       *)

ReadImport(m) ==
  /\ mapperPc[m] = "get" /\ job.status # "none"
  /\ \E next \in {"put", "end"} : mapperPc' = [mapperPc EXCEPT ![m] = next]
  /\ UNCHANGED <<opts, pc, job, clean, landed>>

MapImport(m) ==
  /\ mapperPc[m] = "put"
  /\ \/ Mappable /\ Map(m) /\ mapperPc' = [mapperPc EXCEPT ![m] = "validate"]
     \/ ~Mappable /\ mapperPc' = [mapperPc EXCEPT ![m] = "end"] /\ UNCHANGED job
  /\ UNCHANGED <<opts, pc, clean, landed>>

\* Such a program may go on with `imports validate`, the one call as it is.
ValidateImport(m) ==
  /\ mapperPc[m] = "validate"
  /\ job.status \in {"mapped", "validated"}
  /\ job' = [job EXCEPT !.status = "validating", !.failing = FALSE]
  /\ mapperPc' = [mapperPc EXCEPT ![m] = "end"]
  /\ UNCHANGED <<opts, pc, clean, landed>>

\* `imports revert`, once an execution is over and while there is anything to
\* revert.
RevertImport(m) ==
  /\ mapperPc[m] = "get"
  /\ job.status \in {"completed", "failed"} /\ job.revertable
  /\ Become("restoring")
  /\ mapperPc' = [mapperPc EXCEPT ![m] = "reverted"]
  /\ UNCHANGED <<opts, pc, clean, landed>>

-----------------------------------------------------------------------------
(* The platform's tasks. *)

\* The dry run passes, finds failing rows, or ends as a whole without naming
\* any.  An automatic import whose validation passed goes on at once.
ValidationEnds ==
  /\ job.status = "validating"
  /\ \/ /\ Become(IF opts.auto /\ job.mapping = Run THEN "importing" ELSE "validated")
        /\ clean' = clean \cup {job.mapping}
     \/ /\ job' = [job EXCEPT !.status = "validated", !.failing = TRUE]
        /\ UNCHANGED clean
     \/ Become("failed") /\ UNCHANGED clean
  /\ UNCHANGED <<opts, pc, mapperPc, landed>>

\* A run that fails may have written some of the rows; a backup is optional.
ExecutionEnds ==
  /\ job.status = "importing"
  /\ \E ending \in {"completed", "failed"}, revertable \in BOOLEAN :
       /\ job' = [job EXCEPT !.status = ending, !.revertable = revertable]
       /\ landed' \in {landed, landed \cup {job.mapping}}
       /\ ending = "completed" => job.mapping \in landed'
  /\ UNCHANGED <<opts, pc, mapperPc, clean>>

\* The backup is restored, or that fails as well.
RestorationEnds ==
  /\ job.status = "restoring"
  /\ \E ending \in {"reverted", "failed"} : Become(ending)
  /\ UNCHANGED <<opts, pc, mapperPc, clean, landed>>

-----------------------------------------------------------------------------
RunStep ==
  \/ Guard \/ Upload \/ SendMappings \/ StartValidation \/ Validated
  \/ StartExecution \/ Executed \/ AutoEnded

TaskEnds == ValidationEnds \/ ExecutionEnds \/ RestorationEnds

Next ==
  \/ RunStep \/ CallFails \/ TaskEnds
  \/ \E m \in Mappers :
       ReadImport(m) \/ MapImport(m) \/ ValidateImport(m) \/ RevertImport(m)

Spec == Init /\ [][Next]_vars

\* Run is sequential code whose calls return, and the platform ends its tasks.
FairSpec == Spec /\ WF_vars(RunStep) /\ WF_vars(TaskEnds)

-----------------------------------------------------------------------------
TypeOK ==
  /\ opts \in Options
  /\ pc \in PC
  /\ mapperPc \in [Mappers -> {"get", "put", "validate", "end", "reverted"}]
  /\ job \in Jobs
  /\ clean \subseteq Programs \cup {Nobody}
  /\ landed \subseteq Programs \cup {Nobody}

(* Rows are written only by a run that was asked to write, and never under *)
(* --read-only, which has to weigh an automatic upload as the write it is  *)
(* (composite.go importsRun, import.go Run).                               *)
WritesWhenAsked ==
  landed # {} => (opts.execute \/ opts.auto) /\ ~opts.readOnly

(* A run that reports its rows as written is right at that moment, however *)
(* the job was used meanwhile: the platform completed the import and wrote *)
(* rows.  The one exception is a run by Execute whose import another       *)
(* program has reverted since, between two polls; an automatic run is      *)
(* right without exception (import.go Execute and awaitAuto).              *)
WrittenIsTrue ==
  [][pc # "written" /\ pc' = "written" =>
       \/ job.status = "completed" /\ landed # {}
       \/ /\ ~opts.auto /\ job.status = "reverted"
          /\ \E m \in Mappers : mapperPc[m] = "reverted"]_vars

(* What the run itself mapped is never written unvalidated: where rows     *)
(* land under the run's own mapping, a validation passed that very mapping *)
(* (import.go Run, Validate and awaitAuto).                                *)
OwnMappingValidated == Run \in landed => Run \in clean

(* A run that stops before the write says "validation passed" only when it *)
(* did (import.go Validate, mcp/data.go importSpreadsheet).                *)
PassedIsTrue == pc = "passed" => clean # {}

(* The run comes to an end, in whatever state the platform leaves the      *)
(* import (task.go WaitForTask, import.go Run).                            *)
RunEnds == pc = "upload" ~> pc \in Ended

-----------------------------------------------------------------------------
(* The inductive invariants behind the theorems of WorkProofs.      *)

\* What the guard let through is what may write.
AskedInv ==
  /\ pc = "guard" => job.status = "none"
  /\ job.status # "none" \/ pc \notin {"guard", "refused"} => Permitted(opts)
  /\ pc \in {"execute", "importing"} => opts.execute
  /\ job.status \in {"importing", "completed"} \/ landed # {} =>
       (opts.execute \/ opts.auto) /\ ~opts.readOnly

\* An execution once started is ended by the platform alone, and undone by a
\* program that reverts it.
WrittenInv ==
  /\ opts.auto => pc \notin {"map", "validate", "validating", "execute", "importing"}
  /\ pc = "importing" =>
       job.status \in {"importing", "completed", "failed", "restoring", "reverted"}
  /\ job.status = "completed" => landed # {}
  /\ job.status \in {"restoring", "reverted"} => \E m \in Mappers : mapperPc[m] = "reverted"

\* The run goes on to the write from a validation of its own mapping without
\* findings, and whatever became of the import meanwhile cannot be executed.
ValidatedInv ==
  /\ OwnMappingValidated
  /\ job.mapping = Run /\ Run \notin clean =>
       /\ job.status # "importing"
       /\ pc = "validating" /\ job.status \in {"mapped", "validated"} => job.failing
       /\ pc = "execute" =>
            job.status \in {"none", "fresh", "completed", "failed", "restoring", "reverted"}

=============================================================================
