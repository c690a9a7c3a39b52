----------------------------- MODULE WorkProofs -----------------------------
(***************************************************************************)
(* The safety of work that runs on, for any number of programs, tasks,     *)
(* waiters, items, events and calls: import runs, runs of events tail,     *)
(* waits for tasks, passes over lists, and the tool calls of an assistant. *)
(***************************************************************************)
EXTENDS MCWork, SequenceTheorems, TLAPS

-----------------------------------------------------------------------------
(* ImportRun: rows are written only when the run was asked and allowed to, *)
(* and under a mapping of its own only once that was validated, and a run  *)
(* that reports them written is right.                                     *)

(* A mapping of any program leaves an import. *)
LEMMA MapType ==
  ASSUME TypeOK, NEW program \in Programs, Map(program)
  PROVE  job' \in Jobs
<1>1. job.failing \in BOOLEAN
  BY DEF TypeOK, Jobs
<1>2. PICK failing \in {FALSE, job.failing} :
        job' = [job EXCEPT !.status = "mapped", !.mapping = program, !.failing = failing]
  BY DEF Map
<1> QED
  BY <1>1, <1>2 DEF TypeOK, Jobs, Statuses

(* A status of the platform's own leaves an import. *)
LEMMA BecomeType ==
  ASSUME TypeOK, NEW ending \in Statuses, Become(ending)
  PROVE  job' \in Jobs
BY DEF TypeOK, Become, Jobs

(* Every step keeps the types. *)
LEMMA ImportTypeStep == TypeOK /\ [Next]_vars => TypeOK'
<1> SUFFICES ASSUME TypeOK, [Next]_vars PROVE TypeOK'
  OBVIOUS
<1> USE ImportAssumption DEF TypeOK, Jobs, Statuses, PC, Ended, Programs, Options
<1>1. CASE UNCHANGED vars
  BY <1>1 DEF vars
<1>2. CASE Guard
  BY <1>2 DEF Guard
<1>3. CASE Upload
  BY <1>3 DEF Upload, Become
<1>4. CASE SendMappings
  <2>1. CASE Map(Run)
    BY <1>4, <2>1, MapType DEF SendMappings
  <2>2. CASE UNCHANGED job
    BY <1>4, <2>2 DEF SendMappings
  <2> QED
    BY <1>4, <2>1, <2>2 DEF SendMappings
<1>5. CASE StartValidation
  BY <1>5 DEF StartValidation, StartStep
<1>6. CASE Validated
  BY <1>6 DEF Validated, Done
<1>7. CASE StartExecution
  BY <1>7 DEF StartExecution, StartStep
<1>8. CASE Executed
  BY <1>8 DEF Executed, Done
<1>9. CASE AutoEnded
  BY <1>9 DEF AutoEnded, Done
<1>10. CASE CallFails
  BY <1>10 DEF CallFails
<1>11. CASE ValidationEnds
  <2>1. CASE job' = [job EXCEPT !.status = "validated", !.failing = TRUE]
    BY <1>11, <2>1 DEF ValidationEnds, Become
  <2>2. CASE \E ending \in {"importing", "validated", "failed"} : Become(ending)
    BY <1>11, <2>2, BecomeType DEF ValidationEnds
  <2> QED
    BY <1>11, <2>1, <2>2 DEF ValidationEnds
<1>12. CASE ExecutionEnds
  <2>1. PICK ending \in {"completed", "failed"}, revertable \in BOOLEAN :
          /\ job' = [job EXCEPT !.status = ending, !.revertable = revertable]
          /\ landed' \in {landed, landed \cup {job.mapping}}
    BY <1>12 DEF ExecutionEnds
  <2>2. job' \in Jobs
    BY <2>1
  <2>3. landed' \subseteq Programs \cup {Nobody}
    BY <2>1
  <2> QED
    BY <1>12, <2>2, <2>3 DEF ExecutionEnds
<1>13. ASSUME NEW m \in Mappers, ReadImport(m) PROVE TypeOK'
  BY <1>13 DEF ReadImport
<1>14. ASSUME NEW m \in Mappers, MapImport(m) PROVE TypeOK'
  <2>1. CASE Map(m)
    BY <1>14, <2>1, MapType DEF MapImport
  <2>2. CASE UNCHANGED job
    BY <1>14, <2>2 DEF MapImport
  <2> QED
    BY <1>14, <2>1, <2>2 DEF MapImport
<1>15. ASSUME NEW m \in Mappers, ValidateImport(m) PROVE TypeOK'
  BY <1>15 DEF ValidateImport
<1>16. ASSUME NEW m \in Mappers, RevertImport(m) PROVE TypeOK'
  BY <1>16 DEF RevertImport, Become
<1>17. CASE RestorationEnds
  BY <1>17 DEF RestorationEnds, Become
<1> QED
  BY <1>1, <1>2, <1>3, <1>4, <1>5, <1>6, <1>7, <1>8, <1>9, <1>10, <1>11, <1>12, <1>13, <1>14,
     <1>15, <1>16, <1>17 DEF Next, RunStep, TaskEnds

(* Types, for every number of mappers (ImportRun's TypeOK). *)
THEOREM ImportTypeCorrect == Spec => []TypeOK
<1>1. Init => TypeOK
  BY ImportAssumption DEF Init, TypeOK, Jobs, Statuses, PC, Ended, Programs
<1> QED
  BY <1>1, ImportTypeStep, PTL DEF Spec

(* No step lets a write begin that the guard did not weigh. *)
LEMMA AskedStep == TypeOK /\ AskedInv /\ [Next]_vars => AskedInv'
<1> SUFFICES ASSUME TypeOK, AskedInv, [Next]_vars PROVE AskedInv'
  OBVIOUS
<1> USE DEF TypeOK, AskedInv, Permitted, Jobs, Options, Ended
<1>1. CASE UNCHANGED vars
  BY <1>1 DEF vars
<1>2. CASE Guard
  BY <1>2 DEF Guard
<1>3. CASE Upload
  BY <1>3 DEF Upload, Become
<1>4. CASE SendMappings
  BY <1>4 DEF SendMappings, Mappable, Map
<1>5. CASE StartValidation
  BY <1>5 DEF StartValidation, StartStep
<1>6. CASE Validated
  BY <1>6 DEF Validated, Done
<1>7. CASE StartExecution
  BY <1>7 DEF StartExecution, StartStep
<1>8. CASE Executed
  BY <1>8 DEF Executed, Done
<1>9. CASE AutoEnded
  BY <1>9 DEF AutoEnded, Done
<1>10. CASE CallFails
  BY <1>10 DEF CallFails
<1>11. CASE ValidationEnds
  BY <1>11 DEF ValidationEnds, Become
<1>12. CASE ExecutionEnds
  BY <1>12 DEF ExecutionEnds, Become
<1>13. ASSUME NEW m \in Mappers, ReadImport(m) PROVE AskedInv'
  BY <1>13 DEF ReadImport
<1>14. ASSUME NEW m \in Mappers, MapImport(m) PROVE AskedInv'
  BY <1>14 DEF MapImport, Mappable, Map
<1>15. ASSUME NEW m \in Mappers, ValidateImport(m) PROVE AskedInv'
  BY <1>15 DEF ValidateImport
<1>16. ASSUME NEW m \in Mappers, RevertImport(m) PROVE AskedInv'
  BY <1>16 DEF RevertImport, Become
<1>17. CASE RestorationEnds
  BY <1>17 DEF RestorationEnds, Become
<1> QED
  BY <1>1, <1>2, <1>3, <1>4, <1>5, <1>6, <1>7, <1>8, <1>9, <1>10, <1>11, <1>12, <1>13, <1>14,
     <1>15, <1>16, <1>17 DEF Next, RunStep, TaskEnds

(* Only a run that was asked to write writes, and never a read-only one,    *)
(* though other programs send mappings and validate the import meanwhile    *)
(* (composite.go importsRun, import.go Run). *)
THEOREM AskedFirst == Spec => []WritesWhenAsked
<1>1. Init => AskedInv
  BY DEF Init, AskedInv
<1>2. AskedInv => WritesWhenAsked
  BY DEF AskedInv, WritesWhenAsked
<1> QED
  BY <1>1, <1>2, ImportTypeCorrect, AskedStep, PTL DEF Spec

(* Once the execution began, only the platform moves the import on. *)
LEMMA ReportStep == TypeOK /\ WrittenInv /\ [Next]_vars => WrittenInv'
<1> SUFFICES ASSUME TypeOK, WrittenInv, [Next]_vars PROVE WrittenInv'
  OBVIOUS
<1> USE DEF TypeOK, WrittenInv, Jobs, Ended
<1>1. CASE UNCHANGED vars
  BY <1>1 DEF vars
<1>2. CASE Guard
  BY <1>2 DEF Guard
<1>3. CASE Upload
  <2>1. CASE opts.auto
    BY <1>3, <2>1 DEF Upload
  <2>2. CASE ~opts.auto /\ pc' = "validate"
    BY <1>3, <2>2 DEF Upload, Become
  <2>3. CASE ~opts.auto /\ Become("fresh")
    BY <1>3, <2>3 DEF Upload, Become
  <2> QED
    BY <1>3, <2>1, <2>2, <2>3 DEF Upload
<1>4. CASE SendMappings
  BY <1>4 DEF SendMappings, Mappable, Map
<1>5. CASE StartValidation
  BY <1>5 DEF StartValidation, StartStep
<1>6. CASE Validated
  BY <1>6 DEF Validated, Done
<1>7. CASE StartExecution
  BY <1>7 DEF StartExecution, StartStep
<1>8. CASE Executed
  BY <1>8 DEF Executed, Done
<1>9. CASE AutoEnded
  BY <1>9 DEF AutoEnded, Done
<1>10. CASE CallFails
  BY <1>10 DEF CallFails
<1>11. CASE ValidationEnds
  BY <1>11 DEF ValidationEnds, Become
<1>12. CASE ExecutionEnds
  BY <1>12 DEF ExecutionEnds, Become
<1>13. ASSUME NEW m \in Mappers, ReadImport(m) PROVE WrittenInv'
  BY <1>13 DEF ReadImport
<1>14. ASSUME NEW m \in Mappers, MapImport(m) PROVE WrittenInv'
  BY <1>14 DEF MapImport, Mappable, Map
<1>15. ASSUME NEW m \in Mappers, ValidateImport(m) PROVE WrittenInv'
  BY <1>15 DEF ValidateImport
<1>16. ASSUME NEW m \in Mappers, RevertImport(m) PROVE WrittenInv'
  BY <1>16 DEF RevertImport, Become
<1>17. CASE RestorationEnds
  BY <1>17 DEF RestorationEnds, Become
<1> QED
  BY <1>1, <1>2, <1>3, <1>4, <1>5, <1>6, <1>7, <1>8, <1>9, <1>10, <1>11, <1>12, <1>13, <1>14,
     <1>15, <1>16, <1>17 DEF Next, RunStep, TaskEnds

(* When a run reports its rows as written, the platform completed the       *)
(* import and wrote rows, or another program reverted it since a run by     *)
(* Execute started it (import.go Execute and awaitAuto).                    *)
THEOREM ReportedTruly == Spec => WrittenIsTrue
<1>1. Init => WrittenInv
  BY DEF Init, WrittenInv
<1>2. TypeOK /\ WrittenInv /\ [Next]_vars =>
        [pc # "written" /\ pc' = "written" =>
           \/ job.status = "completed" /\ landed # {}
           \/ /\ ~opts.auto /\ job.status = "reverted"
              /\ \E m \in Mappers : mapperPc[m] = "reverted"]_vars
  <2> SUFFICES ASSUME TypeOK, WrittenInv, Next, pc # "written", pc' = "written"
               PROVE \/ job.status = "completed" /\ landed # {}
                     \/ /\ ~opts.auto /\ job.status = "reverted"
                        /\ \E m \in Mappers : mapperPc[m] = "reverted"
    OBVIOUS
  <2>1. Executed \/ AutoEnded
    <3>1. ~Guard /\ ~Upload /\ ~SendMappings /\ ~StartValidation /\ ~Validated
          /\ ~StartExecution /\ ~CallFails
      BY DEF Guard, Upload, SendMappings, StartValidation, StartExecution, StartStep,
         Validated, CallFails
    <3>2. ~ValidationEnds /\ ~ExecutionEnds /\ ~RestorationEnds
      BY DEF ValidationEnds, ExecutionEnds, RestorationEnds
    <3>3. \A m \in Mappers : ~ReadImport(m) /\ ~MapImport(m) /\ ~ValidateImport(m)
                            /\ ~RevertImport(m)
      BY DEF ReadImport, MapImport, ValidateImport, RevertImport
    <3> QED
      BY <3>1, <3>2, <3>3 DEF Next, RunStep, TaskEnds
  <2>2. CASE Executed
    BY <2>2 DEF Executed, Done, WrittenInv
  <2>3. CASE AutoEnded
    BY <2>3 DEF AutoEnded, WrittenInv
  <2> QED
    BY <2>1, <2>2, <2>3
<1> QED
  BY <1>1, <1>2, ImportTypeCorrect, ReportStep, PTL DEF Spec, WrittenIsTrue

(* No step begins a write under the run's mapping that no validation passed. *)
LEMMA ValidatedStep == TypeOK /\ ValidatedInv /\ [Next]_vars => ValidatedInv'
<1> SUFFICES ASSUME TypeOK, ValidatedInv, [Next]_vars PROVE ValidatedInv'
  OBVIOUS
<1> USE ImportAssumption DEF TypeOK, ValidatedInv, OwnMappingValidated, Jobs, Ended
<1>1. CASE UNCHANGED vars
  BY <1>1 DEF vars
<1>2. CASE Guard
  BY <1>2 DEF Guard
<1>3. CASE Upload
  <2>1. CASE opts.auto
    BY <1>3, <2>1 DEF Upload
  <2>2. CASE ~opts.auto /\ pc' = "validate"
    BY <1>3, <2>2 DEF Upload, Become
  <2>3. CASE ~opts.auto /\ Become("fresh")
    BY <1>3, <2>3 DEF Upload, Become
  <2> QED
    BY <1>3, <2>1, <2>2, <2>3 DEF Upload
<1>4. CASE SendMappings
  <2>1. CASE Map(Run)
    <3> PICK failing \in {FALSE, job.failing} :
          job' = [job EXCEPT !.status = "mapped", !.mapping = Run, !.failing = failing]
      BY <2>1 DEF Map
    <3>1. job'.status = "mapped" /\ pc' = "validate"
      BY <1>4, <2>1 DEF SendMappings, Map, Mappable
    <3>2. landed' = landed /\ clean' = clean
      BY <1>4 DEF SendMappings
    <3> QED
      BY <3>1, <3>2
  <2>2. CASE pc' = "error" /\ UNCHANGED job
    BY <1>4, <2>2 DEF SendMappings
  <2> QED
    BY <1>4, <2>1, <2>2 DEF SendMappings
<1>5. CASE StartValidation
  BY <1>5 DEF StartValidation, StartStep
<1>6. CASE Validated
  BY <1>6 DEF Validated, Done, Statuses
<1>7. CASE StartExecution
  BY <1>7 DEF StartExecution, StartStep
<1>8. CASE Executed
  BY <1>8 DEF Executed, Done
<1>9. CASE AutoEnded
  BY <1>9 DEF AutoEnded, Done
<1>10. CASE CallFails
  BY <1>10 DEF CallFails
<1>11. CASE ValidationEnds
  BY <1>11 DEF ValidationEnds, Become
<1>12. CASE ExecutionEnds
  <2>1. PICK ending \in {"completed", "failed"} :
          /\ job'.status = ending /\ job'.mapping = job.mapping
          /\ landed' \in {landed, landed \cup {job.mapping}}
    BY <1>12 DEF ExecutionEnds
  <2>2. job.mapping = Run => Run \in clean
    BY <1>12 DEF ExecutionEnds
  <2>3. pc' = pc /\ clean' = clean
    BY <1>12 DEF ExecutionEnds
  <2>4. Run \in landed' => Run \in clean'
    BY <2>1, <2>2, <2>3
  <2> QED
    BY <2>1, <2>2, <2>3, <2>4
<1>13. ASSUME NEW m \in Mappers, ReadImport(m) PROVE ValidatedInv'
  BY <1>13 DEF ReadImport
<1>14. ASSUME NEW m \in Mappers, MapImport(m) PROVE ValidatedInv'
  BY <1>14 DEF MapImport, Mappable, Map
<1>15. ASSUME NEW m \in Mappers, ValidateImport(m) PROVE ValidatedInv'
  BY <1>15 DEF ValidateImport
<1>16. ASSUME NEW m \in Mappers, RevertImport(m) PROVE ValidatedInv'
  BY <1>16 DEF RevertImport, Become
<1>17. CASE RestorationEnds
  BY <1>17 DEF RestorationEnds, Become
<1> QED
  BY <1>1, <1>2, <1>3, <1>4, <1>5, <1>6, <1>7, <1>8, <1>9, <1>10, <1>11, <1>12, <1>13, <1>14,
     <1>15, <1>16, <1>17 DEF Next, RunStep, TaskEnds

(* Where rows land under the mapping of the run, a validation passed that   *)
(* very mapping, though other programs replace the mapping and validate the *)
(* import at any time (import.go Run, Validate and awaitAuto). *)
THEOREM OwnMappingChecked == Spec => []OwnMappingValidated
<1>1. Init => ValidatedInv
  BY DEF Init, ValidatedInv, OwnMappingValidated
<1>2. ValidatedInv => OwnMappingValidated
  BY DEF ValidatedInv
<1> QED
  BY <1>1, <1>2, ImportTypeCorrect, ValidatedStep, PTL DEF Spec

-----------------------------------------------------------------------------
(* EventTail: no cursor that a run tells is ahead of the events printed or *)
(* lost with a page, and no event is printed again but for a kill.         *)

(* A page lies in the feed.  *)
LEMMA PageType ==
  ASSUME feed \in Cursors, NEW c \in Cursors
  PROVE  /\ PageAfter(c) \in [next : Events \cup {MaxEvents + 1}, last : Cursors]
         /\ PageAfter(c).next = c + 1
  BY EventTailAssumption DEF PageAfter, Cursors, Events

(* Printing counts up and never down. *)
LEMMA PrintType ==
  ASSUME printed \in [Events -> 0..MaxPrints], NEW events, Printed(events)
  PROVE  /\ printed' \in [Events -> 0..MaxPrints]
         /\ \A e \in Events : printed[e] > 0 => printed'[e] > 0
         /\ \A e \in Events : e \in events => printed'[e] > 0
<1>1. MaxPrints \in Nat /\ MaxPrints > 0
  BY EventTailAssumption DEF MaxPrints
<1> QED
  BY <1>1 DEF Printed

(* What is left of a page in hand are events.  *)
LEMMA PageRest ==
  ASSUME page \in [next : Events \cup {MaxEvents + 1}, last : Cursors],
         page.next <= page.last
  PROVE  page.next \in Events /\ page.next .. page.last \subseteq Events
<1>1. /\ page.next \in Events \cup {MaxEvents + 1}
      /\ page.last \in Cursors
  OBVIOUS
<1> QED
  BY <1>1, EventTailAssumption DEF Events, Cursors

(* And so is what follows a cursor.  *)
LEMMA CursorRest ==
  ASSUME NEW c \in Cursors, NEW d \in Cursors
  PROVE  c + 1 .. d \subseteq Events
  BY EventTailAssumption DEF Events, Cursors

(* Every step keeps the types. *)
LEMMA TailTypeStep == TailTypeOK /\ [TailNext]_tailVars => TailTypeOK'
<1> SUFFICES ASSUME TailTypeOK, [TailNext]_tailVars PROVE TailTypeOK'
  OBVIOUS
<1> USE EventTailAssumption DEF TailTypeOK
<1>1. CASE UNCHANGED tailVars
  BY <1>1 DEF tailVars, run
<1>2. CASE Record
  BY <1>2 DEF Record, Cursors, run
<1>3. CASE Start
  BY <1>3 DEF Start
<1>4. CASE TailOnce
  <2>1. PageAfter(kept).last \in Cursors
    BY PageType
  <2>2. printed' \in [Events -> 0..MaxPrints]
    BY <1>4, PrintType DEF TailOnce
  <2>3. lost' \subseteq Events
    BY <1>4, <2>1, CursorRest DEF TailOnce
  <2> QED
    BY <1>4, <2>1, <2>2, <2>3 DEF TailOnce
<1>5. CASE Read
  <2>1. page' \in [next : Events \cup {MaxEvents + 1}, last : Cursors]
    BY <1>5, PageType DEF Read
  <2> QED
    BY <1>5, <2>1 DEF Read
<1>6. CASE PrintEvent
  <2>1. printed' \in [Events -> 0..MaxPrints]
    BY <1>6, PrintType DEF PrintEvent
  <2>2. page' \in [next : Events \cup {MaxEvents + 1}, last : Cursors]
    <3>1. page.next + 1 \in Events \cup {MaxEvents + 1}
      BY <1>6, PageRest, EventTailAssumption DEF PrintEvent, Events
    <3> QED
      BY <1>6, <3>1 DEF PrintEvent
  <2> QED
    BY <1>6, <2>1, <2>2 DEF PrintEvent
<1>7. CASE PageDone
  BY <1>7 DEF PageDone
<1>8. CASE Stop
  BY <1>8 DEF Stop
<1>9. CASE PrintFails
  BY <1>9, PageRest DEF PrintFails
<1>10. CASE Kill
  BY <1>10 DEF Kill
<1> QED
  BY <1>1, <1>2, <1>3, <1>4, <1>5, <1>6, <1>7, <1>8, <1>9, <1>10 DEF TailNext, Follow

(* Types, for every page size and every bound (EventTail's TailTypeOK). *)
THEOREM TailTypeCorrect == TailSpec => []TailTypeOK
<1>1. TailInit => TailTypeOK
  BY EventTailAssumption DEF TailInit, TailTypeOK, Cursors, Events, MaxPrints
<1> QED
  BY <1>1, TailTypeStep, PTL DEF TailSpec

(* No step tells or takes over a cursor that is ahead of the output. *)
LEMMA CursorStep == TailTypeOK /\ CursorInv /\ [TailNext]_tailVars => CursorInv'
<1> SUFFICES ASSUME TailTypeOK, CursorInv, [TailNext]_tailVars PROVE CursorInv'
  OBVIOUS
<1> USE EventTailAssumption DEF TailTypeOK, CursorInv, NothingSkipped, Seen
<1>1. CASE UNCHANGED tailVars
  BY <1>1 DEF tailVars, run
<1>2. CASE Record
  BY <1>2 DEF Record, run
<1>3. CASE Start
  BY <1>3 DEF Start
<1>4. CASE TailOnce
  <2>0. PageAfter(kept).last \in Cursors
    BY PageType
  <2>1. CASE UNCHANGED <<kept, printed, lost>>
    BY <1>4, <2>1 DEF TailOnce
  <2>2. CASE /\ kept' = PageAfter(kept).last
             /\ Printed(kept + 1 .. PageAfter(kept).last)
             /\ UNCHANGED lost
    <3>1. \A e \in Events : e \in kept + 1 .. PageAfter(kept).last => printed'[e] > 0
      BY <2>2, PrintType
    <3>2. \A e \in Events : printed[e] > 0 => printed'[e] > 0
      BY <2>2, PrintType
    <3> QED
      BY <1>4, <2>0, <2>2, <3>1, <3>2 DEF TailOnce, Events, Cursors
  <2>3. CASE /\ kept' \in {kept, PageAfter(kept).last}
             /\ lost' = lost \cup (kept + 1 .. PageAfter(kept).last)
             /\ UNCHANGED printed
    BY <1>4, <2>0, <2>3 DEF TailOnce, Events, Cursors
  <2> QED
    BY <1>4, <2>1, <2>2, <2>3 DEF TailOnce
<1>5. CASE Read
  <2>1. page'.next = since + 1
    BY <1>5, PageType DEF Read
  <2> QED
    BY <1>5, <2>1 DEF Read, Events, Cursors
<1>6. CASE PrintEvent
  <2>1. /\ \A e \in Events : printed[e] > 0 => printed'[e] > 0
        /\ \A e \in Events : e = page.next => printed'[e] > 0
    BY <1>6, PrintType DEF PrintEvent
  <2>2. page'.next = page.next + 1
    BY <1>6 DEF PrintEvent
  <2> QED
    BY <1>6, <2>1, <2>2 DEF PrintEvent, Events, Cursors
<1>7. CASE PageDone
  BY <1>7 DEF PageDone, Events, Cursors
<1>8. CASE Stop
  BY <1>8 DEF Stop
<1>9. CASE PrintFails
  BY <1>9 DEF PrintFails, Events, Cursors
<1>10. CASE Kill
  BY <1>10 DEF Kill
<1> QED
  BY <1>1, <1>2, <1>3, <1>4, <1>5, <1>6, <1>7, <1>8, <1>9, <1>10 DEF TailNext, Follow

(* A reader who continues from the cursor told misses no event but what a  *)
(* page lost whose output failed, however runs are stopped or killed       *)
(* (composite.go eventsTail).                                              *)
THEOREM CursorNeverAhead == TailSpec => []NothingSkipped
<1>1. TailInit => CursorInv
  BY DEF TailInit, CursorInv, NothingSkipped, Events
<1>2. CursorInv => NothingSkipped
  BY DEF CursorInv
<1> QED
  BY <1>1, <1>2, CursorStep, TailTypeCorrect, PTL DEF TailSpec

(* Printing counts an event once and leaves every other one as it is. *)
LEMMA PrintOnce ==
  ASSUME printed \in [Events -> 0..MaxPrints], NEW events, Printed(events),
         NEW e \in Events
  PROVE  /\ printed'[e] <= printed[e] + 1
         /\ e \notin events => printed'[e] = printed[e]
  BY EventTailAssumption DEF Printed, MaxPrints

(* The page after a cursor of the feed ends in the feed, not before it. *)
LEMMA PageInFeed ==
  ASSUME feed \in Cursors, NEW c \in Cursors, c <= feed
  PROVE  /\ PageAfter(c).last <= feed
         /\ c <= PageAfter(c).last
  BY EventTailAssumption DEF PageAfter, Cursors

(* No step prints again what an orderly run printed. *)
LEMMA RepeatStep == TailTypeOK /\ RepeatInv /\ [TailNext]_tailVars => RepeatInv'
<1> SUFFICES ASSUME TailTypeOK, RepeatInv, [TailNext]_tailVars PROVE RepeatInv'
  OBVIOUS
<1> USE EventTailAssumption DEF TailTypeOK, RepeatInv, NoNeedlessRepeat, Fresh
<1>1. CASE UNCHANGED tailVars
  BY <1>1 DEF tailVars, run
<1>2. CASE Record
  BY <1>2 DEF Record, run, Cursors
<1>3. CASE Start
  BY <1>3 DEF Start
<1>4. CASE TailOnce
  <2>0. /\ PageAfter(kept).last \in Cursors
        /\ PageAfter(kept).last <= feed /\ kept <= PageAfter(kept).last
    BY PageType, PageInFeed
  <2>1. CASE UNCHANGED <<kept, printed, lost>>
    BY <1>4, <2>1 DEF TailOnce
  <2>2. CASE /\ kept' = PageAfter(kept).last
             /\ Printed(kept + 1 .. PageAfter(kept).last)
             /\ UNCHANGED lost
    <3>0. tailPc = "once" /\ tailPc' = "idle" /\ UNCHANGED <<feed, kills>>
      BY <1>4 DEF TailOnce
    <3>1. ASSUME NEW e \in Events
          PROVE  printed'[e] <= 1 + kills /\ (e > PageAfter(kept).last => printed'[e] <= kills)
      <4>1. /\ printed'[e] <= printed[e] + 1
            /\ e \notin kept + 1 .. PageAfter(kept).last => printed'[e] = printed[e]
        BY <2>2, PrintOnce
      <4>2. printed[e] \in Nat /\ printed'[e] \in Nat
        BY <2>2, PrintType DEF MaxPrints
      <4> QED
        BY <2>0, <3>0, <4>1, <4>2 DEF Events, Cursors
    <3> QED
      BY <2>0, <2>2, <3>0, <3>1
  <2>3. CASE /\ kept' \in {kept, PageAfter(kept).last}
             /\ UNCHANGED printed
    BY <1>4, <2>0, <2>3 DEF TailOnce, Events, Cursors, MaxPrints
  <2> QED
    BY <1>4, <2>1, <2>2, <2>3 DEF TailOnce
<1>5. CASE Read
  <2>1. /\ page' = PageAfter(since)
        /\ PageAfter(since).next = since + 1
        /\ PageAfter(since).last \in Cursors
        /\ PageAfter(since).last <= feed /\ since <= PageAfter(since).last
    BY <1>5, PageType, PageInFeed DEF Read
  <2> QED
    BY <1>5, <2>1 DEF Read, Events, Cursors
<1>6. CASE PrintEvent
  <2>1. /\ tailPc = "print" /\ page.next <= page.last
        /\ page'.next = page.next + 1 /\ page'.last = page.last
        /\ UNCHANGED <<feed, kept, tailPc, cursor, kills>>
    BY <1>6 DEF PrintEvent
  <2>2. page.next \in Nat /\ page.last \in Nat
    BY DEF Events, Cursors
  <2>3. ASSUME NEW e \in Events
        PROVE  printed'[e] <= 1 + kills /\ (e > page.next => printed'[e] <= kills)
    <3>1. /\ printed'[e] <= printed[e] + 1
          /\ e # page.next => printed'[e] = printed[e]
      BY <1>6, PrintOnce DEF PrintEvent
    <3>2. printed[e] \in Nat /\ printed'[e] \in Nat
      BY <1>6, PrintType DEF PrintEvent, MaxPrints
    <3>3. /\ printed[e] <= 1 + kills
          /\ e >= page.next => printed[e] <= kills
      BY <2>1
    <3>4. e \in Nat /\ kills \in Nat
      BY DEF Events
    <3> HIDE DEF RepeatInv, NoNeedlessRepeat, TailTypeOK
    <3> QED
      BY <2>2, <3>1, <3>2, <3>3, <3>4
  <2> QED
    BY <2>1, <2>2, <2>3 DEF Events
<1>7. CASE PageDone
  BY <1>7 DEF PageDone, Events, Cursors
<1>8. CASE Stop
  BY <1>8 DEF Stop
<1>9. CASE PrintFails
  BY <1>9 DEF PrintFails, Events, Cursors
<1>10. CASE Kill
  <2>1. \A e \in Events : printed[e] \in Nat
    BY DEF MaxPrints
  <2> QED
    BY <1>10, <2>1 DEF Kill
<1> QED
  BY <1>1, <1>2, <1>3, <1>4, <1>5, <1>6, <1>7, <1>8, <1>9, <1>10 DEF TailNext, Follow

(* However runs are stopped, continued and killed, an event is printed once *)
(* and at most once more per kill (composite.go eventsTail, events.go       *)
(* Follow). *)
THEOREM PrintedOnce == TailSpec => []NoNeedlessRepeat
<1>1. TailInit => RepeatInv
  BY EventTailAssumption DEF TailInit, RepeatInv, NoNeedlessRepeat, Fresh, Events
<1>2. RepeatInv => NoNeedlessRepeat
  BY DEF RepeatInv
<1> QED
  BY <1>1, <1>2, RepeatStep, TailTypeCorrect, PTL DEF TailSpec

-----------------------------------------------------------------------------
(* Tasks: a wait tells what has happened and what stays, and is told of  *)
(* work that rests.                                                        *)

(* What follows a status of a kind of work is one of that kind, and only   *)
(* running work has something that follows of itself (task.go              *)
(* runningStatuses against the platform's order).                          *)
LEMMA SuccessorsSound ==
  ASSUME NEW t \in Work, NEW s \in StatusesOf(t), NEW later \in Successors(t, s)
  PROVE  later \in StatusesOf(t) /\ later # "none" /\ s \in Running
<1>1. t \in Bulks \/ t \in Imports \/ t \in Exports
  BY DEF Work
<1>2. CASE t \in Imports
  BY <1>2, TasksAssumption DEF StatusesOf, Successors, Running
<1>3. CASE t \in Bulks /\ t \notin Imports
  BY <1>3 DEF StatusesOf, Successors, Running
<1>4. CASE t \notin Bulks /\ t \notin Imports
  BY <1>4 DEF StatusesOf, Successors, Running
<1> QED
  BY <1>2, <1>3, <1>4

(* What a colleague does next with an import is begun from a rest. *)
LEMMA ResumeSound ==
  ASSUME NEW t \in Imports, status[t] \in StatusesOf(t), NEW later \in Resume(t)
  PROVE  /\ later \in StatusesOf(t) /\ later # "none"
         /\ status[t] \in {"validated", "completed", "failed"}
  BY DEF StatusesOf, Resume

(* Every step keeps what the platform may come to. A completed or failed   *)
(* export stays so.                                                        *)
LEMMA PlatformStep ==
  ASSUME StatusInv, [TasksNext]_tasksVars
  PROVE  /\ StatusInv'
         /\ \A t \in Work :
              /\ status[t] # "none" => status'[t] # "none"
              /\ t \in Exports /\ status[t] \in {"completed", "failed"} =>
                   status'[t] = status[t]
<1> DEFINE Possible == UNION {StatusesOf(t) : t \in Work}
           Final(t) == t \in Exports /\ status[t] \in {"completed", "failed"}
<1> USE DEF StatusInv
<1>1. ASSUME NEW t \in Work, NEW s \in StatusesOf(t), s # "none", Turns(t, s), ~Final(t)
      PROVE  /\ StatusInv'
             /\ \A u \in Work :
                  /\ status[u] # "none" => status'[u] # "none"
                  /\ Final(u) => status'[u] = status[u]
  <2>1. s \in Possible
    OBVIOUS
  <2>2. /\ status' = [status EXCEPT ![t] = s]
        /\ reached' = [reached EXCEPT ![t] = @ \cup {s}]
    BY <1>1 DEF Turns
  <2>3. status' \in [Work -> Possible] /\ reached' \in [Work -> SUBSET Possible]
    BY <2>1, <2>2
  <2> QED
    BY <1>1, <2>2, <2>3
<1>2. CASE UNCHANGED <<status, reached>>
  BY <1>2
<1>3. ASSUME NEW t \in Work, Started(t)
      PROVE  \E s \in StatusesOf(t) : s # "none" /\ Turns(t, s) /\ ~Final(t)
  <2>1. CASE t \in Bulks
    BY <1>3, <2>1, TasksAssumption DEF Started, StatusesOf
  <2>2. CASE t \notin Bulks
    BY <1>3, <2>2 DEF Started, StatusesOf, Work
  <2> QED
    BY <2>1, <2>2
<1>4. ASSUME NEW t \in Work, Progress(t)
      PROVE  \E s \in StatusesOf(t) : s # "none" /\ Turns(t, s) /\ ~Final(t)
  BY <1>4, SuccessorsSound DEF Progress, Running
<1>5. ASSUME NEW t \in Work, Resumed(t)
      PROVE  \E s \in StatusesOf(t) : s # "none" /\ Turns(t, s) /\ ~Final(t)
  BY <1>5, ResumeSound, TasksAssumption DEF Resumed
<1>6. ASSUME NEW w \in Waiters, StartExport(w), ~UNCHANGED <<status, reached>>
      PROVE  \E t \in Work : \E s \in StatusesOf(t) :
               s # "none" /\ Turns(t, s) /\ ~Final(t)
  <2>1. PICK t \in Exports : status[t] = "none" /\ Turns(t, "pending")
    BY <1>6 DEF StartExport
  <2>2. t \in Work /\ "pending" \in StatusesOf(t)
    BY TasksAssumption DEF Work, StatusesOf
  <2> QED
    BY <2>1, <2>2
<1>7. \/ UNCHANGED <<status, reached>>
      \/ \E t \in Work : \E s \in StatusesOf(t) :
           s # "none" /\ Turns(t, s) /\ ~Final(t)
  BY <1>3, <1>4, <1>5, <1>6 DEF TasksNext, Begin, Step, Follows, Poll, Wake,
     Create, Copy, Expire, Interrupt, tasksVars
<1> QED
  BY <1>1, <1>2, <1>7

(* What a caller concludes from a task that is done. *)
LEMMA ConcludedSound ==
  ASSUME TasksTypeOK, StatusInv, FollowInv, NEW w \in Waiters, place[w] = "poll",
         TaskDone(status[target[w]]), Concluded(w, status[target[w]])
  PROVE  LET s == status[target[w]]
         IN \/ /\ Ends(w, "ok") /\ kind[w] # "download"
               /\ s \in {"completed", "validated", "reverted"}
            \/ Ends(w, "failed") /\ s \in {"failed", "cancelled"}
            \/ Goes(w, "create") /\ kind[w] = "download" /\ s = "completed"
<1>1. /\ target[w] \in Work /\ status[target[w]] \in StatusesOf(target[w])
      /\ status[target[w]] # "none" /\ status[target[w]] \notin Running
  BY DEF FollowInv, StatusInv, TaskDone
<1>2. CASE kind[w] \in {"wait", "tool"}
  BY <1>1, <1>2 DEF Concluded, TaskFailed, StatusesOf, Running
<1>3. CASE kind[w] \notin {"wait", "tool"}
  <2>1. target[w] \in Exports
    BY <1>1, <1>3, TasksAssumption DEF FollowInv, TasksTypeOK, Kinds
  <2>2. status[target[w]] \in {"completed", "failed"}
    BY <1>1, <2>1, TasksAssumption DEF StatusesOf, Running
  <2> QED
    BY <1>3, <2>2 DEF Concluded
<1> QED
  BY <1>2, <1>3

(* Every step keeps the types of the waiters. *)
LEMMA TasksTypeStep ==
  ASSUME WaitInv, [TasksNext]_tasksVars
  PROVE  TasksTypeOK'
<1> USE DEF WaitInv, TasksTypeOK, Places
<1>1. CASE UNCHANGED <<kind, place, target, result, archive>>
  BY <1>1
<1>2. ASSUME NEW w \in Waiters, Follows(w)
      PROVE  TasksTypeOK'
  BY <1>2 DEF Follows, Goes
<1>3. ASSUME NEW w \in Waiters, StartExport(w)
      PROVE  TasksTypeOK'
  BY <1>3 DEF StartExport, Goes, Ends, Work
<1>4. ASSUME NEW w \in Waiters, Poll(w)
      PROVE  TasksTypeOK'
  BY <1>4, ConcludedSound DEF Poll, Goes, Ends, FollowInv
<1>5. ASSUME NEW w \in Waiters, Wake(w) \/ Expire(w) \/ Interrupt(w)
      PROVE  TasksTypeOK'
  BY <1>5 DEF Wake, Expire, Interrupt, Goes, Ends
<1>6. ASSUME NEW w \in Waiters, Create(w) \/ Copy(w)
      PROVE  TasksTypeOK'
  BY <1>6 DEF Create, Copy, Goes, Ends
<1> QED
  BY <1>1, <1>2, <1>3, <1>4, <1>5, <1>6 DEF TasksNext, Begin, Step, Started,
     Progress, Resumed, tasksVars

\* What the invariant says of one waiter.
WaiterInv(w) ==
  FollowInv!(w) /\ DownloadsKeepWord!(w)

(* Every step keeps it. *)
LEMMA WaiterStep ==
  ASSUME WaitInv, [TasksNext]_tasksVars, NEW w \in Waiters
  PROVE  WaiterInv(w)'
<1> USE DEF WaitInv, TasksTypeOK
<1>0. WaiterInv(w)
  BY DEF WaiterInv, FollowInv, DownloadsKeepWord
<1>1. /\ StatusInv /\ StatusInv'
      /\ \A t \in Work :
           /\ status[t] # "none" => status'[t] # "none"
           /\ t \in Exports /\ status[t] \in {"completed", "failed"} =>
                status'[t] = status[t]
  BY PlatformStep
<1>2. target[w] \in Work \cup {NoTask} /\ NoTask \notin Work /\ Exports \subseteq Work
  BY TasksAssumption DEF Work
<1>3. CASE UNCHANGED <<kind[w], place[w], target[w], result[w], archive[w]>>
  BY <1>0, <1>1, <1>2, <1>3 DEF WaiterInv
<1>4. CASE Follows(w)
  BY <1>0, <1>1, <1>2, <1>4 DEF WaiterInv, Follows, Goes
<1>5. CASE StartExport(w)
  <2>1. archive[w] = "earlier" /\ UNCHANGED <<kind, archive>>
    BY <1>0, <1>5 DEF WaiterInv, StartExport
  <2>2. CASE Ends(w, "error") /\ UNCHANGED <<target, status, reached>>
    BY <1>0, <1>2, <1>5, <2>1, <2>2 DEF WaiterInv, StartExport, Ends
  <2>3. ASSUME NEW t \in Exports, Turns(t, "pending"), Goes(w, "poll"),
               target' = [target EXCEPT ![w] = t]
        PROVE  WaiterInv(w)'
    <3>1. t \in Work /\ status'[t] = "pending"
      BY <1>2, <2>3 DEF Turns, StatusInv
    <3> QED
      BY <1>0, <1>5, <2>1, <2>3, <3>1 DEF WaiterInv, StartExport, Goes
  <2> QED
    BY <1>5, <2>2, <2>3 DEF StartExport
<1>6. CASE Poll(w)
  <2>1. target[w] \in Work /\ UNCHANGED <<kind, target, status, reached, archive>>
    BY <1>0, <1>6 DEF WaiterInv, Poll
  <2>2. CASE Ends(w, "error")
    BY <1>0, <1>6, <2>1, <2>2 DEF WaiterInv, Poll, Ends
  <2>3. CASE \/ Goes(w, "sleep")
             \/ Goes(w, "create") /\ kind[w] = "download" /\ status[target[w]] = "completed"
    BY <1>0, <1>6, <2>1, <2>3 DEF WaiterInv, Poll, Goes
  <2>4. CASE Ends(w, "ok") /\ kind[w] # "download"
              /\ status[target[w]] \in {"completed", "validated", "reverted"}
    <3>1. status[target[w]] \in reached[target[w]]
      BY <2>1, <2>4 DEF StatusInv
    <3> QED
      BY <1>0, <1>6, <2>1, <2>4, <3>1 DEF WaiterInv, Poll, Ends
  <2>5. CASE Ends(w, "failed") /\ status[target[w]] \in {"failed", "cancelled"}
    BY <1>0, <1>6, <2>1, <2>5 DEF WaiterInv, Poll, Ends
  <2>6. CASE TaskDone(status[target[w]]) /\ Concluded(w, status[target[w]])
    <3>1. place[w] = "poll"
      BY <1>6 DEF Poll
    <3> QED
      BY <2>3, <2>4, <2>5, <2>6, <3>1, ConcludedSound
  <2>7. \/ Ends(w, "error") \/ Goes(w, "sleep")
        \/ TaskDone(status[target[w]]) /\ Concluded(w, status[target[w]])
    BY <1>6 DEF Poll
  <2> QED
    BY <2>2, <2>3, <2>6, <2>7
<1>7. CASE Wake(w) \/ Expire(w) \/ Interrupt(w)
  <2>1. UNCHANGED <<kind, target, status, reached, archive>>
    BY <1>7 DEF Wake, Expire, Interrupt
  <2>2. CASE place[w] = "sleep" /\ Goes(w, "poll")
    BY <1>0, <2>1, <2>2 DEF WaiterInv, Goes
  <2>3. CASE place[w] # "ended" /\ Ends(w, "error")
    BY <1>0, <2>1, <2>3 DEF WaiterInv, Ends
  <2> QED
    BY <1>7, <2>2, <2>3 DEF Wake, Expire, Interrupt
<1>8. CASE Create(w)
  BY <1>0, <1>1, <1>2, <1>8 DEF WaiterInv, Create, Goes, Ends
<1>9. CASE Copy(w)
  <2>1. /\ kind[w] = "download" /\ target[w] \in Exports
        /\ status[target[w]] = "completed" /\ target[w] \in Work
        /\ UNCHANGED <<kind, target, status, reached>>
    BY <1>0, <1>2, <1>9 DEF WaiterInv, Copy
  <2>2. "completed" \in reached[target[w]]
    BY <2>1 DEF StatusInv
  <2> QED
    BY <1>0, <1>9, <2>1, <2>2 DEF WaiterInv, Copy, Ends
<1>10. ASSUME NEW v \in Waiters \ {w}, Begin(v) \/ Step(v) \/ Expire(v) \/ Interrupt(v)
       PROVE  WaiterInv(w)'
  BY <1>3, <1>10 DEF Begin, Step, Follows, StartExport, Poll, Concluded, Wake, Expire,
     Interrupt, Create, Copy, Goes, Ends
<1> QED
  BY <1>3, <1>4, <1>5, <1>6, <1>7, <1>8, <1>9, <1>10 DEF TasksNext, Begin, Step,
     Started, Progress, Resumed, tasksVars

(* Every step keeps the whole invariant. *)
LEMMA WaitStep == WaitInv /\ [TasksNext]_tasksVars => WaitInv'
<1> SUFFICES ASSUME WaitInv, [TasksNext]_tasksVars PROVE WaitInv'
  OBVIOUS
<1>1. TasksTypeOK' /\ StatusInv'
  BY TasksTypeStep, PlatformStep DEF WaitInv
<1>2. FollowInv' /\ DownloadsKeepWord'
  BY WaiterStep DEF WaiterInv, FollowInv, DownloadsKeepWord
<1> QED
  BY <1>1, <1>2 DEF WaitInv

(* It holds before anybody waits. *)
LEMMA WaitStart == TasksInit => WaitInv
  BY TasksAssumption DEF TasksInit, WaitInv, TasksTypeOK, Places, StatusInv, StatusesOf,
     FollowInv, DownloadsKeepWord, Work

(* For any number of downloads, what lies at the path fits what was said:  *)
(* a success has left the whole archive, a failed export the earlier one,  *)
(* and the earlier one is given up only for a completed export; an archive *)
(* that broke off lies there only under an error (composite.go             *)
(* exportsCreate, client.go Download).                                     *)
THEOREM DownloadsHold == TasksSpec => [](TasksTypeOK /\ DownloadsKeepWord)
<1>1. WaitInv => TasksTypeOK /\ DownloadsKeepWord
  BY DEF WaitInv
<1> QED
  BY <1>1, WaitStart, WaitStep, PTL DEF TasksSpec

(* And in the step in which a wait is told how its work ended, nothing of  *)
(* it is under way and it ended that way, whatever kind of work it is      *)
(* (task.go runningStatuses, Failed).                                      *)
LEMMA RestStep ==
  WaitInv /\ [TasksNext]_tasksVars =>
    [\A w \in Waiters :
       result[w] = "none" /\ result'[w] \in {"ok", "failed"} =>
         /\ Successors(target[w], status[target[w]]) = {}
         /\ result'[w] = "failed" <=>
              status[target[w]] \in {"failed", "cancelled"}]_tasksVars
<1>1. ASSUME WaitInv, [TasksNext]_tasksVars, NEW w \in Waiters,
             result[w] = "none", result'[w] \in {"ok", "failed"}
      PROVE  /\ Successors(target[w], status[target[w]]) = {}
             /\ result'[w] = "failed" <=>
                  status[target[w]] \in {"failed", "cancelled"}
  <2>1. Poll(w) \/ Copy(w)
    BY <1>1 DEF TasksNext, Begin, Step, Started, Progress, Resumed, Follows, StartExport,
       Poll, Concluded, Wake, Expire, Interrupt, Create, Copy, Goes, Ends, tasksVars,
       WaitInv, TasksTypeOK
  <2>2. /\ target[w] \in Work /\ status[target[w]] \in StatusesOf(target[w])
        /\ status[target[w]] \notin Running
    <3>1. CASE Poll(w)
      BY <1>1, <3>1 DEF Poll, Ends, Goes, TaskDone, WaitInv, TasksTypeOK, FollowInv, StatusInv
    <3>2. CASE Copy(w)
      BY <1>1, <3>2 DEF Copy, WaitInv, FollowInv, StatusInv, Running
    <3> QED
      BY <2>1, <3>1, <3>2
  <2>3. result'[w] = "failed" <=> status[target[w]] \in {"failed", "cancelled"}
    <3>1. CASE Poll(w)
      <4>1. place[w] = "poll" /\ TaskDone(status[target[w]])
              /\ Concluded(w, status[target[w]])
        BY <1>1, <3>1 DEF Poll, Ends, Goes, WaitInv, TasksTypeOK
      <4> QED
        BY <1>1, <4>1, ConcludedSound DEF Ends, Goes, WaitInv, TasksTypeOK
    <3>2. CASE Copy(w)
      BY <1>1, <3>2 DEF Copy, Ends, WaitInv, TasksTypeOK, FollowInv
    <3> QED
      BY <2>1, <3>1, <3>2
  <2> QED
    BY <2>2, <2>3, SuccessorsSound
<1> QED
  BY <1>1

(* So it is for every wait, in any number of them (task.go WaitForTask).   *)
THEOREM RestHolds == TasksSpec => RestedWhenTold
BY RestStep, WaitStart, WaitStep, PTL DEF TasksSpec, RestedWhenTold

-----------------------------------------------------------------------------
(* Listing: a pass has had what stayed in the list, and nothing twice.     *)

(* The smaller of two numbers. *)
LEMMA MinOfTwo ==
  ASSUME NEW a \in Nat, NEW b \in Nat
  PROVE  Min({a, b}) = IF a <= b THEN a ELSE b
  BY DEF Min

(* InsertAt puts an item between those before and those behind. *)
LEMMA Inserted ==
  ASSUME NEW S, NEW s \in Seq(S), NEW e \in S, NEW i \in 1..Len(s) + 1
  PROVE  /\ InsertAt(s, i, e) \in Seq(S)
         /\ Len(InsertAt(s, i, e)) = Len(s) + 1
         /\ \A j \in 1..Len(s) + 1 :
              InsertAt(s, i, e)[j] = IF j < i THEN s[j]
                                     ELSE IF j = i THEN e ELSE s[j - 1]
<1> DEFINE front == SubSeq(s, 1, i - 1)
           back == SubSeq(s, i, Len(s))
<1>1. /\ front \in Seq(S) /\ Len(front) = i - 1
      /\ \A j \in 1..i - 1 : front[j] = s[j]
  OBVIOUS
<1>2. /\ back \in Seq(S) /\ Len(back) = Len(s) - i + 1
      /\ \A j \in 1..Len(s) - i + 1 : back[j] = s[i + j - 1]
  OBVIOUS
<1> HIDE DEF front, back
<1>3. /\ front \o <<e>> \in Seq(S) /\ Len(front \o <<e>>) = i
      /\ \A j \in 1..i : (front \o <<e>>)[j] = IF j < i THEN s[j] ELSE e
  BY <1>1
<1>4. InsertAt(s, i, e) = (front \o <<e>>) \o back
  BY DEF InsertAt, front, back
<1> DEFINE start == front \o <<e>>
<1> HIDE DEF start
<1>5. start \in Seq(S) /\ Len(start) = i
      /\ \A j \in 1..i : start[j] = IF j < i THEN s[j] ELSE e
  BY <1>3 DEF start
<1>6. /\ start \o back \in Seq(S) /\ Len(start \o back) = Len(s) + 1
      /\ \A j \in 1..Len(s) + 1 :
           (start \o back)[j] = IF j <= i THEN start[j] ELSE back[j - i]
  <2>1. Len(start) + Len(back) = Len(s) + 1
    BY <1>2, <1>5
  <2>2. /\ start \o back \in Seq(S) /\ Len(start \o back) = Len(start) + Len(back)
        /\ \A j \in 1..Len(start) + Len(back) :
             (start \o back)[j] = IF j <= Len(start) THEN start[j]
                                  ELSE back[j - Len(start)]
    BY <1>2, <1>5, ConcatProperties
  <2> QED
    BY <1>5, <2>1, <2>2
<1>7. ASSUME NEW j \in 1..Len(s) + 1, j > i
      PROVE  back[j - i] = s[j - 1]
  <2>1. j - i \in 1..Len(s) - i + 1 /\ i + (j - i) - 1 = j - 1
    BY <1>7
  <2> QED
    BY <1>2, <2>1
<1>8. InsertAt(s, i, e) = start \o back
  BY <1>4 DEF start
<1>9. ASSUME NEW j \in 1..Len(s) + 1
      PROVE  (start \o back)[j] = IF j < i THEN s[j] ELSE IF j = i THEN e ELSE s[j - 1]
  <2>1. CASE j <= i
    <3>1. j \in 1..i /\ (j < i \/ j = i)
      BY <2>1
    <3>2. (start \o back)[j] = start[j]
      BY <1>6, <2>1
    <3> QED
      BY <1>5, <3>1, <3>2
  <2>2. CASE j > i
    <3>1. (start \o back)[j] = back[j - i]
      BY <1>6, <2>2
    <3>2. (start \o back)[j] = s[j - 1] /\ j \in Int /\ i \in Int
      BY <1>7, <2>2, <3>1
    <3> QED
      BY <2>2, <3>2
  <2>3. j \in Int /\ i \in Int /\ (j <= i \/ j > i)
    OBVIOUS
  <2> QED
    BY <2>1, <2>2, <2>3
<1> QED
  BY <1>6, <1>8, <1>9

(* RemoveAt closes the gap. *)
LEMMA Removed ==
  ASSUME NEW S, NEW s \in Seq(S), NEW i \in 1..Len(s)
  PROVE  /\ RemoveAt(s, i) \in Seq(S)
         /\ Len(RemoveAt(s, i)) = Len(s) - 1
         /\ \A j \in 1..Len(s) - 1 :
              RemoveAt(s, i)[j] = IF j < i THEN s[j] ELSE s[j + 1]
<1> DEFINE front == SubSeq(s, 1, i - 1)
           back == SubSeq(s, i + 1, Len(s))
<1>1. /\ front \in Seq(S) /\ Len(front) = i - 1
      /\ \A j \in 1..i - 1 : front[j] = s[j]
  OBVIOUS
<1>2. /\ back \in Seq(S) /\ Len(back) = Len(s) - i
      /\ \A j \in 1..Len(s) - i : back[j] = s[i + j]
  OBVIOUS
<1>3. RemoveAt(s, i) = front \o back
  BY DEF RemoveAt, front, back
<1> HIDE DEF front, back
<1>4. /\ front \o back \in Seq(S) /\ Len(front \o back) = Len(s) - 1
      /\ \A j \in 1..Len(s) - 1 :
           (front \o back)[j] = IF j <= i - 1 THEN front[j] ELSE back[j - (i - 1)]
  <2>1. Len(front) + Len(back) = Len(s) - 1
    BY <1>1, <1>2
  <2>2. /\ front \o back \in Seq(S) /\ Len(front \o back) = Len(front) + Len(back)
        /\ \A j \in 1..Len(front) + Len(back) :
             (front \o back)[j] = IF j <= Len(front) THEN front[j]
                                  ELSE back[j - Len(front)]
    BY <1>1, <1>2, ConcatProperties
  <2> QED
    BY <1>1, <2>1, <2>2
<1>5. \A j \in 1..Len(s) - 1 : j >= i => back[j - (i - 1)] = s[j + 1]
  <2> SUFFICES ASSUME NEW j \in 1..Len(s) - 1, j >= i
               PROVE  back[j - (i - 1)] = s[j + 1]
    OBVIOUS
  <2>1. j - (i - 1) \in 1..Len(s) - i /\ i + (j - (i - 1)) = j + 1
    OBVIOUS
  <2> QED
    BY <1>2, <2>1
<1> QED
  BY <1>1, <1>3, <1>4, <1>5

(* What a page holds is a stretch of the list. *)
LEMMA CutOf ==
  ASSUME ListingTypeOK, NEW n \in Nat, NEW m \in Nat
  PROVE  /\ Cut(n, m) \in Seq(1..listed)
         /\ \A j \in DOMAIN Cut(n, m) :
              n + j \in DOMAIN list /\ n + j <= m /\ Cut(n, m)[j] = list[n + j]
         /\ ToSet(Cut(n, m)) = {list[j] : j \in {k \in DOMAIN list : n < k /\ k <= m}}
<1> DEFINE end == IF m <= Len(list) THEN m ELSE Len(list)
<1>1. list \in Seq(1..listed) /\ Len(list) \in Nat /\ DOMAIN list = 1..Len(list)
  BY DEF ListingTypeOK
<1>2. end \in Nat /\ end <= m /\ end <= Len(list) /\ Cut(n, m) = SubSeq(list, n + 1, end)
  BY <1>1, MinOfTwo DEF Cut
<1>3. /\ Cut(n, m) \in Seq(1..listed)
      /\ Len(Cut(n, m)) = IF n < end THEN end - n ELSE 0
      /\ \A j \in 1..Len(Cut(n, m)) : Cut(n, m)[j] = list[n + j]
  <2>1. \A j \in n + 1..end : list[j] \in 1..listed
    <3>1. \A j \in n + 1..end : j \in 1..Len(list)
      BY <1>1, <1>2
    <3>2. \A j \in 1..Len(list) : list[j] \in 1..listed
      BY <1>1, ElementOfSeq
    <3> HIDE DEF end
    <3> QED
      BY <3>1, <3>2
  <2>2. /\ SubSeq(list, n + 1, end) \in Seq(1..listed)
        /\ Len(SubSeq(list, n + 1, end)) =
             IF n + 1 <= end THEN end - (n + 1) + 1 ELSE 0
        /\ \A j \in 1..end - (n + 1) + 1 :
             SubSeq(list, n + 1, end)[j] = list[(n + 1) + j - 1]
    <3>1. n + 1 \in Int /\ end \in Int
      BY <1>2
    <3> HIDE DEF end
    <3> QED
      BY <2>1, <3>1, SubSeqProperties
  <2>3. IF n + 1 <= end THEN end - (n + 1) + 1 = end - n ELSE ~(n < end)
    BY <1>2
  <2>4. \A j \in Nat : (n + 1) + j - 1 = n + j
    OBVIOUS
  <2> HIDE DEF end
  <2>5. Cut(n, m) \in Seq(1..listed) /\ Len(Cut(n, m)) = IF n < end THEN end - n ELSE 0
    <3>1. end \in Nat /\ (n + 1 <= end <=> n < end)
      BY <1>2
    <3> QED
      BY <1>2, <2>2, <2>3, <3>1
  <2>6. ASSUME NEW j \in 1..Len(Cut(n, m))
        PROVE  Cut(n, m)[j] = list[n + j]
    <3>1. j \in Nat /\ j \in 1..end - (n + 1) + 1
      BY <1>2, <2>5, <2>6
    <3> QED
      BY <1>2, <2>2, <2>4, <3>1
  <2> QED
    BY <2>5, <2>6
<1>4. \A j \in DOMAIN Cut(n, m) :
        n + j \in DOMAIN list /\ n + j <= m /\ Cut(n, m)[j] = list[n + j]
  BY <1>1, <1>2, <1>3
<1>5. \A k \in DOMAIN list : n < k /\ k <= m => k - n \in DOMAIN Cut(n, m)
  BY <1>1, <1>2, <1>3
<1>6. ToSet(Cut(n, m)) = {list[j] : j \in {k \in DOMAIN list : n < k /\ k <= m}}
  <2>1. ASSUME NEW x \in ToSet(Cut(n, m))
        PROVE  \E j \in DOMAIN list : n < j /\ j <= m /\ x = list[j]
    <3>1. PICK j \in DOMAIN Cut(n, m) : x = Cut(n, m)[j]
      BY DEF ToSet
    <3>2. j \in Nat \ {0}
      BY <1>3
    <3> QED
      BY <1>4, <3>1, <3>2
  <2>2. ASSUME NEW k \in DOMAIN list, n < k, k <= m
        PROVE  list[k] \in ToSet(Cut(n, m))
    <3>1. Cut(n, m)[k - n] = list[n + (k - n)] /\ n + (k - n) = k
      BY <1>1, <1>4, <1>5, <2>2
    <3> QED
      BY <1>5, <2>2, <3>1 DEF ToSet
  <2> QED
    BY <2>1, <2>2
<1> QED
  BY <1>3, <1>4, <1>6

(* The arithmetic of page numbers and positions. *)
LEMMA Pages ==
  ASSUME NEW n \in Nat \ {0}
  PROVE  /\ PerPage * n \in Nat /\ PerPage * (n - 1) \in Nat
         /\ PerPage * (n - 1) < PerPage * n
         /\ n - 1 = 0 => PerPage * (n - 1) = 0
<1>1. PerPage \in Nat /\ PerPage > 0 /\ n - 1 \in Nat
  BY ListingAssumption
<1>2. PerPage * n = PerPage * (n - 1) + PerPage
  BY <1>1
<1>3. PerPage * (n - 1) \in Nat
  BY <1>1
<1> QED
  BY <1>1, <1>2, <1>3

(* What fetching a page does, for the page there is to ask for. *)
LEMMA FetchFacts ==
  ASSUME PassInv, FetchPage
  PROVE  /\ Asked \in Nat \ {0}
         /\ read > 0 => read = PerPage * (Asked - 1)
         /\ walk = "fetch" /\ walk' = "yield" /\ query' = Default
         /\ batch' = PageOf(Asked) /\ next' = Link(Asked)
         /\ read' = PerPage * Asked /\ read' \in Nat /\ read' > 0
         /\ UNCHANGED <<endpoint, had, pulled, pushed>>
<1>1. Asked \in Nat \ {0} /\ (read > 0 => Asked = next)
  BY ListingAssumption DEF Asked, FetchPage, Fetched, PassInv, ListingTypeOK, PageInv,
     Default, NoLink
<1>2. /\ walk = "fetch" /\ walk' = "yield" /\ query' = Default
      /\ batch' = PageOf(Asked) /\ next' = Link(Asked) /\ read' = PerPage * Asked
      /\ UNCHANGED <<endpoint, had, pulled, pushed>>
  BY DEF FetchPage, Fetched
<1>3. read > 0 => read = PerPage * (Asked - 1)
  BY <1>1, <1>2 DEF PassInv, PageInv
<1>4. PerPage * Asked \in Nat /\ PerPage * Asked > 0
  BY <1>1, Pages
<1> QED
  BY <1>1, <1>2, <1>3, <1>4

(* The items of a page are the next of the list, each once. *)
LEMMA PageFacts ==
  ASSUME PassInv, FetchPage
  PROVE  /\ batch' \in Seq(1..listed)
         /\ \A i, j \in DOMAIN batch' : batch'[i] = batch'[j] => i = j
         /\ ToSet(batch)' = {list[j] : j \in {k \in DOMAIN list :
                               PerPage * (Asked - 1) < k /\ k <= PerPage * Asked}}
<1> DEFINE n == PerPage * (Asked - 1)
           m == PerPage * Asked
<1>1. n \in Nat /\ m \in Nat /\ batch' = Cut(n, m)
  BY FetchFacts, Pages DEF PageOf
<1> HIDE DEF n, m
<1>2. ListingTypeOK
  BY DEF PassInv
<1>3. /\ batch' \in Seq(1..listed)
      /\ \A j \in DOMAIN batch' : n + j \in DOMAIN list /\ batch'[j] = list[n + j]
      /\ ToSet(batch') = {list[j] : j \in {k \in DOMAIN list : n < k /\ k <= m}}
  BY <1>1, <1>2, CutOf
<1>4. ASSUME NEW i \in DOMAIN batch', NEW j \in DOMAIN batch', batch'[i] = batch'[j]
      PROVE  i = j
  <2>1. n + i = n + j
    BY <1>2, <1>3, <1>4 DEF ListingTypeOK
  <2>2. i \in Nat /\ j \in Nat
    BY <1>3
  <2> QED
    BY <1>1, <2>1, <2>2
<1>5. ToSet(batch)' = ToSet(batch')
  BY DEF ToSet
<1> QED
  BY <1>3, <1>4, <1>5 DEF n, m

(* What taking an item of a page does. *)
LEMMA YieldFacts ==
  ASSUME PassInv, Yield
  PROVE  /\ Head(batch) \in 1..listed /\ Head(batch) \in 1..MaxItems
         /\ Head(batch) \in ToSet(batch) /\ batch' \in Seq(1..listed)
         /\ \A i, j \in DOMAIN batch' : batch'[i] = batch'[j] => i = j
         /\ ToSet(batch)' = ToSet(batch) \ {Head(batch)}
         /\ had' = [had EXCEPT ![Head(batch)] =
                      IF had[Head(batch)] + 1 <= 2 THEN had[Head(batch)] + 1 ELSE 2]
<1>1. /\ batch \in Seq(1..listed) /\ batch # <<>> /\ listed \in 0..MaxItems
      /\ MaxItems \in Nat
      /\ \A i, j \in DOMAIN batch : batch[i] = batch[j] => i = j
      /\ had \in [1..MaxItems -> 0..2] /\ batch' = Tail(batch)
  BY ListingAssumption DEF PassInv, ListingTypeOK, Yield
<1>2. /\ Head(batch) = batch[1] /\ 1 \in DOMAIN batch /\ DOMAIN batch = 1..Len(batch)
      /\ batch' \in Seq(1..listed) /\ Len(batch') = Len(batch) - 1
      /\ DOMAIN batch' = 1..Len(batch) - 1 /\ Len(batch) \in Nat
      /\ \A i \in DOMAIN batch' : batch'[i] = batch[i + 1]
  BY <1>1
<1>3. Head(batch) \in 1..listed /\ Head(batch) \in 1..MaxItems
  BY <1>1, <1>2
<1>4. Head(batch) \in ToSet(batch)
  BY <1>2 DEF ToSet
<1>5. \A i, j \in DOMAIN batch' : batch'[i] = batch'[j] => i = j
  <2> TAKE i, j \in DOMAIN batch'
  <2>1. i + 1 \in DOMAIN batch /\ j + 1 \in DOMAIN batch /\ i \in Nat /\ j \in Nat
    BY <1>2
  <2> QED
    BY <1>1, <1>2, <2>1
<1>6. ToSet(batch') = ToSet(batch) \ {Head(batch)}
  <2>1. ASSUME NEW i \in DOMAIN batch'
        PROVE  batch'[i] \in ToSet(batch) \ {Head(batch)}
    <3>1. i + 1 \in DOMAIN batch /\ i + 1 # 1
      BY <1>2, <2>1
    <3> QED
      BY <1>1, <1>2, <3>1 DEF ToSet
  <2>2. ASSUME NEW i \in DOMAIN batch, batch[i] # Head(batch)
        PROVE  batch[i] \in ToSet(batch')
    <3>1. i - 1 \in DOMAIN batch' /\ (i - 1) + 1 = i
      BY <1>2, <2>2
    <3>2. batch'[i - 1] = batch[i]
      BY <1>2, <3>1
    <3> QED
      BY <3>1, <3>2 DEF ToSet
  <2> QED
    BY <2>1, <2>2 DEF ToSet
<1>7. had' = [had EXCEPT ![Head(batch)] =
                IF had[Head(batch)] + 1 <= 2 THEN had[Head(batch)] + 1 ELSE 2]
  <2>1. had[Head(batch)] + 1 \in Nat
    BY <1>1, <1>3
  <2>2. Min({had[Head(batch)] + 1, 2}) =
          IF had[Head(batch)] + 1 <= 2 THEN had[Head(batch)] + 1 ELSE 2
    BY <2>1, MinOfTwo
  <2> QED
    BY <2>2 DEF Yield
<1> QED
  BY <1>2, <1>3, <1>4, <1>5, <1>6, <1>7 DEF ToSet

(* What inserting an item does to the list. *)
LEMMA InsertFacts ==
  ASSUME PassInv, NEW i \in 1..Len(list) + 1, Insert(i)
  PROVE  /\ listed \in Nat /\ listed' = listed + 1 /\ listed' \in 0..MaxItems
         /\ Len(list) \in Nat /\ DOMAIN list = 1..Len(list) /\ read \in Nat
         /\ \A j, k \in 1..Len(list) : list[j] = list[k] => j = k
         /\ \A j \in 1..Len(list) : list[j] \in 1..listed
         /\ list' \in Seq(1..listed + 1) /\ DOMAIN list' = 1..Len(list) + 1
         /\ \A j \in 1..Len(list) + 1 :
              list'[j] = IF j < i THEN list[j]
                         ELSE IF j = i THEN listed + 1 ELSE list[j - 1]
         /\ changes' \in Nat /\ (pushed' <=> pushed \/ i <= read) /\ pushed' \in BOOLEAN
         /\ UNCHANGED <<walking, read, steady, pulled>>
<1>1. /\ listed \in 0..MaxItems /\ MaxItems \in Nat /\ changes \in Nat /\ read \in Nat
      /\ list \in Seq(1..listed) /\ pushed \in BOOLEAN
      /\ \A j, k \in DOMAIN list : list[j] = list[k] => j = k
  BY ListingAssumption DEF PassInv, ListingTypeOK
<1>2. /\ listed < MaxItems /\ list' = InsertAt(list, i, listed + 1)
      /\ listed' = listed + 1 /\ changes' = changes + 1
      /\ pushed' = (pushed \/ i <= read)
      /\ UNCHANGED <<walking, read, steady, pulled>>
  BY DEF Insert
<1>3. /\ Len(list) \in Nat /\ DOMAIN list = 1..Len(list)
      /\ \A j \in 1..Len(list) : list[j] \in 1..listed
  BY <1>1, LenProperties, ElementOfSeq
<1> DEFINE S == 1..listed + 1
<1>4. list \in Seq(S) /\ listed + 1 \in S
  BY <1>1
<1> HIDE DEF S
<1>5. /\ InsertAt(list, i, listed + 1) \in Seq(S)
      /\ Len(InsertAt(list, i, listed + 1)) = Len(list) + 1
      /\ \A j \in 1..Len(list) + 1 :
           InsertAt(list, i, listed + 1)[j] =
             IF j < i THEN list[j] ELSE IF j = i THEN listed + 1 ELSE list[j - 1]
  BY <1>4, Inserted
<1>6. /\ list' \in Seq(S) /\ Len(list') = Len(list) + 1
      /\ \A j \in 1..Len(list) + 1 :
           list'[j] = IF j < i THEN list[j]
                      ELSE IF j = i THEN listed + 1 ELSE list[j - 1]
  BY <1>2, <1>5
<1>7. DOMAIN list' = 1..Len(list) + 1
  BY <1>6, LenProperties
<1>8. changes' \in Nat /\ listed \in Nat /\ listed' \in 0..MaxItems
  BY <1>1, <1>2
<1>9. (pushed' <=> pushed \/ i <= read) /\ pushed' \in BOOLEAN
  BY <1>2, Zenon
<1> QED
  BY <1>1, <1>2, <1>3, <1>6, <1>7, <1>8, <1>9 DEF S

(* What taking an item does to the list. *)
LEMMA TakeFacts ==
  ASSUME PassInv, NEW i \in 1..Len(list), Take(i)
  PROVE  /\ Len(list) \in Nat /\ DOMAIN list = 1..Len(list) /\ read \in Nat
         /\ \A j, k \in 1..Len(list) : list[j] = list[k] => j = k
         /\ list' \in Seq(1..listed) /\ DOMAIN list' = 1..Len(list) - 1
         /\ \A j \in 1..Len(list) - 1 : list'[j] = IF j < i THEN list[j] ELSE list[j + 1]
         /\ changes' \in Nat /\ (pulled' <=> pulled \/ i <= read)
         /\ pulled' \in BOOLEAN /\ steady' = steady \ {list[i]}
         /\ UNCHANGED <<listed, walking, read, pushed>>
<1>1. /\ changes \in Nat /\ read \in Nat
      /\ list \in Seq(1..listed) /\ pulled \in BOOLEAN
      /\ \A j, k \in DOMAIN list : list[j] = list[k] => j = k
  BY DEF PassInv, ListingTypeOK
<1>2. /\ list' = RemoveAt(list, i) /\ changes' = changes + 1
      /\ pulled' = (pulled \/ i <= read) /\ steady' = steady \ {list[i]}
      /\ UNCHANGED <<listed, walking, read, pushed>>
  BY DEF Take
<1>3. Len(list) \in Nat /\ DOMAIN list = 1..Len(list)
  BY <1>1, LenProperties
<1> DEFINE S == 1..listed
<1> HIDE DEF S
<1>4. list \in Seq(S)
  BY <1>1 DEF S
<1>5. /\ RemoveAt(list, i) \in Seq(S) /\ Len(RemoveAt(list, i)) = Len(list) - 1
      /\ \A j \in 1..Len(list) - 1 :
           RemoveAt(list, i)[j] = IF j < i THEN list[j] ELSE list[j + 1]
  BY <1>4, Removed
<1>6. /\ list' \in Seq(S) /\ Len(list') = Len(list) - 1
      /\ \A j \in 1..Len(list) - 1 : list'[j] = IF j < i THEN list[j] ELSE list[j + 1]
  BY <1>2, <1>5
<1>7. DOMAIN list' = 1..Len(list) - 1
  BY <1>6, LenProperties
<1>8. changes' \in Nat
  BY <1>1, <1>2
<1>10. pulled' \in BOOLEAN /\ (pulled' <=> pulled \/ i <= read)
  BY <1>2, Zenon
<1>9. \A j, k \in 1..Len(list) : list[j] = list[k] => j = k
  BY <1>1, <1>3
<1> QED
  BY <1>1, <1>2, <1>3, <1>6, <1>7, <1>8, <1>9, <1>10 DEF S

(* Every step keeps the types, and each item once in the list. *)
LEMMA ListingTypeStep ==
  ASSUME PassInv, [ListingNext]_listingVars
  PROVE  ListingTypeOK'
<1> USE ListingAssumption
<1>0. ListingTypeOK
  BY DEF PassInv
<1>1. CASE UNCHANGED listingVars
  BY <1>0, <1>1 DEF listingVars, endpoint, walking, ListingTypeOK
<1>2. CASE FetchPage
  <2>1. next' \in Nat
    BY <1>2, FetchFacts DEF Link, NoLink
  <2>2. steady' \subseteq 1..listed
    <3>1. PerPage * (Asked - 1) \in Nat /\ Len(list) \in Nat
      BY <1>0, <1>2, FetchFacts, Pages DEF ListingTypeOK
    <3>2. Cut(PerPage * (Asked - 1), Len(list)) \in Seq(1..listed)
      BY <1>0, <3>1, CutOf
    <3>3. ToSet(Cut(PerPage * (Asked - 1), Len(list))) \subseteq 1..listed
      <4> DEFINE c == Cut(PerPage * (Asked - 1), Len(list))
      <4> HIDE DEF c
      <4>1. c \in Seq(1..listed)
        BY <3>2 DEF c
      <4>2. \A j \in DOMAIN c : c[j] \in 1..listed
        BY <4>1, ElementOfSeq, LenProperties
      <4>3. ToSet(c) \subseteq 1..listed
        BY <4>2 DEF ToSet
      <4> QED
        BY <4>3 DEF c
    <3> QED
      BY <1>0, <1>2, <3>3 DEF FetchPage, Fetched, ListingTypeOK
  <2>3. /\ batch' \in Seq(1..listed)
        /\ \A i, j \in DOMAIN batch' : batch'[i] = batch'[j] => i = j
    BY <1>2, PageFacts
  <2>4. /\ walk' = "yield" /\ query' = Default /\ read' \in Nat
        /\ UNCHANGED <<list, listed, changes, had, pulled, pushed>>
    BY <1>2, FetchFacts DEF endpoint
  <2> QED
    BY <1>0, <2>1, <2>2, <2>3, <2>4 DEF ListingTypeOK
<1>3. CASE FetchFails \/ PageEnds
  BY <1>0, <1>3 DEF FetchFails, PageEnds, endpoint, ListingTypeOK
<1>4. CASE Yield
  <2>1. /\ batch' \in Seq(1..listed)
        /\ \A i, j \in DOMAIN batch' : batch'[i] = batch'[j] => i = j
    BY <1>4, YieldFacts
  <2>2. had' \in [1..MaxItems -> 0..2]
    <3> DEFINE x == Head(batch)
    <3>1. /\ x \in 1..MaxItems /\ had \in [1..MaxItems -> 0..2]
          /\ had' = [had EXCEPT ![x] = IF had[x] + 1 <= 2 THEN had[x] + 1 ELSE 2]
      BY <1>0, <1>4, YieldFacts DEF ListingTypeOK
    <3> HIDE DEF x
    <3>2. (IF had[x] + 1 <= 2 THEN had[x] + 1 ELSE 2) \in 0..2
      BY <3>1
    <3> QED
      BY <3>1, <3>2
  <2>3. /\ walk' \in {"yield", "stopped"}
        /\ UNCHANGED <<list, listed, changes, query, next, read, steady, pulled, pushed>>
    BY <1>4 DEF Yield, endpoint
  <2> QED
    BY <1>0, <2>1, <2>2, <2>3 DEF ListingTypeOK
<1>5. ASSUME NEW i \in 1..Len(list) + 1, Insert(i)
      PROVE  ListingTypeOK'
  <2>1. /\ listed \in Nat /\ listed' = listed + 1 /\ listed' \in 0..MaxItems
        /\ Len(list) \in Nat /\ DOMAIN list' = 1..Len(list) + 1
        /\ changes' \in Nat /\ pushed' \in BOOLEAN
        /\ UNCHANGED <<walking, read, steady, pulled>>
    BY <1>5, InsertFacts
  <2>2. /\ \A j, k \in 1..Len(list) : list[j] = list[k] => j = k
        /\ \A j \in 1..Len(list) : list[j] \in 1..listed
        /\ list' \in Seq(1..listed + 1)
        /\ \A j \in 1..Len(list) + 1 :
             list'[j] = IF j < i THEN list[j]
                        ELSE IF j = i THEN listed + 1 ELSE list[j - 1]
    BY <1>5, InsertFacts
  <2> DEFINE old(j) == IF j < i THEN j ELSE j - 1
  <2>3. \A j \in DOMAIN list' : j # i =>
          old(j) \in 1..Len(list) /\ list'[j] = list[old(j)] /\ list'[j] # listed + 1
    <3> TAKE j \in DOMAIN list'
    <3>1. j \in 1..Len(list) + 1 /\ Len(list) \in Nat
      BY <2>1
    <3>2. j # i => old(j) \in 1..Len(list) /\ list'[j] = list[old(j)]
      BY <2>2, <3>1
    <3>3. \A k \in 1..Len(list) : list[k] # listed + 1
      BY <2>1, <2>2
    <3> QED
      BY <3>2, <3>3
  <2>4. \A j, k \in DOMAIN list' : list'[j] = list'[k] => j = k
    <3>1. list'[i] = listed + 1
      BY <2>1, <2>2
    <3>2. \A j, k \in DOMAIN list' : j # i /\ k # i /\ old(j) = old(k) => j = k
      BY <2>1
    <3>3. ASSUME NEW j \in DOMAIN list', NEW k \in DOMAIN list', list'[j] = list'[k],
                 j # i, k # i
          PROVE  j = k
      <4>1. list[old(j)] = list[old(k)] /\ old(j) \in 1..Len(list) /\ old(k) \in 1..Len(list)
        BY <2>3, <3>3
      <4>2. old(j) = old(k)
        BY <2>2, <4>1
      <4> QED
        BY <3>2, <3>3, <4>2
    <3> HIDE DEF old
    <3> QED
      BY <2>3, <3>1, <3>3
  <2>5. batch \in Seq(1..listed') /\ steady \subseteq 1..listed'
    BY <1>0, <2>1 DEF ListingTypeOK
  <2> QED
    BY <1>0, <2>1, <2>4, <2>5, <2>2 DEF ListingTypeOK, walking
<1>6. ASSUME NEW i \in 1..Len(list), Take(i)
      PROVE  ListingTypeOK'
  <2>1. /\ Len(list) \in Nat /\ DOMAIN list' = 1..Len(list) - 1
        /\ \A j, k \in 1..Len(list) : list[j] = list[k] => j = k
        /\ list' \in Seq(1..listed) /\ changes' \in Nat /\ pulled' \in BOOLEAN
        /\ \A j \in 1..Len(list) - 1 : list'[j] = IF j < i THEN list[j] ELSE list[j + 1]
        /\ steady' \subseteq steady /\ UNCHANGED <<listed, walking, read, pushed>>
    BY <1>6, TakeFacts
  <2>2. ASSUME NEW j \in DOMAIN list', NEW k \in DOMAIN list', list'[j] = list'[k]
        PROVE  j = k
    <3> DEFINE old(h) == IF h < i THEN h ELSE h + 1
    <3>1. \A h \in DOMAIN list' : old(h) \in 1..Len(list) /\ list'[h] = list[old(h)]
      BY <2>1
    <3>2. j \in Int /\ k \in Int /\ i \in Int
      BY <2>1
    <3>3. old(j) = old(k)
      <4> HIDE DEF old
      <4> QED
        BY <2>1, <2>2, <3>1
    <3> QED
      BY <3>2, <3>3
  <2> QED
    BY <1>0, <2>1, <2>2 DEF ListingTypeOK, walking
<1> QED
  BY <1>1, <1>2, <1>3, <1>4, <1>5, <1>6 DEF ListingNext, Walk

(* Every step keeps the next page behind the pages read. *)
LEMMA PageStep ==
  ASSUME PassInv, [ListingNext]_listingVars
  PROVE  PageInv'
<1>0. PageInv /\ ListingTypeOK
  BY DEF PassInv
<1>1. CASE UNCHANGED <<walking, read>>
  BY <1>0, <1>1 DEF walking, PageInv
<1>2. CASE FetchPage
  <2>1. next' # NoLink => read' = PerPage * (next' - 1)
    BY <1>2, FetchFacts DEF Link
  <2> QED
    BY <1>2, <2>1, FetchFacts DEF PageInv
<1>3. CASE FetchFails \/ PageEnds
  BY <1>0, <1>3 DEF FetchFails, PageEnds, PageInv, ListingTypeOK
<1>4. CASE Yield
  BY <1>0, <1>4 DEF Yield, PageInv, ListingTypeOK
<1> QED
  BY <1>1, <1>2, <1>3, <1>4 DEF ListingNext, Walk, Insert, Take, listingVars

(* What was ahead stays ahead when an item is inserted, joined by the new  *)
(* one if that is inserted ahead.                                          *)
LEMMA AheadInserted ==
  ASSUME PassInv, NEW i \in 1..Len(list) + 1, Insert(i)
  PROVE  /\ i > read => Ahead' = Ahead \cup {listed + 1}
         /\ Ahead \subseteq Ahead'
<1>0. /\ Len(list) \in Nat /\ DOMAIN list = 1..Len(list) /\ read \in Nat /\ read' = read
  BY InsertFacts
<1>2. /\ DOMAIN list' = 1..Len(list) + 1
      /\ \A j \in 1..Len(list) + 1 :
           list'[j] = IF j < i THEN list[j]
                      ELSE IF j = i THEN listed + 1 ELSE list[j - 1]
  BY InsertFacts
<1>3. ASSUME NEW j \in 1..Len(list), j > read
      PROVE  \E k \in DOMAIN list' : k > read /\ list'[k] = list[j]
  <2>1. CASE j < i
    BY <1>0, <1>2, <1>3, <2>1
  <2>2. CASE j >= i
    <3>1. j + 1 \in 1..Len(list) + 1 /\ j + 1 > read /\ (j + 1) - 1 = j /\ ~(j + 1 < i)
          /\ j + 1 # i
      BY <1>0, <1>3, <2>2
    <3> QED
      BY <1>2, <3>1
  <2> QED
    BY <1>0, <2>1, <2>2
<1>4. ASSUME NEW k \in DOMAIN list', k > read, i > read
      PROVE  list'[k] = listed + 1 \/ \E j \in DOMAIN list : j > read /\ list'[k] = list[j]
  <2>1. CASE k < i
    BY <1>0, <1>2, <1>4, <2>1
  <2>2. CASE k = i
    BY <1>2, <2>2
  <2>3. CASE k > i
    <3>1. k - 1 \in 1..Len(list) /\ k - 1 > read
      BY <1>0, <1>2, <1>4, <2>3
    <3> QED
      BY <1>0, <1>2, <2>3, <3>1
  <2> QED
    BY <1>2, <2>1, <2>2, <2>3
<1>5. i > read => listed + 1 \in Ahead'
  BY <1>0, <1>2 DEF Ahead
<1> QED
  BY <1>0, <1>3, <1>4, <1>5 DEF Ahead

(* What was ahead and is not taken stays ahead, if it was ahead that the   *)
(* item was taken; nothing comes to be ahead.                              *)
LEMMA AheadTaken ==
  ASSUME PassInv, NEW i \in 1..Len(list), Take(i)
  PROVE  /\ Ahead' \subseteq Ahead
         /\ i > read => Ahead \ {list[i]} \subseteq Ahead'
<1>0. /\ Len(list) \in Nat /\ DOMAIN list = 1..Len(list) /\ read \in Nat /\ read' = read
  BY TakeFacts
<1>1. /\ DOMAIN list' = 1..Len(list) - 1
      /\ \A j \in 1..Len(list) - 1 : list'[j] = IF j < i THEN list[j] ELSE list[j + 1]
  BY TakeFacts
<1>2. ASSUME NEW k \in DOMAIN list', k > read
      PROVE  \E j \in DOMAIN list : j > read /\ list'[k] = list[j]
  <2>1. k \in 1..Len(list) /\ k + 1 \in 1..Len(list) /\ k + 1 > read
    BY <1>0, <1>1, <1>2
  <2> QED
    BY <1>0, <1>1, <1>2, <2>1
<1>3. ASSUME NEW j \in 1..Len(list), j > read, i > read, list[j] # list[i]
      PROVE  \E k \in DOMAIN list' : k > read /\ list'[k] = list[j]
  <2>1. CASE j < i
    BY <1>0, <1>1, <1>3, <2>1
  <2>2. CASE j > i
    <3>1. j - 1 \in 1..Len(list) - 1 /\ j - 1 > read /\ (j - 1) + 1 = j /\ ~(j - 1 < i)
      BY <1>0, <1>3, <2>2
    <3> QED
      BY <1>1, <3>1
  <2> QED
    BY <1>0, <1>3, <2>1, <2>2
<1> QED
  BY <1>0, <1>2, <1>3 DEF Ahead

(* Every step keeps what nobody put an item into apart. *)
LEMMA OnceStep ==
  ASSUME PassInv, [ListingNext]_listingVars
  PROVE  OnceInv'
<1>0. OnceInv /\ PageInv /\ ListingTypeOK
  BY DEF PassInv
<1>1. CASE UNCHANGED listingVars
  BY <1>0, <1>1 DEF listingVars, endpoint, walking, OnceInv, Ahead, ToSet
<1>2. CASE FetchPage
  <2> DEFINE n == PerPage * (Asked - 1)
             m == PerPage * Asked
  <2>1. /\ n \in Nat /\ m \in Nat /\ n < m /\ read' = m /\ read <= n /\ read \in Nat
        /\ UNCHANGED <<endpoint, had, pulled, pushed>>
    <3>1. /\ Asked \in Nat \ {0} /\ (read > 0 => read = n) /\ read' = m /\ read \in Nat
          /\ UNCHANGED <<endpoint, had, pulled, pushed>>
      BY <1>0, <1>2, FetchFacts DEF ListingTypeOK
    <3>2. n \in Nat /\ m \in Nat /\ n < m
      BY <3>1, Pages
    <3> HIDE DEF n, m
    <3> QED
      BY <3>1, <3>2
  <2>2. ToSet(batch)' = {list[j] : j \in {k \in DOMAIN list : n < k /\ k <= m}}
    BY <1>2, PageFacts
  <2> HIDE DEF n, m
  <2>3. Ahead' = {list[j] : j \in {k \in DOMAIN list : k > m}}
    BY <2>1 DEF Ahead, endpoint
  <2>4. /\ DOMAIN list \subseteq Nat
        /\ \A i, j \in DOMAIN list : list[i] = list[j] => i = j
    BY <1>0, LenProperties DEF ListingTypeOK
  <2>5. Ahead' \cup ToSet(batch)' \subseteq Ahead
    BY <2>1, <2>2, <2>3, <2>4 DEF Ahead
  <2>6. Ahead' \cap ToSet(batch)' = {}
    BY <2>1, <2>2, <2>3, <2>4
  <2> QED
    BY <1>0, <2>1, <2>5, <2>6 DEF OnceInv, endpoint
<1>3. CASE FetchFails \/ PageEnds
  BY <1>0, <1>3 DEF FetchFails, PageEnds, endpoint, OnceInv, Ahead, ToSet
<1>4. CASE Yield
  <2> DEFINE x == Head(batch)
  <2>1. /\ x \in 1..listed /\ x \in 1..MaxItems /\ x \in ToSet(batch)
        /\ ToSet(batch)' = ToSet(batch) \ {x}
        /\ had' = [had EXCEPT ![x] = IF had[x] + 1 <= 2 THEN had[x] + 1 ELSE 2]
        /\ had \in [1..MaxItems -> 0..2] /\ UNCHANGED <<list, listed, read, pushed>>
    <3>1. had \in [1..MaxItems -> 0..2] /\ UNCHANGED <<list, listed, read, pushed>>
      BY <1>0, <1>4 DEF ListingTypeOK, Yield, endpoint
    <3>2. x \in 1..listed /\ x \in 1..MaxItems /\ x \in ToSet(batch)
      BY <1>4, YieldFacts
    <3>3. /\ ToSet(batch)' = ToSet(batch) \ {x}
          /\ had' = [had EXCEPT ![x] = IF had[x] + 1 <= 2 THEN had[x] + 1 ELSE 2]
      BY <1>4, YieldFacts
    <3> QED
      BY <3>1, <3>2, <3>3
  <2> HIDE DEF x
  <2>2. \A y \in 1..MaxItems : y > listed => had'[y] = 0
    BY <1>0, <2>1 DEF OnceInv, ListingTypeOK
  <2>3. ASSUME ~pushed
        PROVE  /\ \A y \in 1..MaxItems : had'[y] < 2
               /\ \A y \in Ahead' \cup ToSet(batch)' : had'[y] = 0
               /\ Ahead' \cap ToSet(batch)' = {}
    <3>1. had[x] = 0 /\ x \notin Ahead /\ Ahead' = Ahead
      BY <1>0, <2>1, <2>3 DEF OnceInv, Ahead
    <3>2. had' = [had EXCEPT ![x] = 1]
      BY <2>1, <3>1
    <3>3. Ahead \subseteq 1..MaxItems /\ ToSet(batch) \subseteq 1..MaxItems
      BY <1>0, ListingAssumption, LenProperties, ElementOfSeq DEF ListingTypeOK, Ahead, ToSet
    <3> QED
      BY <1>0, <2>1, <2>3, <3>1, <3>2, <3>3 DEF OnceInv
  <2> QED
    BY <2>1, <2>2, <2>3 DEF OnceInv
<1>5. ASSUME NEW i \in 1..Len(list) + 1, Insert(i)
      PROVE  OnceInv'
  <2>1. /\ listed \in Nat /\ listed' = listed + 1 /\ listed' \in 0..MaxItems
        /\ (pushed' <=> pushed \/ i <= read) /\ UNCHANGED <<batch, had>>
        /\ read \in Nat
    BY <1>5, InsertFacts DEF walking
  <2>2. listed + 1 \notin ToSet(batch) /\ ToSet(batch)' = ToSet(batch)
    BY <1>0, <2>1, LenProperties, ElementOfSeq DEF ListingTypeOK, ToSet
  <2>3. i > read => Ahead' = Ahead \cup {listed + 1}
    BY <1>5, AheadInserted
  <2>4. MaxItems \in Nat /\ listed + 1 \in 1..MaxItems
    BY <2>1, ListingAssumption
  <2> QED
    BY <1>0, <2>1, <2>2, <2>3, <2>4 DEF OnceInv
<1>6. ASSUME NEW i \in 1..Len(list), Take(i)
      PROVE  OnceInv'
  <2>1. Ahead' \subseteq Ahead
    BY <1>6, AheadTaken
  <2> QED
    BY <1>0, <1>6, <2>1 DEF Take, walking, OnceInv, ToSet
<1> QED
  BY <1>1, <1>2, <1>3, <1>4, <1>5, <1>6 DEF ListingNext, Walk

(* Every step keeps the steady items that nobody took from what was read   *)
(* had, or to come.                                                        *)
LEMMA SteadyStep ==
  ASSUME PassInv, [ListingNext]_listingVars
  PROVE  SteadyInv'
<1>0. SteadyInv /\ PageInv /\ ListingTypeOK
  BY DEF PassInv
<1>1. CASE UNCHANGED listingVars
  BY <1>0, <1>1 DEF listingVars, endpoint, walking, SteadyInv, Ahead, ToSet
<1>2. CASE FetchPage
  <2> DEFINE n == PerPage * (Asked - 1)
             m == PerPage * Asked
  <2>1. /\ n \in Nat /\ m \in Nat /\ n < m /\ read' = m /\ read \in Nat
        /\ (read > 0 => read = n) /\ batch = <<>> /\ next' = Link(Asked)
        /\ Asked \in Nat /\ UNCHANGED <<endpoint, had, pulled, pushed>>
    BY <1>0, <1>2, FetchFacts, Pages DEF ListingTypeOK, PageInv
  <2>2. ToSet(batch)' = {list[j] : j \in {k \in DOMAIN list : n < k /\ k <= m}}
    BY <1>2, PageFacts
  <2>3. Len(list) \in Nat /\ DOMAIN list = 1..Len(list)
    BY <1>0, LenProperties DEF ListingTypeOK
  <2>4. next' # NoLink <=> m < Len(list)
    BY <2>1 DEF Link, NoLink
  <2>5. read = 0 => steady' = {list[j] : j \in {k \in DOMAIN list : n < k}}
    <3>1. SUFFICES ASSUME read = 0
                   PROVE  steady' = {list[j] : j \in {k \in DOMAIN list : n < k}}
      OBVIOUS
    <3>2. steady' = ToSet(Cut(n, Len(list)))
      BY <1>2, <3>1 DEF FetchPage, Fetched
    <3> HIDE DEF n
    <3>3. ToSet(Cut(n, Len(list))) =
            {list[j] : j \in {k \in DOMAIN list : n < k /\ k <= Len(list)}}
      BY <1>0, <2>1, <2>3, CutOf
    <3> QED
      BY <2>3, <3>2, <3>3
  <2>6. read > 0 => steady' = steady
    BY <1>2 DEF FetchPage, Fetched
  <2> HIDE DEF n, m
  <2>7. Ahead' = {list[j] : j \in {k \in DOMAIN list : k > m}}
    BY <2>1 DEF Ahead, endpoint
  <2>8. ASSUME NEW k \in DOMAIN list, n < k
        PROVE  list[k] \in ToSet(batch)' \/ (list[k] \in Ahead' /\ next' # NoLink)
    BY <2>1, <2>2, <2>3, <2>4, <2>7, <2>8
  <2>9. CASE read = 0
    BY <2>1, <2>5, <2>8, <2>9 DEF SteadyInv
  <2>10. CASE read > 0
    <3>1. ASSUME ~pulled, NEW x \in steady, ~(had[x] > 0)
          PROVE  \E k \in DOMAIN list : n < k /\ x = list[k]
      <4>1. x \in Ahead
        BY <1>0, <2>1, <2>10, <3>1 DEF SteadyInv, ToSet
      <4> QED
        BY <2>1, <2>10, <4>1 DEF Ahead
    <3> QED
      BY <2>1, <2>6, <2>8, <2>10, <3>1 DEF SteadyInv
  <2> QED
    BY <2>1, <2>9, <2>10
<1>3. CASE FetchFails \/ PageEnds
  BY <1>0, <1>3 DEF FetchFails, PageEnds, endpoint, SteadyInv, Ahead, ToSet
<1>4. CASE Yield
  <2> DEFINE x == Head(batch)
  <2>1. /\ x \in 1..MaxItems
        /\ ToSet(batch)' = ToSet(batch) \ {x}
        /\ had' = [had EXCEPT ![x] = IF had[x] + 1 <= 2 THEN had[x] + 1 ELSE 2]
        /\ had \in [1..MaxItems -> 0..2]
        /\ UNCHANGED <<list, read, next, steady, pulled>>
        /\ steady \subseteq 1..listed /\ listed \in 0..MaxItems
    BY <1>0, <1>4, YieldFacts DEF ListingTypeOK, Yield, endpoint
  <2> HIDE DEF x
  <2>2. steady \subseteq 1..MaxItems
    BY <2>1, ListingAssumption
  <2>3. \A y \in 1..MaxItems : had[y] > 0 \/ y = x => had'[y] > 0
    BY <2>1
  <2> QED
    BY <1>0, <2>1, <2>2, <2>3 DEF SteadyInv, Ahead
<1>5. ASSUME NEW i \in 1..Len(list) + 1, Insert(i)
      PROVE  SteadyInv'
  <2>1. Ahead \subseteq Ahead' /\ UNCHANGED <<walking, read, steady, pulled>>
    BY <1>5, AheadInserted, InsertFacts
  <2> QED
    BY <1>0, <2>1 DEF walking, SteadyInv, ToSet
<1>6. ASSUME NEW i \in 1..Len(list), Take(i)
      PROVE  SteadyInv'
  <2>1. /\ i > read => Ahead \ {list[i]} \subseteq Ahead'
        /\ (pulled' <=> pulled \/ i <= read) /\ steady' = steady \ {list[i]}
        /\ UNCHANGED <<walking, read>> /\ read \in Nat
    BY <1>6, AheadTaken, TakeFacts
  <2> QED
    BY <1>0, <2>1 DEF walking, SteadyInv, ToSet
<1> QED
  BY <1>1, <1>2, <1>3, <1>4, <1>5, <1>6 DEF ListingNext, Walk

(* Every step keeps the whole invariant. *)
LEMMA PassStep == PassInv /\ [ListingNext]_listingVars => PassInv'
<1> SUFFICES ASSUME PassInv, [ListingNext]_listingVars PROVE PassInv'
  OBVIOUS
<1>1. ListingTypeOK' /\ PageInv' /\ OnceInv' /\ SteadyInv'
  BY ListingTypeStep, PageStep, OnceStep, SteadyStep
<1>2. EveryItemOnce'
  BY <1>1 DEF EveryItemOnce, PageInv, OnceInv, SteadyInv, ToSet
<1> QED
  BY <1>1, <1>2 DEF PassInv

(* It holds of a pass that has not begun. *)
LEMMA PassStart == ListingInit => PassInv
<1> SUFFICES ASSUME ListingInit PROVE PassInv
  OBVIOUS
<1> USE ListingAssumption DEF ListingInit
<1>1. listed \in Nat /\ list = [i \in 1..listed |-> i] /\ list \in [1..listed -> 1..listed]
  OBVIOUS
<1>2. ListingTypeOK
  <2>1. list \in Seq(1..listed) /\ DOMAIN list = 1..listed
    BY <1>1, SeqDef
  <2>2. batch = <<>> /\ batch \in Seq(1..listed) /\ DOMAIN batch = {}
    OBVIOUS
  <2>3. \A i, j \in DOMAIN list : list[i] = list[j] => i = j
    BY <1>1, <2>1
  <2>4. \A i, j \in DOMAIN batch : batch[i] = batch[j] => i = j
    BY <2>2
  <2>5. /\ had \in [1..MaxItems -> 0..2] /\ steady \subseteq 1..listed
        /\ listed \in 0..MaxItems /\ changes \in Nat /\ read \in Nat /\ next \in Nat
        /\ query \in FirstPages \cup {Default} /\ walk = "fetch"
    BY DEF Default
  <2>6. pulled \in BOOLEAN /\ pushed \in BOOLEAN
    OBVIOUS
  <2> QED
    BY <2>1, <2>2, <2>3, <2>4, <2>5, <2>6 DEF ListingTypeOK
<1>3. PageInv /\ SteadyInv /\ EveryItemOnce
  BY DEF PageInv, SteadyInv, EveryItemOnce, NoLink
<1>4. OnceInv
  <2>1. Ahead \subseteq 1..MaxItems
    BY <1>1 DEF Ahead
  <2> QED
    BY <2>1 DEF OnceInv, ToSet
<1> QED
  BY <1>2, <1>3, <1>4 DEF PassInv

(* For any list, pages of any size and any changes of the list while it    *)
(* is read: a pass that ends has had what was there all the while, unless  *)
(* somebody took an item from the pages read, and had nothing twice,       *)
(* unless somebody put one into them (list.go ListAll).                    *)
THEOREM ItemsHold == ListingSpec => []EveryItemOnce
<1>1. PassInv => EveryItemOnce
  BY DEF PassInv
<1> QED
  BY <1>1, PassStart, PassStep, PTL DEF ListingSpec

-----------------------------------------------------------------------------
(* McpServer: no tool call gets past the guards it should have met, and    *)
(* none repeats the effect of a key.                                       *)

\* A call of no tool in particular is one.
LEMMA NoArgumentsType == NoArguments \in Arguments
  BY McpAssumption DEF NoArguments, Arguments, Tools, Anything

\* Every step keeps the types, and the place of each call beside the once.
LEMMA McpTypeStep == McpTypeOK /\ [McpNext]_mcpVars => McpTypeOK'
<1> SUFFICES ASSUME McpTypeOK, [McpNext]_mcpVars PROVE McpTypeOK'
  OBVIOUS
<1> USE McpAssumption DEF McpTypeOK
<1>1. CASE UNCHANGED mcpVars
  BY <1>1 DEF mcpVars, serving
<1>2. ASSUME NEW c \in Calls, Receive(c) PROVE McpTypeOK'
  <2>1. PICK a \in Arguments : args' = [args EXCEPT ![c] = a]
    BY <1>2 DEF Receive
  <2>2. /\ at[c] = "idle" /\ at' = [at EXCEPT ![c] = "guard"]
        /\ UNCHANGED <<readOnly, once, client, answer, sent, seen>>
    BY <1>2 DEF Receive, serving
  <2>3. args' \in [Calls -> Arguments]
    BY <2>1
  <2> QED
    BY <2>2, <2>3
<1>3. ASSUME NEW c \in Calls, CheckCall(c) PROVE McpTypeOK'
  BY <1>3 DEF CheckCall, Answers, serving
<1>4. ASSUME NEW c \in Calls, EnterOnce(c) PROVE McpTypeOK'
  BY <1>4 DEF EnterOnce
<1>5. ASSUME NEW c \in Calls, BuildClient(c) PROVE McpTypeOK'
  BY <1>5 DEF BuildClient
<1>6. ASSUME NEW c \in Calls, TakeClient(c) PROVE McpTypeOK'
  BY <1>6 DEF TakeClient, Answers, serving
<1>7. ASSUME NEW c \in Calls, Send(c) PROVE McpTypeOK'
  <2>1. args[c].op \in Operations
    BY DEF Arguments
  <2>2. sent' \subseteq Calls /\ \A e \in seen' : e.op \in Operations /\ e.by \in sent'
    <3> DEFINE new == [op |-> args[c].op, key |-> KeyOf(args[c]), by |-> c]
    <3>1. new.op \in Operations /\ new.by = c
      BY <2>1
    <3> HIDE DEF new
    <3>2. \/ sent' = sent \cup {c} /\ seen' \in {seen, seen \cup {new}}
          \/ sent' = sent /\ seen' = seen
      BY <1>7 DEF Send, new
    <3> QED
      BY <3>1, <3>2
  <2>3. at' \in [Calls -> {"idle", "guard", "api", "build", "send", "answered"}]
        /\ answer' \in [Calls -> {"none", "refused", "no client", "lost", "ok"}]
    BY <1>7 DEF Send, Answers
  <2>4. \A d \in Calls : /\ at'[d] = "build" <=> once' = d
                         /\ at'[d] = "send" => client' = "ok"
    <3>1. /\ at[c] = "send" /\ at' = [at EXCEPT ![c] = "answered"]
          /\ UNCHANGED <<once, client>>
      BY <1>7 DEF Send, Answers, serving
    <3> QED
      BY <3>1
  <2> QED
    BY <1>7, <2>2, <2>3, <2>4 DEF Send, serving
<1> QED
  BY <1>1, <1>2, <1>3, <1>4, <1>5, <1>6, <1>7 DEF McpNext, Handle

(* Every call keeps to its type, and one call at a time makes the client   *)
(* (server.go api).                                                        *)
THEOREM McpTypeCorrect == McpSpec => []McpTypeOK
<1>1. McpInit => McpTypeOK
  BY McpAssumption, NoArgumentsType DEF McpInit, McpTypeOK
<1> QED
  BY <1>1, McpTypeStep, PTL DEF McpSpec

\* Served, Confirmed and Allowed speak of readOnly and the arguments alone.
LEMMA PassedStays ==
  ASSUME NEW c \in Calls, readOnly' = readOnly, args'[c] = args[c]
  PROVE  /\ Served(args[c]) => Served(args[c])'
         /\ Passed(args[c]) => Passed(args[c])'
  BY DEF Served, Passed, Confirmed, Allowed

\* A call past the guards has shown them what they ask for.
LEMMA GuardStep == McpTypeOK /\ GuardInv /\ [McpNext]_mcpVars => GuardInv'
<1> SUFFICES ASSUME McpTypeOK, GuardInv, [McpNext]_mcpVars, NEW d \in Calls
             PROVE  /\ at'[d] = "guard" => Served(args[d])'
                    /\ at'[d] \in {"api", "build", "send"} => Passed(args[d])'
                    /\ d \in sent' => at'[d] = "answered" /\ Passed(args[d])'
  BY DEF GuardInv
<1> USE DEF McpTypeOK, GuardInv
<1>1. CASE UNCHANGED mcpVars
  BY <1>1, PassedStays DEF mcpVars, serving
<1>2. ASSUME NEW c \in Calls, Receive(c)
      PROVE  /\ at'[d] = "guard" => Served(args[d])'
             /\ at'[d] \in {"api", "build", "send"} => Passed(args[d])'
             /\ d \in sent' => at'[d] = "answered" /\ Passed(args[d])'
  <2>1. PICK a \in Arguments : Served(a) /\ args' = [args EXCEPT ![c] = a]
    BY <1>2 DEF Receive
  <2>2. CASE d = c
    <3>1. Served(a)'
      BY <1>2, <2>1 DEF Receive, serving, Served
    <3>2. args'[c] = a /\ at'[c] = "guard" /\ c \notin sent'
      BY <1>2, <2>1 DEF Receive
    <3> QED
      BY <2>2, <3>1, <3>2 DEF Served
  <2>3. CASE d # c
    BY <1>2, <2>1, <2>3, PassedStays DEF Receive, serving
  <2> QED
    BY <2>2, <2>3
<1>3. ASSUME NEW c \in Calls, CheckCall(c)
      PROVE  /\ at'[d] = "guard" => Served(args[d])'
             /\ at'[d] \in {"api", "build", "send"} => Passed(args[d])'
             /\ d \in sent' => at'[d] = "answered" /\ Passed(args[d])'
  <2>1. Confirmed(args[c]) /\ Allowed(args[c]) => Passed(args[c])
    BY <1>3 DEF CheckCall, Passed
  <2>2. c \notin sent
    BY <1>3 DEF CheckCall
  <2> QED
    BY <1>3, <2>1, <2>2, PassedStays DEF CheckCall, Answers, serving
<1>4. ASSUME NEW c \in Calls, EnterOnce(c) \/ BuildClient(c) \/ TakeClient(c)
      PROVE  /\ at'[d] = "guard" => Served(args[d])'
             /\ at'[d] \in {"api", "build", "send"} => Passed(args[d])'
             /\ d \in sent' => at'[d] = "answered" /\ Passed(args[d])'
  BY <1>4, PassedStays DEF EnterOnce, BuildClient, TakeClient, Answers, serving
<1>5. ASSUME NEW c \in Calls, Send(c)
      PROVE  /\ at'[d] = "guard" => Served(args[d])'
             /\ at'[d] \in {"api", "build", "send"} => Passed(args[d])'
             /\ d \in sent' => at'[d] = "answered" /\ Passed(args[d])'
  <2>1. /\ at[c] = "send" /\ at' = [at EXCEPT ![c] = "answered"]
        /\ sent' \in {sent, sent \cup {c}}
        /\ readOnly' = readOnly /\ args' = args
    BY <1>5 DEF Send, Answers, serving
  <2> QED
    BY <2>1, PassedStays
<1> QED
  BY <1>1, <1>2, <1>3, <1>4, <1>5 DEF McpNext, Handle

LEMMA GuardCorrect == McpSpec => [](McpTypeOK /\ GuardInv)
<1>1. McpInit => GuardInv
  BY DEF McpInit, GuardInv
<1> QED
  BY <1>1, McpTypeCorrect, GuardStep, PTL DEF McpSpec

(* Whichever tool it comes through, nothing is sent that --read-only       *)
(* forbids, and nothing that cannot be undone without its own phrase       *)
(* (server.go callCurated and callAPI, tools.go Tools).                    *)
THEOREM GuardsHold == McpSpec => []ToolsGuarded
<1>1. McpTypeOK /\ GuardInv => ToolsGuarded
  <2> SUFFICES ASSUME McpTypeOK, GuardInv PROVE ToolsGuarded
    OBVIOUS
  <2>1. ASSUME NEW c \in sent
        PROVE  /\ readOnly => args[c].op \in Safe
               /\ args[c].op \in Destructive =>
                    args[c].phrase = <<args[c].op, args[c].object>>
    <3>1. c \in Calls /\ args[c] \in Arguments /\ Passed(args[c])
      BY DEF McpTypeOK, GuardInv
    <3>2. args[c].tool \in Tools /\ (args[c].tool = "flow" => args[c].op = Flow)
      BY <3>1 DEF Arguments
    <3>3. readOnly => args[c].op \in Safe
      BY <3>1, <3>2 DEF Passed, Served, Allowed, Tools
    <3>4. Flow \notin Destructive
      BY McpAssumption
    <3> QED
      BY <3>1, <3>2, <3>3, <3>4 DEF Passed, Confirmed
  <2> QED
    BY <2>1 DEF ToolsGuarded, ReadOnlySends, ConfirmedFirst
<1> QED
  BY <1>1, GuardCorrect, PTL

\* The platform has one effect for a key, and it is what a call asked for.
LEMMA KeyStep ==
  McpTypeOK /\ GuardInv /\ KeyInv /\ [McpNext]_mcpVars => KeyInv'
<1> SUFFICES ASSUME McpTypeOK, GuardInv, KeyInv, [McpNext]_mcpVars
             PROVE  KeyInv'
  OBVIOUS
<1>1. \A e \in seen : e.by \in sent /\ e.by \in Calls /\ at[e.by] = "answered"
  BY DEF McpTypeOK, GuardInv
<1>2. CASE UNCHANGED <<args, seen>>
  BY <1>2 DEF KeyInv, KeyOf
<1>3. ASSUME NEW c \in Calls, Receive(c) PROVE KeyInv'
  <2>1. seen' = seen /\ \A e \in seen : args'[e.by] = args[e.by]
    BY <1>1, <1>3 DEF Receive, McpTypeOK
  <2> QED
    BY <2>1 DEF KeyInv, KeyOf
<1>4. ASSUME NEW c \in Calls, Send(c) PROVE KeyInv'
  <2> DEFINE key == KeyOf(args[c])
             new == [op |-> args[c].op, key |-> key, by |-> c]
             known == key # None /\ \E e \in seen : e.op = args[c].op /\ e.key = key
  <2>1. args' = args /\ (seen' = seen \/ (~known /\ seen' = seen \cup {new}))
    BY <1>4 DEF Send
  <2>2. CASE seen' = seen
    BY <2>1, <2>2 DEF KeyInv, KeyOf
  <2>3. CASE ~known /\ seen' = seen \cup {new}
    <3>1. new.op = args[c].op /\ new.key = key /\ new.by = c
      OBVIOUS
    <3>2. \A e \in seen : e.op = new.op /\ e.key = new.key => new.key = None
      BY <2>3, <3>1
    <3> HIDE DEF new, known
    <3>3. \A e, f \in seen' : e.op = f.op /\ e.key = f.key /\ e.key # None => e = f
      BY <2>3, <3>2 DEF KeyInv
    <3>4. new = [op |-> args[new.by].op, key |-> KeyOf(args[new.by]), by |-> new.by]
      BY <3>1 DEF new
    <3>5. \A e \in seen' : e = [op |-> args[e.by].op, key |-> KeyOf(args[e.by]),
                                by |-> e.by]
      BY <2>3, <3>4 DEF KeyInv
    <3> QED
      BY <2>1, <3>3, <3>5 DEF KeyInv, KeyOf
  <2> QED
    BY <2>1, <2>2, <2>3
<1> QED
  BY <1>2, <1>3, <1>4
     DEF McpNext, Handle, mcpVars, CheckCall, EnterOnce, BuildClient, TakeClient

(* Of the calls of a curated tool that give one key for one operation, the *)
(* platform executes one (server.go buildRequest).                         *)
THEOREM KeysSpendOnce == McpSpec => []KeyedOnce
<1>1. McpInit => KeyInv
  BY DEF McpInit, KeyInv
<1>2. KeyInv => KeyedOnce
  BY DEF KeyInv, KeyedOnce, KeyOf
<1> QED
  BY <1>1, <1>2, GuardCorrect, KeyStep, PTL DEF McpSpec

-----------------------------------------------------------------------------
(* The parts together.                                                     *)

(* Every step of the whole is one of each part, or leaves it as it is.     *)
LEMMA WorkIsAll ==
  WorkSpec => /\ Spec /\ TailSpec /\ McpSpec
              /\ ListingInit /\ [][ListingNext]_listingVars
              /\ TasksInit /\ [][TasksNext]_tasksVars
<1>1. WorkInit => Init /\ TailInit /\ ListingInit /\ TasksInit /\ McpInit
  BY DEF WorkInit
<1>2. [WorkNext]_everything =>
        /\ [Next]_vars /\ [TailNext]_tailVars /\ [ListingNext]_listingVars
        /\ [TasksNext]_tasksVars /\ [McpNext]_mcpVars
  BY DEF WorkNext, everything
<1> QED
  BY <1>1, <1>2, PTL DEF WorkSpec, Spec, TailSpec, McpSpec

(* Every variable of the parts keeps its type (import.go, events.go,       *)
(* task.go, server.go).                                                    *)
THEOREM WorkTypeCorrect == WorkSpec => []WorkTypeOK
<1>1. TypeOK /\ TailTypeOK /\ McpTypeOK /\ WaitInv => WorkTypeOK
  BY DEF WorkTypeOK, WaitInv
<1> QED
  BY <1>1, WorkIsAll, ImportTypeCorrect, TailTypeCorrect, McpTypeCorrect,
     WaitStart, WaitStep, PTL

(* What holds of each part holds of the whole: reports, guards, cursors,   *)
(* passes and waits keep their word, whichever part is in play.            *)
THEOREM WorkHolds ==
  WorkSpec => /\ []WritesWhenAsked /\ WrittenIsTrue /\ []OwnMappingValidated
              /\ []NothingSkipped /\ []NoNeedlessRepeat /\ []EveryItemOnce
              /\ []DownloadsKeepWord /\ RestedWhenTold /\ []ToolsGuarded /\ []KeyedOnce
<1>1. PassInv => EveryItemOnce
  BY DEF PassInv
<1>2. WaitInv => DownloadsKeepWord
  BY DEF WaitInv
<1>3. WorkSpec => RestedWhenTold
  BY WorkIsAll, RestStep, WaitStart, WaitStep, PTL DEF RestedWhenTold
<1> QED
  BY <1>1, <1>2, <1>3, WorkIsAll, AskedFirst, ReportedTruly, OwnMappingChecked,
     CursorNeverAhead, PrintedOnce, PassStart, PassStep, WaitStart, WaitStep,
     GuardsHold, KeysSpendOnce, PTL

=============================================================================
