------------------------------- MODULE MCWork -------------------------------
(***************************************************************************)
(* Instances for TLC of the modules on work that runs on: an import, the   *)
(* event feed, a pass over a list, the tasks of the platform, and the tool *)
(* calls of an assistant.  They share no state, so a behaviour is of one   *)
(* of them, chosen at the start, and the others stay as they begin.        *)
(***************************************************************************)
EXTENDS ImportRun, EventTail, Listing, Tasks, McpServer

CONSTANTS m1, m2, w1, w2, b1, i1, e1, t1, t2, o1, o2, k1
CONSTANTS
  exchange_token, list_dpps, create_dpp, delete_brand, create_export

VARIABLE part

everything == <<part, vars, tailVars, listingVars, tasksVars, mcpVars>>

\* The two waiters are interchangeable: the first has the kind that comes first.
KindsInOrder ==
  LET order == <<"wait", "tool", "export", "download">>
  IN \E i \in 1..4 : \E j \in i..4 : kind[w1] = order[i] /\ kind[w2] = order[j]

\* What a part may begin with is one thing while another part is in play.
WorkInit ==
  /\ Init /\ TailInit /\ ListingInit /\ TasksInit /\ McpInit
  /\ part \in {"import", "events", "list", "tasks", "tools"}
  /\ part # "import" =>
       opts = [execute |-> FALSE, auto |-> FALSE, readOnly |-> FALSE]
  /\ part # "list" => listed = 0 /\ query = Default
  /\ IF part = "tasks" THEN KindsInOrder ELSE kind = [w \in Waiters |-> "wait"]
  /\ part # "tools" => ~readOnly

WorkNext ==
  /\ UNCHANGED part
  /\ \/ /\ part = "import" /\ Next
        /\ UNCHANGED <<tailVars, listingVars, tasksVars, mcpVars>>
     \/ /\ part = "events" /\ TailNext
        /\ UNCHANGED <<vars, listingVars, tasksVars, mcpVars>>
     \/ /\ part = "list" /\ ListingNext
        /\ UNCHANGED <<vars, tailVars, tasksVars, mcpVars>>
     \/ /\ part = "tasks" /\ TasksNext
        /\ UNCHANGED <<vars, tailVars, listingVars, mcpVars>>
     \/ /\ part = "tools" /\ McpNext
        /\ UNCHANGED <<vars, tailVars, listingVars, tasksVars>>

\* The part in play has the fairness its module states.
WorkFairness ==
  /\ WF_vars(part = "import" /\ RunStep) /\ WF_vars(part = "import" /\ TaskEnds)
  /\ WF_tailVars(part = "events" /\ Follow)
  /\ WF_listingVars(part = "list" /\ Walk)
  /\ \A w \in Waiters : /\ WF_tasksVars(part = "tasks" /\ Step(w))
                        /\ WF_tasksVars(part = "tasks" /\ Expire(w))
  /\ \A t \in Work \ Endless : WF_tasksVars(part = "tasks" /\ Progress(t))
  /\ \A c \in Calls : WF_mcpVars(part = "tools" /\ Handle(c))

WorkSpec == WorkInit /\ [][WorkNext]_everything /\ WorkFairness

\* The types of the parts that have more than a position.
WorkTypeOK == TypeOK /\ TailTypeOK /\ TasksTypeOK /\ McpTypeOK

(* Whatever runs on comes to its end, or to the end of what there is: the  *)
(* import, the feed, the pass over a list, the wait on a task and the      *)
(* call of a tool (import.go Run, events.go Follow, list.go ListAll,       *)
(* task.go WaitForTask, server.go api).                                    *)
WorkEnds == RunEnds /\ EventsArrive /\ PassEnds /\ WaitEnds /\ CallsAnswered

=============================================================================
