------------------------------ MODULE Listing ------------------------------
(***************************************************************************)
(* ListAll (pkg/transpareo/list.go): one pass over a list endpoint, from   *)
(* page to page along the Link header, while others add to the list and    *)
(* take from it.                                                           *)
(*                                                                         *)
(* The endpoint is external: it cuts the list as it is at each request     *)
(* into pages and names a next page while there is one.  A URL stands for  *)
(* the number of the page it asks for.                                     *)
(***************************************************************************)
EXTENDS Naturals, SequencesExt

CONSTANTS
  PerPage,     \* items of a page
  FirstPages,  \* page numbers a caller may begin with
  MaxItems,    \* bound on the items there ever are
  MaxChanges   \* bound on the changes of the list

ASSUME ListingAssumption ==
  /\ PerPage \in Nat \ {0} /\ FirstPages \subseteq Nat \ {0}
  /\ MaxItems \in Nat /\ MaxChanges \in Nat

Default == 0   \* a query without a page
NoLink == 0      \* no next URL

VARIABLES
  list,     \* the items of the endpoint, in its order
  listed,   \* how many items there have ever been, which are their names
  changes,  \* how often it changed
  query,    \* the page the caller's query asks for
  next,     \* the page the URL asks for, or none
  batch,    \* the items of a page the caller has not had
  had,      \* how often it has had each, up to twice
  walk,     \* "fetch", "yield", "done", "stopped" or "failed"
  read,     \* how far into the list the pages went
  steady,   \* items there since the first page, on it or behind it
  pulled,   \* whether an item was taken from what had been read
  pushed    \* whether one was put into it

endpoint == <<list, listed, changes>>
walking == <<query, next, batch, had, walk>>
listingVars == <<endpoint, walking, read, steady, pulled, pushed>>

ListingInit ==
  /\ listed \in 0..MaxItems
  /\ list = [i \in 1..listed |-> i]
  /\ changes = 0
  /\ query \in FirstPages \cup {Default}
  /\ next = 1 /\ batch = <<>> /\ walk = "fetch"
  /\ had = [i \in 1..MaxItems |-> 0]
  /\ read = 0 /\ steady = {} /\ pulled = FALSE /\ pushed = FALSE

-----------------------------------------------------------------------------
(* The endpoint. *)

\* The list between the n-th item and the m-th, or its end.
Cut(n, m) == SubSeq(list, n + 1, Min({m, Len(list)}))

PageOf(page) == Cut(PerPage * (page - 1), PerPage * page)

Link(page) == IF PerPage * page < Len(list) THEN page + 1 ELSE NoLink

Insert(i) ==
  /\ listed < MaxItems /\ changes < MaxChanges
  /\ list' = InsertAt(list, i, listed + 1)
  /\ listed' = listed + 1 /\ changes' = changes + 1
  /\ pushed' = (pushed \/ i <= read)
  /\ UNCHANGED <<walking, read, steady, pulled>>

Take(i) ==
  /\ changes < MaxChanges
  /\ list' = RemoveAt(list, i)
  /\ changes' = changes + 1
  /\ steady' = steady \ {list[i]}
  /\ pulled' = (pulled \/ i <= read)
  /\ UNCHANGED <<listed, walking, read, pushed>>

-----------------------------------------------------------------------------
\* What Client.resolve makes of a URL and a query: the query's page counts.
Asked == IF query # Default THEN query ELSE next

Fetched(page, queryAfter) ==
  /\ walk = "fetch"
  /\ batch' = PageOf(page)
  /\ next' = Link(page)
  /\ query' = queryAfter
  /\ walk' = "yield"
  /\ read' = PerPage * page
  /\ steady' = IF read = 0 THEN ToSet(Cut(PerPage * (page - 1), Len(list))) ELSE steady
  /\ UNCHANGED <<endpoint, had, pulled, pushed>>

\* Mutant of FetchPage: the caller's query goes with every URL.
FetchPageQuerying == Fetched(Asked, query)

\* List: the query goes with the first URL only.
FetchPage == Fetched(Asked, Default)

FetchFails ==
  /\ walk = "fetch"
  /\ walk' = "failed"
  /\ UNCHANGED <<endpoint, query, next, batch, had, read, steady, pulled, pushed>>

\* The caller takes an item, and goes on or leaves the loop.
Yield ==
  /\ walk = "yield" /\ batch # <<>>
  /\ had' = [had EXCEPT ![Head(batch)] = Min({@ + 1, 2})]
  /\ batch' = Tail(batch)
  /\ walk' \in {"yield", "stopped"}
  /\ UNCHANGED <<endpoint, query, next, read, steady, pulled, pushed>>

PageEnds ==
  /\ walk = "yield" /\ batch = <<>>
  /\ walk' = IF next = NoLink THEN "done" ELSE "fetch"
  /\ UNCHANGED <<endpoint, query, next, batch, had, read, steady, pulled, pushed>>

Walk == FetchPage \/ FetchFails \/ Yield \/ PageEnds

ListingNext ==
  \/ Walk
  \/ \E i \in 1..Len(list) + 1 : Insert(i)
  \/ \E i \in 1..Len(list) : Take(i)

ListingSpec == ListingInit /\ [][ListingNext]_listingVars /\ WF_listingVars(Walk)

-----------------------------------------------------------------------------
(* A pass that comes to its end has had every item that was there all the  *)
(* while, unless others took one from the pages it had read, and none      *)
(* twice, unless they put one there (list.go ListAll, "iterates over every *)
(* item of a list endpoint").                                              *)
EveryItemOnce ==
  /\ walk = "done" /\ ~pulled => \A i \in steady : had[i] > 0
  /\ ~pushed => \A i \in 1..MaxItems : had[i] < 2

(* A pass that has begun ends, as the list does not change for ever        *)
(* (list.go ListAll).                                                      *)
PassEnds == read > 0 ~> walk \in {"done", "stopped", "failed"}

-----------------------------------------------------------------------------
(* The inductive invariant behind the theorem of WorkProofs. *)

\* The list names each item once, the batch holds items there were, each once.
ListingTypeOK ==
  /\ listed \in 0..MaxItems
  /\ list \in Seq(1..listed) /\ batch \in Seq(1..listed)
  /\ \A i, j \in DOMAIN list : list[i] = list[j] => i = j
  /\ \A i, j \in DOMAIN batch : batch[i] = batch[j] => i = j
  /\ changes \in Nat /\ read \in Nat
  /\ query \in FirstPages \cup {Default} /\ next \in Nat
  /\ walk \in {"fetch", "yield", "done", "stopped", "failed"}
  /\ had \in [1..MaxItems -> 0..2]
  /\ steady \subseteq 1..listed
  /\ pulled \in BOOLEAN /\ pushed \in BOOLEAN

\* The next page begins where the pages read so far end.
PageInv ==
  /\ read = 0 => walk \in {"fetch", "failed"} /\ batch = <<>> /\ next = 1
  /\ read > 0 => query = Default
  /\ read > 0 /\ next # NoLink => read = PerPage * (next - 1)
  /\ walk = "fetch" => next # NoLink /\ batch = <<>>
  /\ walk = "done" => read > 0 /\ next = NoLink /\ batch = <<>>

\* What lies behind the pages read.
Ahead == {list[i] : i \in {j \in DOMAIN list : j > read}}

\* Unless items were put into what was read, none ahead or in the batch was had.
OnceInv ==
  /\ \A x \in 1..MaxItems : x > listed => had[x] = 0
  /\ ~pushed =>
       /\ \A x \in 1..MaxItems : had[x] < 2
       /\ \A x \in Ahead \cup ToSet(batch) : had[x] = 0
       /\ Ahead \cap ToSet(batch) = {}

\* Unless items were taken from what was read, a steady one was had or is to come.
SteadyInv ==
  read > 0 /\ ~pulled =>
    \A x \in steady : had[x] > 0 \/ x \in ToSet(batch) \/ (x \in Ahead /\ next # NoLink)

PassInv == ListingTypeOK /\ PageInv /\ OnceInv /\ SteadyInv /\ EveryItemOnce

=============================================================================
