----------------------------- MODULE EventTail -----------------------------
(***************************************************************************)
(* `transpareo events tail` (internal/cli/composite.go eventsTail and      *)
(* internal/flows/events.go Follow): reading the workspace's event feed by *)
(* cursor, over several runs of which each starts where the one before it  *)
(* said the next could.                                                    *)
(*                                                                         *)
(* An event is its place in the feed, and so is the cursor behind it.      *)
(***************************************************************************)
EXTENDS Naturals

CONSTANTS
  Limit,      \* FeedOptions.Limit
  MaxEvents,  \* bound: events the workspace ever records
  MaxKills,   \* bound: runs that end without a word
  Modes       \* how runs tail: "read" with --follow, "once" without

ASSUME EventTailAssumption ==
  /\ Limit \in Nat \ {0} /\ MaxEvents \in Nat /\ MaxKills \in Nat
  /\ Modes \subseteq {"read", "once"}

VARIABLES
  feed,     \* events recorded so far, as the feed answers them
  kept,     \* the cursor the reader keeps from the last run that told one
  tailPc,   \* where the run is
  since,    \* opts.Since
  cursor,   \* the closure's cursor, told when the stream stops
  page,     \* the page in hand: the next event to print and the last one
  printed,  \* how often each event was printed, by all runs
  lost,     \* events that a page held when its output failed (a full disk)
  kills     \* runs that ended without a word

run == <<tailPc, since, cursor, page>>
tailVars == <<feed, kept, run, printed, lost, kills>>

-----------------------------------------------------------------------------
Events == 1..MaxEvents
Cursors == 0..MaxEvents

\* printed counts no further: enough to tell a repetition from a restart's.
MaxPrints == MaxKills + 2

TailInit ==
  /\ feed = 0
  /\ kept = 0
  /\ tailPc = "idle"
  /\ since = 0
  /\ cursor = 0
  /\ page = [next |-> 1, last |-> 0]
  /\ printed = [e \in Events |-> 0]
  /\ lost = {}
  /\ kills = 0

Record ==
  /\ feed < MaxEvents
  /\ feed' = feed + 1
  /\ UNCHANGED <<kept, run, printed, lost, kills>>

\* A run starts from the cursor kept, with --follow or for one page.
Start ==
  /\ tailPc = "idle"
  /\ tailPc' \in Modes
  /\ since' = kept
  /\ cursor' = kept
  /\ UNCHANGED <<feed, kept, page, printed, lost, kills>>

\* The page after a cursor; its nextCursor is its last event, or the cursor
\* unchanged when nothing came.
PageAfter(c) ==
  [next |-> c + 1, last |-> IF feed < c + Limit THEN feed ELSE c + Limit]

Printed(events) ==
  printed' = [e \in Events |->
    IF e \in events /\ printed[e] < MaxPrints THEN printed[e] + 1 ELSE printed[e]]

\* eventsTail without --follow: the cursor is told, then the page printed.
\* The JSON shape holds both and is told as a whole.
TailOnce ==
  /\ tailPc = "once"
  /\ tailPc' = "idle"
  /\ \/ /\ kept' = PageAfter(kept).last
        /\ Printed(kept + 1 .. PageAfter(kept).last)
        /\ UNCHANGED lost
     \/ /\ kept' \in {kept, PageAfter(kept).last}
        /\ lost' = lost \cup (kept + 1 .. PageAfter(kept).last)
        /\ UNCHANGED printed
     \/ UNCHANGED <<kept, printed, lost>>   \* the feed was not to be read
  /\ UNCHANGED <<feed, since, cursor, page, kills>>

\* Mutant of Read: the page starts behind the first new event.
ReadBehind ==
  /\ tailPc = "read"
  /\ page' = [PageAfter(since) EXCEPT !.next = since + 2]
  /\ cursor' = page'.last
  /\ tailPc' = "print"
  /\ UNCHANGED <<feed, kept, since, printed, lost, kills>>

\* Follow reads a page, and the closure takes its cursor before it prints.
Read ==
  /\ tailPc = "read"
  /\ page' = PageAfter(since)
  /\ cursor' = page'.last
  /\ tailPc' = "print"
  /\ UNCHANGED <<feed, kept, since, printed, lost, kills>>

PrintEvent ==
  /\ tailPc = "print" /\ page.next <= page.last
  /\ Printed({page.next})
  /\ page' = [page EXCEPT !.next = @ + 1]
  /\ UNCHANGED <<feed, kept, tailPc, since, cursor, lost, kills>>

\* Mutant of PageDone: the next page is asked for with the old cursor.
PageDoneStaying ==
  /\ tailPc = "print" /\ page.next > page.last
  /\ tailPc' = "read"
  /\ UNCHANGED <<feed, kept, since, cursor, page, printed, lost, kills>>

\* The page is printed: Follow moves on to its cursor and waits.
PageDone ==
  /\ tailPc = "print" /\ page.next > page.last
  /\ since' = page.last
  /\ tailPc' = "read"
  /\ UNCHANGED <<feed, kept, cursor, page, printed, lost, kills>>

\* Follow returns (the context ended in a read or in the wait, or a read
\* failed) and eventsTail tells the cursor.
Stop ==
  /\ tailPc = "read"
  /\ kept' = cursor
  /\ tailPc' = "idle"
  /\ UNCHANGED <<feed, since, cursor, page, printed, lost, kills>>

\* An event cannot be printed: Follow returns, and the cursor told is that of
\* the page in hand.
PrintFails ==
  /\ tailPc = "print" /\ page.next <= page.last
  /\ lost' = lost \cup (page.next .. page.last)
  /\ kept' = cursor
  /\ tailPc' = "idle"
  /\ UNCHANGED <<feed, since, cursor, page, printed, kills>>

\* The process is killed, or standard error is gone.
Kill ==
  /\ tailPc # "idle" /\ kills < MaxKills
  /\ kills' = kills + 1
  /\ tailPc' = "idle"
  /\ UNCHANGED <<feed, kept, since, cursor, page, printed, lost>>

Follow == Read \/ PrintEvent \/ PageDone

TailNext == Record \/ Start \/ TailOnce \/ Follow \/ Stop \/ PrintFails \/ Kill

TailSpec == TailInit /\ [][TailNext]_tailVars

\* Follow is a sequential loop whose reads and waits end.
TailFairSpec == TailSpec /\ WF_tailVars(Follow)

-----------------------------------------------------------------------------
TailTypeOK ==
  /\ feed \in Cursors
  /\ kept \in Cursors
  /\ tailPc \in {"idle", "read", "once", "print"}
  /\ since \in Cursors
  /\ cursor \in Cursors
  /\ page \in [next : Events \cup {MaxEvents + 1}, last : Cursors]
  /\ printed \in [Events -> 0..MaxPrints]
  /\ lost \subseteq Events
  /\ kills \in 0..MaxKills

(* "The cursor of the last event printed goes to standard error when the   *)
(* stream stops, so the next run can continue from it": the cursor kept is *)
(* never ahead of the output of any run, but for what was left of a page   *)
(* whose output failed (composite.go eventsTail).                          *)
NothingSkipped == \A e \in Events : e <= kept => printed[e] > 0 \/ e \in lost

(* Runs that end in an orderly way repeat no event for one another, and a  *)
(* run repeats none itself: only a killed run's events come again, once    *)
(* per kill (composite.go eventsTail, events.go Follow).                   *)
NoNeedlessRepeat == \A e \in Events : printed[e] <= 1 + kills

(* A run that follows prints every event recorded behind its cursor, or    *)
(* ends (events.go Follow).                                                *)
EventsArrive ==
  \A e \in Events :
    tailPc = "read" /\ e \in since + 1 .. feed ~> printed[e] > 0 \/ tailPc = "idle"

-----------------------------------------------------------------------------
(* The inductive invariants behind the theorems of WorkProofs: a run       *)
(* never holds a cursor that is ahead of its output, except for the page   *)
(* it is printing.                                                         *)
Seen(e) == printed[e] > 0 \/ e \in lost

CursorInv ==
  /\ NothingSkipped
  /\ tailPc \in {"read", "print"} => \A e \in Events : e <= since => Seen(e)
  /\ tailPc = "read" => cursor = since
  /\ tailPc = "print" => /\ cursor = page.last
                         /\ \A e \in Events : e < page.next => Seen(e)

\* What a run has still to print, no run printed but for one killed since.
Fresh(e) == printed[e] <= kills

RepeatInv ==
  /\ NoNeedlessRepeat
  /\ kept <= feed
  /\ tailPc \in {"idle", "once"} => \A e \in Events : e > kept => Fresh(e)
  /\ tailPc = "read" => /\ cursor = since /\ since <= feed
                        /\ \A e \in Events : e > since => Fresh(e)
  /\ tailPc = "print" => /\ cursor = page.last /\ page.last <= feed
                         /\ page.next <= page.last + 1
                         /\ \A e \in Events : e >= page.next => Fresh(e)

=============================================================================
