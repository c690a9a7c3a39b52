--------------------------- MODULE ColumnMapping ---------------------------
(***************************************************************************)
(* flows.ResolveMappings (internal/flows/import.go): the mapping of a      *)
(* fresh import, from the mappings somebody wrote and the suggestions of   *)
(* the preview.  The written ones are a Go map, gone through in any order, *)
(* and name a column by its key or by its header.                          *)
(*                                                                         *)
(* What the platform suggests for a column is external: it suggests a new  *)
(* property type only where it matched nothing.                            *)
(***************************************************************************)
EXTENDS Naturals, FiniteSets, Sequences

CONSTANTS
  Keys,        \* keys of the columns, a sequence
  Names,       \* what headers and written mappings may say
  Targets,     \* what a written mapping may map to
  Unknown,     \* one that names a property type there is none of
  MaxWritten,  \* bound on the written mappings
  NoMapping    \* no mapping

KeySet == {Keys[i] : i \in DOMAIN Keys}

ASSUME MappingAssumption ==
  /\ Keys \in Seq(Names)
  /\ \A i, j \in DOMAIN Keys : Keys[i] = Keys[j] => i = j
  /\ Unknown \in Targets /\ NoMapping \notin Targets
  /\ {"type", "new type"} \cap (Targets \cup {NoMapping}) = {}

\* How a column was recognised, and what is suggested for it; "type" stands
\* for every suggestion that makes no new property type.
Matches == {"exact", "fuzzy", "none"}
Suggestions == {"type", "new type", NoMapping}

VARIABLES
  preview,    \* per column, in order: its header, match and suggestion
  explicit,   \* the mappings somebody wrote, by the name each gives
  accept,     \* --accept-suggestions
  exactOnly,  \* --skip-fuzzy
  todo,       \* the written mappings the loop has still to go through
  resolved,   \* the mapping of each key
  guesses,    \* the keys whose mapping nobody chose
  leftover,   \* the keys left to a person
  ended       \* "no", "error", "required" or "mapped"

input == <<preview, explicit, accept, exactOnly>>
mappingVars == <<input, todo, resolved, guesses, leftover, ended>>

Columns == [header: Names, match: Matches, suggestion: Suggestions]

MappingInit ==
  /\ preview \in [DOMAIN Keys -> Columns]
  /\ \A i \in DOMAIN Keys :
       preview[i].suggestion = "new type" => preview[i].match = "none"
  /\ \E names \in SUBSET Names :
       /\ Cardinality(names) <= MaxWritten
       /\ explicit \in [names -> Targets]
  /\ accept \in BOOLEAN /\ exactOnly \in BOOLEAN
  /\ todo = DOMAIN explicit
  /\ resolved = [k \in KeySet |-> NoMapping]
  /\ guesses = {} /\ leftover = {}
  /\ ended = "no"

-----------------------------------------------------------------------------
\* The columns a name means.
Called(n) == {i \in DOMAIN Keys : n \in {Keys[i], preview[i].header}}

\* byHeader: the last column that goes by the name, if one does.
ByHeader(n) ==
  {Keys[i] : i \in {j \in Called(n) : \A k \in Called(n) : k <= j}}

\* The loop over the written mappings: the next is any of them.
TakeWritten ==
  /\ ended = "no"
  /\ \E name \in todo :
       IF ByHeader(name) = {} \/ explicit[name] = Unknown
       THEN ended' = "error" /\ UNCHANGED <<todo, resolved>>
       ELSE /\ \E k \in ByHeader(name) :
                 resolved' = [resolved EXCEPT ![k] = explicit[name]]
            /\ todo' = todo \ {name}
            /\ UNCHANGED ended
  /\ UNCHANGED <<input, guesses, leftover>>

\* Mutant of Takeable: what was matched to nothing has a suggestion too.
TakeableAny(column) == column.match = "fuzzy" => ~exactOnly

Takeable(column) ==
  column.match = "exact" \/ (column.match = "fuzzy" /\ ~exactOnly)

\* Mutant of Taken: a suggestion takes the place of what was written.
TakenOver ==
  {i \in DOMAIN Keys :
     accept /\ preview[i].suggestion # NoMapping /\ Takeable(preview[i])}

\* The columns whose suggestion is taken.
Taken ==
  {i \in DOMAIN Keys :
     /\ resolved[Keys[i]] = NoMapping
     /\ accept /\ preview[i].suggestion # NoMapping /\ Takeable(preview[i])}

\* Mutant of LeftOver: only what nothing is suggested for is left over.
LeftOverUnsuggested ==
  {i \in DOMAIN Keys :
     resolved[Keys[i]] = NoMapping /\ preview[i].suggestion = NoMapping}

LeftOver == {i \in DOMAIN Keys \ Taken : resolved[Keys[i]] = NoMapping}

\* The loop over the columns: a suggestion taken, or a column left over.
TakeSuggestions ==
  /\ ended = "no" /\ todo = {}
  /\ resolved' = [k \in KeySet |->
       LET i == CHOOSE j \in DOMAIN Keys : Keys[j] = k
       IN IF i \in Taken THEN preview[i].suggestion ELSE resolved[k]]
  /\ guesses' = {Keys[i] : i \in {j \in Taken : preview[j].match = "fuzzy"}}
  /\ leftover' = {Keys[i] : i \in LeftOver}
  /\ ended' = IF LeftOver = {} THEN "mapped" ELSE "required"
  /\ UNCHANGED <<input, todo>>

MappingNext == TakeWritten \/ TakeSuggestions

MappingSpec == MappingInit /\ [][MappingNext]_mappingVars

-----------------------------------------------------------------------------
\* The mappings written that may be for the column of this key, and those
\* whose name no other column goes by.
Meant(k) ==
  {n \in DOMAIN explicit : \E i \in Called(n) : Keys[i] = k}

WrittenFor(k) == {n \in Meant(k) : Cardinality(Called(n)) = 1}

(* In whichever order the written mappings come, one whose name only one   *)
(* column has is that column's, and no suggestion takes its place; with    *)
(* several for a column, it is one of them (import.go ResolveMappings).    *)
WrittenWins ==
  ended \in {"mapped", "required"} =>
    \A k \in KeySet : WrittenFor(k) # {} =>
      k \notin guesses /\ \E name \in Meant(k) : resolved[k] = explicit[name]

(* Every column is mapped or left to a person, never both and never        *)
(* neither, so the rows of a mapped import lose no column unseen           *)
(* ("the leftovers come back as ErrMappingRequired").                      *)
EveryColumnSettled ==
  ended \in {"mapped", "required"} =>
    /\ \A k \in KeySet : resolved[k] = NoMapping <=> k \in leftover
    /\ ended = "mapped" <=> leftover = {}

(* "It never creates a property type on its own", and a mapping by         *)
(* similarity that nobody wrote is named as a guess, and none is made      *)
(* under --skip-fuzzy (import.go ResolveMappings, takeable).               *)
NothingInvented ==
  \A i \in DOMAIN Keys : ended \in {"mapped", "required"} =>
    LET mapping == resolved[Keys[i]]
    IN /\ mapping # "new type"
       /\ mapping = "type" /\ preview[i].match = "fuzzy" =>
            Keys[i] \in guesses /\ ~exactOnly

(* In whichever order the written mappings come: they win, every column is *)
(* settled, and nothing is made up (import.go ResolveMappings).            *)
MappingKeepsWord == WrittenWins /\ EveryColumnSettled /\ NothingInvented

-----------------------------------------------------------------------------
(* The inductive invariant behind the theorem of CommandProofs. *)

MappingTypeOK ==
  /\ preview \in [DOMAIN Keys -> Columns]
  /\ \A i \in DOMAIN Keys :
       preview[i].suggestion = "new type" => preview[i].match = "none"
  /\ DOMAIN explicit \subseteq Names /\ explicit \in [DOMAIN explicit -> Targets]
  /\ accept \in BOOLEAN /\ exactOnly \in BOOLEAN
  /\ todo \subseteq DOMAIN explicit
  /\ resolved \in [KeySet -> Targets \cup Suggestions]
  /\ guesses \subseteq KeySet /\ leftover \subseteq KeySet
  /\ ended \in {"no", "error", "required", "mapped"}

\* As long as the loops go on a column has what was written for it or nothing,
\* and not nothing where a name gone through is its alone.
WrittenInv ==
  ended = "no" =>
    /\ \A k \in KeySet :
         \/ resolved[k] = NoMapping
         \/ \E n \in Meant(k) \ todo : resolved[k] = explicit[n]
    /\ \A n \in DOMAIN explicit \ todo : \A i \in DOMAIN Keys :
         Called(n) = {i} => resolved[Keys[i]] # NoMapping

MappingInv == MappingTypeOK /\ WrittenInv /\ MappingKeepsWord

=============================================================================
