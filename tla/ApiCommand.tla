----------------------------- MODULE ApiCommand -----------------------------
(***************************************************************************)
(* `transpareo api <METHOD> <path>` (cli/api.go): the guard of --read-only *)
(* and --yes (App.refuseUnlessAllowed) judges the operation Registry.Match *)
(* finds for the path as it was typed, and Client.resolve turns the same   *)
(* path into the URL that is sent.  The two read it each in its own way.   *)
(*                                                                         *)
(* A path is its segments as they were typed, dot segments, double         *)
(* slashes, escapes and a fragment included, and the form it was written   *)
(* in.  What the platform does with a request is external: it decodes      *)
(* escapes, takes the route of an operation no other fits more closely,    *)
(* and may take a slash at the end for nothing.  An escape that does not   *)
(* decode, or stands for a dot, a slash or a "#", is left out.             *)
(***************************************************************************)
EXTENDS Naturals, FiniteSets, SequencesExt

CONSTANTS
  Operations,  \* the registry, in its order
  Param,       \* a segment of a template that stands for any value
  Segments,    \* other segments, of templates and of paths
  Decoded,     \* of each segment typed with an escape, the one it stands for
  BeforeHash,  \* of each typed with a "#", what is before it
  MaxLength    \* bound on the segments of a path

\* PUT and PATCH are to the guard and to Match what POST is.
Methods == {"GET", "POST", "DELETE"}

Paths(segments) == UNION {[1..n -> segments] : n \in 1..MaxLength}

Operation == [method: Methods, path: Paths(Segments \cup {Param}),
              safe: BOOLEAN, destructive: BOOLEAN]

ReadOnly(o) == o.method = "GET" \/ o.safe

\* What a slash at the end of a path and a double one leave, the dot segments,
\* the first segment of a URL, and one that has "api" stuck to its front.
Empty == "empty"
Dot == "."
Up == ".."
Scheme == "https:"
Glued == "api..."

AsTyped == Segments \cup {Empty, Dot, Up} \cup DOMAIN Decoded \cup DOMAIN BeforeHash

\* matchTemplate
Fits(template, segments) ==
  /\ Len(template) = Len(segments)
  /\ \A i \in DOMAIN template :
       IF template[i] = Param THEN segments[i] # Empty
       ELSE template[i] = segments[i]

Literals(template) ==
  Cardinality({i \in DOMAIN template : template[i] # Param})

\* Of two templates that fit a path, p is the closer one.
Closer(p, o) ==
  /\ \A i \in DOMAIN o.path : o.path[i] # Param => p.path[i] # Param
  /\ Literals(p.path) > Literals(o.path)

ASSUME ApiAssumption ==
  /\ Operations \in Seq(Operation)
  /\ Decoded \in [DOMAIN Decoded -> Segments]
  /\ BeforeHash \in [DOMAIN BeforeHash -> Segments]
  /\ DOMAIN Decoded \cap DOMAIN BeforeHash = {}
  /\ LET special == {Empty, Dot, Up, Scheme, Glued, "api", Param}
     IN special \cap (Segments \cup DOMAIN Decoded \cup DOMAIN BeforeHash) = {}
  /\ Segments \cap (DOMAIN Decoded \cup DOMAIN BeforeHash) = {}
  /\ Param \notin {Empty, Dot, Up, Scheme, Glued, "api"}
  /\ MaxLength \in Nat

\* A path that two templates fit says which of them is meant, unless it makes
\* no difference to --read-only (of the 140 operations of registry.gen.go only
\* reads can be mistaken for each other).
ASSUME RegistryAssumption ==
  /\ \A o \in ToSet(Operations) : o.path[1] # Param /\ ~(o.safe /\ o.destructive)
  /\ \A o, p \in ToSet(Operations) :
       \/ o.method # p.method \/ Len(o.path) # Len(p.path)
       \/ \E i \in DOMAIN o.path :
            o.path[i] # p.path[i] /\ Param \notin {o.path[i], p.path[i]}
       \/ Closer(o, p) \/ Closer(p, o)
       \/ ReadOnly(o) = ReadOnly(p)

VARIABLES
  given,     \* the method, the segments and how the path was written
  flags,     \* --read-only and --yes
  found,     \* the operation the guard found, or none
  outcome    \* "none" yet, "passed" by the guard, "refused" or "sent"

apiVars == <<given, flags, found, outcome>>

\* "me" or "/me", "/api/me", "/apime", and "https://<host>/api/me".  A query is
\* told apart behind a slash only: elsewhere both readers cut it off alike.
Forms == {"relative", "prefixed", "glued", "absolute"}

Arguments ==
  { g \in [method: Methods, form: Forms, query: BOOLEAN, segments: Paths(AsTyped)] :
      /\ g.form = "glued" => g.segments[1] # Empty
      /\ g.query => Last(g.segments) = Empty }

\* The segments up to a "#".
UpToHash(segments) ==
  LET hashes == {i \in DOMAIN segments : segments[i] \in DOMAIN BeforeHash}
      first == Min(hashes)
  IN IF hashes = {} THEN segments
     ELSE Append(SubSeq(segments, 1, first - 1), BeforeHash[segments[first]])

ApiInit ==
  /\ given \in Arguments
  /\ flags \in [readOnly: BOOLEAN, yes: BOOLEAN]
  /\ found = {}
  /\ outcome = "none"

-----------------------------------------------------------------------------
(* Registry.Match *)

\* The text as it was typed: /api and the slashes at both ends are taken off,
\* then the query or the fragment, and what is left is cut at its slashes.
Split(g) ==
  LET text == IF g.form # "absolute" THEN UpToHash(g.segments)
              ELSE <<Scheme, Empty, "host", "api">> \o UpToHash(g.segments)
      named == {i \in DOMAIN text : text[i] # Empty}
  IN IF named = {} THEN <<Empty>>
     ELSE SubSeq(text, Min(named), IF g.query THEN Len(text) ELSE Max(named))

\* Mutant of Better: the first operation that fits is taken.
BetterNever(i, j) == i < j

\* Of two operations that fit, the i-th is taken: it has more literal
\* segments, or as many and comes first.
Better(i, j) ==
  LET literals(k) == Literals(Operations[k].path)
  IN literals(i) >= literals(j) /\ (literals(i) = literals(j) => i < j)

Fitting(method, segments) ==
  {i \in DOMAIN Operations :
     Operations[i].method = method /\ Fits(Operations[i].path, segments)}

Match(method, segments) ==
  LET fitting == Fitting(method, segments)
  IN {Operations[i] : i \in {i \in fitting : \A j \in fitting \ {i} : Better(i, j)}}

-----------------------------------------------------------------------------
\* Mutant of Allowed: what the registry does not know passes.
AllowedUnknown(method, match) ==
  \A o \in match :
    (flags.readOnly => ReadOnly(o)) /\ (o.destructive => flags.yes)

\* refuseUnlessAllowed
Allowed(method, match) ==
  /\ flags.readOnly =>
       IF match = {} THEN method = "GET" ELSE \A o \in match : ReadOnly(o)
  /\ \A o \in match : o.destructive => flags.yes

Guard ==
  /\ outcome = "none"
  /\ found' = Match(given.method, Split(given))
  /\ outcome' = IF Allowed(given.method, found') THEN "passed" ELSE "refused"
  /\ UNCHANGED <<given, flags>>

Send ==
  /\ outcome = "passed"
  /\ outcome' = "sent"
  /\ UNCHANGED <<given, flags, found>>

ApiNext == Guard \/ Send

ApiSpec == ApiInit /\ [][ApiNext]_apiVars

-----------------------------------------------------------------------------
(* Client.resolve *)

\* path.Join: a name stays unless some ".." behind it takes it back.
Clean(path) ==
  LET isName(i) == path[i] \notin {Empty, Dot, Up}
      names(i, j) == Cardinality({k \in i..j : isName(k)})
      ups(i, j) == Cardinality({k \in i..j : path[k] = Up})
      kept == {i \in DOMAIN path :
                 isName(i) /\ \A j \in i+1..Len(path) : ups(i+1, j) <= names(i+1, j)}
  IN [n \in 1..Cardinality(kept) |->
        path[CHOOSE i \in kept : Cardinality({j \in kept : j <= i}) = n]]

\* The path of the URL: a relative one is joined to the API root and cleaned,
\* a slash at its end stays, and a "#" is a character like any other; of an
\* absolute one only the fragment goes.
Resolved(g) ==
  LET names == IF g.form = "glued" THEN [g.segments EXCEPT ![1] = Glued] ELSE g.segments
      clean == Clean(<<"api">> \o names)
  IN IF g.form = "absolute" THEN <<"api">> \o UpToHash(g.segments)
     ELSE IF Last(names) = Empty THEN Append(clean, Empty) ELSE clean

\* What the platform reads below the API root: escapes decoded, with the empty
\* segment of a slash at the end or without it.
Reached(g) ==
  LET url == Resolved(g)
      below == [i \in 1..Len(url) - 1 |->
                  IF url[i+1] \in DOMAIN Decoded THEN Decoded[url[i+1]] ELSE url[i+1]]
  IN IF url = <<>> \/ Head(url) # "api" THEN {}
     ELSE {below} \cup
            {s \in {SubSeq(below, 1, Len(below) - 1)} : below = Append(s, Empty)}

\* The operations the platform may execute for the request: those that fit
\* it and that no other fits more closely.
Routes ==
  LET reached == Reached(given)
      fitting == { o \in ToSet(Operations) :
                     o.method = given.method /\ \E s \in reached : Fits(o.path, s) }
  IN {o \in fitting : ~\E p \in fitting : Closer(p, o)}

\* A path as the documents write one: relative to the API root, with or without
\* the leading /api, its segments plain, and no slash before a query.
PlainPath(g) ==
  /\ g.form \in {"relative", "prefixed"}
  /\ \A i \in DOMAIN g.segments :
       \/ g.segments[i] \in Segments
       \/ g.segments[i] = Empty /\ i = Len(g.segments) /\ i > 1 /\ ~g.query

(* For a path of plain segments, with or without /api and a slash at its   *)
(* end, the guard judges an operation the request may hit, and misses      *)
(* none.  Dot segments, double slashes, escapes and a "#" are read in two  *)
(* ways, and nothing is said of them here (registry.go Match, client.go    *)
(* resolve).                                                               *)
GuardSeesRequest ==
  outcome # "none" /\ PlainPath(given) =>
    IF found = {} THEN Routes = {} ELSE found \subseteq Routes

(* Under --read-only nothing that changes data is sent, whatever the form  *)
(* of the path and whether the registry knows it or not (api.go,           *)
(* "--read-only refuses everything but reads and validations").  Not said  *)
(* of a path with a "#", of which Match reads what is before it and the    *)
(* platform all of it.                                                     *)
ReadOnlyRefuses ==
  /\ flags.readOnly /\ outcome = "sent"
  /\ ToSet(given.segments) \cap DOMAIN BeforeHash = {}
  => \A o \in Routes : ReadOnly(o)

(* "Operations that cannot be undone need --yes" (api.go:28): not so for a *)
(* path that only Client.resolve or the platform understands, such as an   *)
(* absolute one or one with dot segments.                                  *)
UndoneNeedsYes ==
  outcome = "sent" /\ ~flags.yes /\ Last(given.segments) # Empty =>
    \A o \in Routes : ~o.destructive

\* What the guard has found is what Match finds, and it was let through.
ApiInv ==
  /\ given \in Arguments
  /\ flags \in [readOnly: BOOLEAN, yes: BOOLEAN]
  /\ outcome # "none" => found = Match(given.method, Split(given))
  /\ outcome \in {"passed", "sent"} => Allowed(given.method, found)

=============================================================================
