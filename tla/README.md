# A verification of transpareo-cli

TLA+ models of `transpareo` (the Go package `pkg/transpareo`, the command-line
tool, its MCP server and the signing endpoint), of whatever in it depends on the
order of events or on a boundary: tokens shared by goroutines and processes,
retries over an unreliable network, key rotation, files and a binary replaced by
several processes, imports, lists and feeds that change while they are read, tasks
that may never end, an assistant's concurrent tool calls, guards that judge a
request before it is sent, and the pure algorithms whose results have to be the
same everywhere. TLC checks small instances of every model; TLAPS proves the main
theorems for every value of the constants.

## 1. The system

| Component | State | Operations | Talks to |
|---|---|---|---|
| Token sources, `pkg/transpareo/token.go` | token and mutex of `cachedSource` and of `credentialsSource`; the profile's stored token | `Token`, `Invalidate`, the exchange | token endpoint, token store, called by the client |
| HTTP client, `client.go`, `transport.go` | per call: key, attempt, refreshed | `Do`, `RoundTrip`, `exchange`, `backoff`, `resolve`, `Download` | API, token source |
| Tasks and lists, `task.go`, `list.go` | per call: interval; next page, query | `WaitForTask`, `ListAll` | client; called by commands, tools and flows |
| Profiles, `internal/auth` | `config.json`, `credentials.json`, keyring entries | `Save`, `Delete`, `SetDefault`, `Resolve`, `load`, `writePrivate` | file system, keyring, environment; called by every command |
| Import flow, `internal/flows/import.go` | per run: options, the import | `Run`, `Validate`, `Execute`, `awaitAuto`, `SendMappings`, `ResolveMappings` | platform's import jobs, tasks |
| Export flow, `internal/flows/export.go` | per run: the export, the file | `StartExport`, `WaitExport`, `exports create` | platform's exports, tasks, `Download` |
| Event feed, `internal/flows/events.go`, `eventsTail` | cursor | `ReadFeed`, `Follow` | API, standard output |
| Signing endpoint, `pkg/transpareo/signer`, `cli/signer.go` | pinned key, nonces, last refetch, one mutex; two key files | `Verify` per request, `adopt`, `spend`; `keygen`, loading; canonical JSON, base58 | platform's key and rotation documents |
| Upgrade, `internal/upgrade` | the binary, its `.old` file, temporary files | `Run`, `replace`, `Verify` | GitHub, file system, Sigstore |
| MCP server, `internal/mcp` | one client, made once | tool calls: curated, `call_api`, flows, `wait_for_task` | client, registry, flows |
| Registry, generated commands, `api` | none: a table; per command its options | `Match`, `ReadOnly`, `runOperation`, the guard | client, output |

What is hard here:

* goroutines of one process meet in the two token mutexes and in `Verifier.mu`,
  neither of which is held over a network call of the verifier, and both of which
  are held over one of the token sources;
* processes meet in `config.json`, `credentials.json` and the keyring with no lock
  at all, and may be stopped between any two steps;
* a request whose answer was lost may still take effect, later;
* a guard reads a path, an environment or a configuration, and what acts on it
  afterwards reads it again or in another way;
* clocks: a token's life is counted from two instants, a nonce's from a clock read
  before the lock;
* the platform's state (an import, a key, a list, a task) moves between two calls of
  a sequence.

What makes each component correct: a client hands out no token the API no longer
honours, and one exchange serves all goroutines; after a 401 a call gets another
token; a POST is executed once; a request is signed once and the pinned key never
moves back; a file is whole; a login is kept, a logout forgets, the default exists;
rows land only when asked and validated, and a run's report is true; the cursor is
never ahead of the output; the binary's name holds a whole binary of a release; what
a guard let through is what is sent; a token goes to the host that issued it; a wait
tells the truth about a task; every call, wait and run ends. `PROJECT.json` lists
the hazards line by line with the properties that look for them.

## 2. Modules

| Module | Models | Instances | Proofs |
|---|---|---|---|
| `TokenCache` | `token.go` with the 401 of `client.go` | `MCTokenCache`, `MCClient` | `ClientProofs` |
| `AppliedOnce` | what `Do` promises of a POST (abstract) | | |
| `Exchange` | `Do`, `RoundTrip` and the attempt loop; refines `AppliedOnce` | `MCExchange`, `MCClient` | `ClientProofs` |
| `Backoff` | `Client.backoff` in machine arithmetic | `MCLocal` | `CommandProofs` |
| `Verifier` | `signer/verify.go`, `rotation.go`, the handler, the two fetches | `MCAccess` | `VerifierProofs` |
| `Profiles` | `internal/auth` as `login`, `logout` and other commands use it | `MCProfiles`, `MCAccess` | `ProfilesProofs` |
| `Resolution` | `Resolver.Resolve` and `App.Client` under any environment | `MCResolution`, `MCLocal` | `CommandProofs` |
| `PrivateFile` | `writePrivate` and `LoadConfig`, block by block | `MCPrivateFile`, `MCLocal` | `FilesProofs` |
| `ImportRun` | `flows.Run` with `imports run`, `imports map` | `MCImportRun`, `MCWork` | `WorkProofs` |
| `ColumnMapping` | `flows.ResolveMappings` | `MCLocal` | `CommandProofs` |
| `EventTail` | `events tail`, `flows.Follow` | `MCWork` | `WorkProofs` |
| `Listing` | `ListAll` over a list that changes | `MCWork` | `WorkProofs` |
| `Tasks` | `WaitForTask` and its callers, the export flow, `Download` | `MCWork` | `WorkProofs` |
| `McpServer` | the tool calls of `transpareo mcp` | `MCWork` | `WorkProofs` |
| `Upgrade` | `transpareo upgrade` and `--verify` | `MCLocal` | `FilesProofs` |
| `KeyFiles` | `signer keygen`, `loadSignerKeys` | `MCLocal` | `FilesProofs` |
| `ApiCommand` | the guard of `transpareo api` and the URL that is sent | `MCApiCommand`, `MCLocal` | `CommandProofs` |
| `GeneratedCommand` | `runOperation`, from options to exit code | `MCGenerated`, `MCLocal` | `CommandProofs` |
| `Encoding` | `jcs` and `base58` of the signing endpoint | `MCLocal` | `EncodingProofs` |

`MCClient`, `MCAccess`, `MCWork` and `MCLocal` hold the instances of several modules that share no
state: a behaviour is of one part, chosen at the start, and the variables of the
others stay as they begin. One run then asks the questions of all its parts, and
its states are the sum of theirs and not the product. `MCProfiles` puts commands one
after another and commands that overlap into one run in the same way.

Definitions named in comments as a *mutant of* another are that definition with a
plausible mistake in it; no specification uses them. `PROJECT.json` pairs each
with a property the mistake violates, which shows that the property depends on
the code and is not true of any program.

### TokenCache

`cachedToken`, `sourceToken` and the two mutexes are fields of the two sources, one
pair per process; `stored` is the profile's entry in the token store, shared by all.
A caller's `pc` follows one `Client.exchange`: `wait` (asking for a token), the
states inside `cachedSource.mu` (`load`, `source`, `exchange`, `answer`, `save`),
`have` (request sent), `drop` and `dropSource` (the two halves of `Invalidate`).
A step is what happens between two points at which another goroutine or process
can get in: `Look` is the lock and the look in memory, `Drop` the whole critical
section of `Invalidate`, `Issue` and `Receive` the two ends of an exchange, between
which the clock runs. `StoreFaults` says which store operations may fail. The API
may revoke a token, which it reports like an expired one.
A failure other than an expired token ends the call here; that the attempt loop tries
again is `Exchange`'s part, to which a token is there or refused.

### Exchange, AppliedOnce, Backoff

One call is a POST: `Start` is `Do` up to the loop (the key is chosen there), `Send`
one attempt, `Fail` the tail of the loop's body for any failure (refresh, wait or
settle). The network is a set `wire` of requests on their way: `Execute` serves any
of them at any time, also after the call gave up, and an answer only reaches the
attempt that waits for it. `AppliedOnce` keeps `key`, `applied` and `outcome` only:
an effect happens at most once per key, success implies the effect, and an error
implies nothing. `Backoff` computes the waits with `Width`-bit durations; Go's
64 bits are 6 in the run, for which every pair of positive waits is enumerated but
those of more than two thirds of the longest duration (195 years of Go's), which
half as much again takes out of its range.

### Verifier

One goroutine per request (`h`), which holds what `Verify` keeps in locals: the
clock it read, the pinned key it read, the key it fetched. `Verifier.mu` is never
held over a call, so each critical section is one action: `Look`, `MayFetch`,
`Adopt`, `Spend`; `Refetch` and `HandedOver` are the two fetches. The platform
rotates at will between any of them. `AllowUnsigned` returns before any state is
touched, and a key read from a file is the case in which no fetch ever succeeds;
neither adds behaviours.

The window: a nonce is remembered for `ReplayWindow` from the clock of the request
that spent it. A timestamp may lie in the endpoint's future by as much again; such
a request is acceptable for longer than its nonce is remembered, and is signed a
second time when it is delivered again, which the documentation rules out
(`NeverSeenBefore`, run `signed_twice`). `ReplayOutlivesWindow` says of every second
signature what the code makes of it: the window of the first is over, and either
the timestamp was ahead of the first one's clock, or the goroutine that signs again
read its own clock within the window and spent the nonce after another's purge.
`Lag` bounds the computation of a goroutine between two fetches;
`VerifierAssumption` asks that two fetches and
two such computations fit in `RefetchInterval` (a minute against two fetches of
five seconds each).

### Profiles, PrivateFile

A process runs one command after another; `pc` names the next read or write of a
shared file or keyring entry, and `Stop` may end a command before any of them. A
file-store change is two steps (`Put`: load, replace), a keyring change one. A
credential stands for a client id with its secret and scope, so that an entry
tells which login it belongs to. `promised` is not in the code: it records what the
last command of a name told its user, and nothing when two commands for one name
overlapped. `PrivateFile` justifies the atomic replacement `Profiles` assumes, and
says when it does not hold: files are inodes of blocks, a name points to an inode,
`os.WriteFile` is an open that truncates followed by writes, and `os.Rename` moves
whatever the temporary name points to by then. `lone` and `met` record which writers
overlapped.

### ImportRun

`pc` follows `importsRun` and `Run`; `job` is the platform's import as
`spec/openapi.json` describes it. Other programs that hold the same credential may
map the import and validate it, or revert it once an execution is over (`Mappers`);
they do not execute it. `clean` and `landed` record the
mappings a validation passed and the mappings rows were written under. Which
columns resolve is an outcome of `Upload`.

### EventTail

An event is its place in the feed and a cursor the place of the last event read.
`kept` is the cursor the reader has from the last run, passed to the next as
`--since`. A run ends by `Stop` (interrupted in a read or a wait) or `PrintFails` and
tells its cursor, or by `Kill` and tells nothing. `lost` records what a page still held
when its output failed. An interruption while a page is printed takes effect at the
next read or wait, as in the code. Standard output that fails is a full disk or a
redirected file, not a closed pipe, which ends a Go process with a signal.

### Resolution

Commands of one host, one after another. `StartCommand` picks an environment, a
`--profile` and what the command finds around it (a project file, an unreadable
configuration or secret); `Resolve` is `ProfileName`, `load`, `applyEnv` and the
completeness check in the order of the code; `UseToken` is `App.Client` with its
token store: a token of the environment, one that is kept, or a new one, which is
kept where `tokenStore` says so. A token is the host that issued it and the client
and the secret it was issued to. `mixed` records that a command replaced the host or
the client of a stored credential but not its secret: a token is then issued and
kept for the wrong pair, and `TokenFitsProfile` says what holds otherwise.

### ColumnMapping

`ResolveMappings` in its two halves: `TakeWritten` is one turn of the range over the
Go map of written mappings (any name left in `todo`), `TakeSuggestions` the loop
over the columns. `ByHeader` is the map of keys and headers, in which the last of
two columns that go by a name wins. `guesses` and `leftover` are what the code
returns beside the mapping.

### Listing

`list` is the list endpoint's, which others add to and take from between any two
pages. `FetchPage` is one `List`: the caller's query, which may name a page, goes
along with the first URL only, and `Asked` is what `resolve` makes of both. `steady`
records the items that were there all the while, `pulled` and `pushed` whether an
item left or joined the part already read, which moves the others across the border
of a page: with page numbers no client can see every item once then, and
`EveryItemOnce` says it is the only exception.

### Tasks

A task is its status on the platform; `Successors` says which statuses follow a
running one (`spec/openapi.json`), and others may resume an import at rest. A waiter
is a `tasks wait` or a `--wait`, the tool `wait_for_task` with its deadline, an export
waited for, or one whose archive is downloaded. `Poll` is one answer of the status
URL with what the caller makes of it, `Expire` the tool's deadline, `Interrupt` the
user's. `Create` and `Copy` are the two halves of a download: the file is created, and
with it an earlier archive lost, and then filled; a copy may break off.
`DownloadsKeepWord` relates what is left at the path to what the command said.

### McpServer

Each tool call is a goroutine: `Receive` and `CheckCall` are the guards before a
client is needed, `EnterOnce`, `BuildClient` and `TakeClient` are `Server.api` with its
`sync.Once` (one call makes the client or fails, the others wait for it and share the
result), `Send` the request. The three kinds of tools (curated, `call_api`, flows) reach
the same operations through different guards: which of them checks `--read-only`,
the confirming phrase and the key is what the properties are about. The platform
executes a request once or never, and remembers keys.

### Upgrade

A file is named by the process that wrote it; `target` and `old` say which file
has the binary's name and the `.old` name, `image` which file a process runs from. One
action per system call of `replace`, each of which may `Fail` with the code's
clean-up, and `Kill` between any two. On Windows the image of a running process
(`Held`) can be neither removed nor replaced, only renamed. What GitHub serves is of any
release or of none (`Junk`); what Sigstore's verification accepts is a release's own
checksum file. `Compare` is `upgrade --verify`.

### KeyFiles

Runs of `signer keygen` write the two files one after the other, with or without
`--force`; `OpenKey` is the exclusive open (or the truncating one), `WriteKey` the
write, `StopKeygen` an error or a kill. A server reads the two files one after the
other. `crossed` records runs that one with `--force` overlapped or followed.

### ApiCommand, GeneratedCommand

`ApiCommand`: a path is its segments as they were typed (plain ones, the empty ones of
double slashes and of a slash at the end, dot segments, ones with an escape or a `#`)
and its form (below the API root, with `/api/`, with `/api` stuck to its first segment,
or a whole URL). `Split`, `Fits` and `Match` are the registry's reading of it: the text as
it stands, cut off at a query or a `#`; of the operations that fit, the first with the
most literal segments (`Better`). `Resolved` is the client's: a relative path goes
through `URL.JoinPath`, which cleans it (`Clean`), an absolute one is sent as it is.
`Reached` is what the platform then reads, escapes decoded, and `Routes` the operations
that may execute it.
The operations of the instance compete with each other as those of the registry do.

`GeneratedCommand`: one invocation from `Build` (query, body, guards, in the order of
`runOperation`) over the call to `Deliver` or `Waited` and the exit code. A body is a
function from paths to leaves; `Assign` is one `--set` with the objects it makes or
replaces on its way, and `BodyFromSets` applies the sets in their order.

### Encoding

`Written` is `encodeNumber`, whose four forms are those of ECMAScript; `LessUTF16`
compares code units, `EscapedChar` is one character of a string. `Recoded` is both loops
of base58, up and down; the long division is modelled by the number it
computes. Each property is a reference definition: texts read back, and one
value has one text.

## 3. Runs

Runs that pass:

| Run | Part | Checks | Shows |
|---|---|---|---|
| `client` | both | `ClientTypeOK`, `CallsReturn` | every call returns: no lock is left behind, no two callers wait on each other, no retry goes on for ever |
| | tokens | `ValidIsUnexpired`, `MintOnlyWithoutToken` | the margin covers the exchange; one exchange serves both goroutines, with any store fault |
| | attempts | `AttemptsBounded`, `PostAppliedOnce`, `ImplementsAppliedOnce` | late, lost and repeated requests are executed once, whether calls have keys of their own or share one; the policy is kept |
| `access` | both | `AccessTypeOK` | |
| | endpoint | `OneLookAtATime`, `PinAdvances` | no slow rotation overwrites a later one |
| | | `ReplayOutlivesWindow` | overlapping requests under different clocks: the only ways a request is signed again |
| | one command at a time | `TokenServesApart`, `WordKeptApart` | one command after another, stopped anywhere, keyring coming and going: what a login or a logout told its user is so of the store on record |
| | commands | `DefaultExists`, `SecretKept` | also two commands at a time on a keyring |
| `work` | all | `WorkTypeOK`, `WorkEnds` | every run, wait, pass and tool call ends, and every event arrives |
| | import | `WritesWhenAsked`, `WrittenIsTrue`, `OwnMappingValidated` | what the run reports and writes while two others map, validate or revert its import |
| | events | `NothingSkipped`, `NoNeedlessRepeat` | cursors ahead of the output only by a page whose output failed; repetitions only after a kill |
| | list | `EveryItemOnce` | no item missed or seen twice but for moves over what was read |
| | tasks | `RestedWhenTold` | nobody is told of rest in the middle of the work, nor of success where it failed |
| | | `DownloadsKeepWord` | after success the archive is whole, after a failed export the earlier one is there; an empty or partial one is left under an error only |
| | tools | `ToolsGuarded`, `KeyedOnce` | the guards hold through every kind of tool; one effect per key |
| `local` | all | `LocalTypeOK` | |
| | binary | `BinaryKept`, `NoFalseAlarm` | upgrades that overlap, fail and are killed leave a whole binary under one of the two names |
| | keys | `PairsKept` | a printed key is on disk; a server signs with one pair |
| | file | `WholeDocuments`, `LoneWriteLands` | whole documents while no two writers overlap; a writer alone puts down its own, after any mess |
| | command | `EnvironmentRespected` | which token goes where under any environment, and what is kept |
| | api | `GuardSeesRequest` | the guard judges the operation a plain path reaches, and misses none |
| | | `ReadOnlyRefuses` | `--read-only` lets no change through, in every form but behind a `#` |
| | generated | `CommandKeepsWord` | nothing is sent that was not given; sets in any order; what exit codes 0 and 4 mean |
| | mapping | `MappingKeepsWord` | the same promises in every order of a Go map |
| | encoding | `TextsReadBack` | one text per value, and one value per text |
| | waits | `WaitDoubles` | a shift that wraps shows in no wait where enough digits are left; no wait is negative or reaches one and a half times `MaxWait` |

A property that says several things is a conjunction of named ones, each with a
comment and a mutant of its own.

Runs that end in a violation, each a disagreement of the code with its own
documentation (`PROJECT.json`, findings):

| Run | Violates | In short |
|---|---|---|
| `token_race` | `FreshAfterInvalidate` | between `Invalidate`'s two locks another goroutine stores the refused token again |
| `signed_twice` | `NeverSeenBefore` | a request with a timestamp ahead of the endpoint's clock is accepted again once its nonce is forgotten, against "the nonce never seen before" (`README.md:327`, `docs/signer.md:38`, `signer.go:129`) |
| `profiles_race` | `TokenServesProfile` | a command that runs during a login stores a token of the old credential after the login cleared the entry |
| `file_torn` | `FileWhole` | two writers share one temporary name |
| `import_failed` | `PassedIsTrue` | a validation that failed as a whole counts as passed |
| `api_undone` | `UndoneNeedsYes` | what cannot be undone is sent without `--yes` through an absolute URL of the host (the trace kept is a POST); likewise through dot segments, as in `api DELETE /dpps/x/../../webhooks/7`, a double slash or an escape |
| `env_override` | `EnvironmentOverrides` | with the host or the client alone in the environment, the stored token of another host or client is used |
| `flags_dropped` | `GivenIsSent` | an option given as `false` or `0` is not sent |

The models show more disagreements, for which no run is kept:

* A store that cannot be cleared hands the refused token out again
  (`FreshAfterInvalidate` with `StoreFaults = {"clear"}`; `token.go:106` leaves it "to
  the next Save", but the next `Token` loads before anything is saved).
* Two logins at a time in the file store: one of them is lost (`SecretKept` with
  `KeyringAnswers = {FALSE}`; `store.go:125`, and `config.json` in `resolve.go:185`).
* A secret stays in the keyring when a later login of the name went to the file,
  since a logout empties the store on record only (`resolve.go:222`).
* A mapping another program sends between the validation and the execution is
  executed unvalidated (`landed \subseteq clean` fails in `ImportRun`; `import.go:558`).
  `OwnMappingValidated` is what remains true.
* The cursor is taken before its page is printed, so that a failed print leaves it
  ahead of the output (`composite.go:465`); `NothingSkipped` says by how much, through
  `lost`.
* The jitter is applied after the limit (`client.go:457`), so that a wait exceeds
  `MaxWait` by up to half, against "never exceeds MaxWait" (`client.go:31-32`). Of a policy
  whose base and limit together have more digits than a duration, a late wait may
  fall back when the shift wraps. `WaitDoubles` says what holds; a `BaseWait` of zero
  waits for the limit and is left out.
* `--read-only` lets a change through behind a `#`: `api POST '/dpps/validate#/../bulk'`
  is judged as the validation before the `#`, and the client cleans and sends the
  rest (`registry.go:670`, `client.go:478`; `ReadOnlyRefuses` without its exception fails).
* `imports run --execute` tells of rows written when another program has reverted the
  import between two polls: `Execute` takes every final status but `failed` for
  success (`import.go:433`). `WrittenIsTrue` names this exception.
* A download that breaks off has cost the earlier archive, which is emptied when the
  file is created (`composite.go:392`). `DownloadsKeepWord` says how far it goes.

Others the models had to follow, found in reading the code for them:

* `suggestionOf` promises nil for a suggestion to create a type (its comment), and
  returns `create_new`; `ColumnMapping` takes it as the code does.
* On Windows a failed upgrade need not leave the old binary "untouched"
  (`upgrade.go:338`): it may lie under the `.old` name (`Recoverable`).
* `imports run --read-only` without `--execute` uploads and validates, against
  `README.md:290`.
* `exports create` takes every final status but `failed` for success (`Concluded`).
* A slash at the end of a path before its query makes `Match` find nothing (`Split`).
* A column whose header is the key of an earlier one takes that name over: a mapping
  written for the earlier column's key goes to the later column (`ByHeader`).
* The environment does not "suffice on its own" (`resolve.go:98`) where the keyring of
  the default profile fails (`Unreadable`).
* `-o` is ignored with `--wait`. Exit code 2, "wrong usage" (`README.md:287`), also
  stands for a request that was executed when the answer cannot be written or the
  wait is interrupted (`Deliver`, `Waited`).
* The timeout of the signing handler answers for a verification that goes on and
  spends its nonce.

### Bounds

* `TokenCache`: two callers, margin and timeout of one unit, lifetimes none and
  three, two tokens, a clock of four. A token can be minted, run out or be refused and
  be minted again while another caller still holds the first. The theorems cover
  several processes.
* `Exchange`: two calls, three attempts (the default policy), three keys: both calls'
  keys and one more for a mistaken redraw.
* `MCAccess`: the names in `KeyringNames` alone move between the stores when commands come
  one after another; one such name and one that stays in the file is what separates
  the stores (`Moves`).
* `Verifier`: two goroutines are what a race over the pinned key or a nonce takes, and
  three keys what a skipped hand-over takes; the times are the smallest that satisfy
  `VerifierAssumption`, and a clock of five leaves room for a second look at the
  platform and for a nonce to be purged and delivered again. `signed_twice` needs one
  goroutine and one request.
* `Profiles`: one process with two names and two credentials, or two processes with
  two names and one credential, which is enough for what the two of them can lose.
* `Resolution`: two profiles on two workspaces, an environment that can name the host
  or the client of the second: every mixture of two credentials.
* `PrivateFile`: documents of one and two blocks: a torn one and a hole both show.
* `ImportRun`: the run and two others, of which each maps the import or reverts it once.
* `EventTail`: four events in pages of two and two kills: a full page, a short one
  and an empty one, and kills in two runs. `printed` saturates above what the
  property tells apart.
* `Listing`: five items in pages of two (two full pages and one more), changed twice
  anywhere, from the first or the second page.
* `Tasks`: two waiters, of any kinds, on three tasks of the three families, of
  which the bulk create may never end. The waiters are interchangeable, so of their
  two kinds the first waiter has the one that comes first (`KindsInOrder`).
* `McpServer`: two calls on five operations, one for each combination of safe,
  destructive and idempotent, the flow's own and one no consumer token can call; a key
  and two objects.
* `Upgrade`: three processes and two releases: one that runs from each of the two
  names and one that was begun in between; on Windows and elsewhere.
* `KeyFiles`: three runs and a server: a pair, a run that crosses it, and one more
  with `--force`.
* `ApiCommand`: every path of up to three segments in every form against thirteen
  competing operations: six plain segments, an empty one, the two dot segments, one
  with an escape and one with a `#`. Three segments take a dot segment behind a
  parameter, and a parameter between two literals.
* `GeneratedCommand`: every value of three options, every three sets over two keys and
  three depths, every combination of the options that decide where things go.
* `ColumnMapping`: two columns, of which one may bear the other's key as its header,
  and up to two written mappings over three names.
* `Encoding`: pairs of keys of up to two characters from below, in and above the
  surrogates; digits up to the seventeen a float64 needs, points around each
  boundary; bytes around zero and the base.
* `Backoff`: every pair of positive waits of six bits up to two thirds of the range, and
  eight attempts, two more than a duration has bits.

### Symmetry, deadlock and fairness

Interchangeable upgrades, writers, processes and credentials are symmetric in the
runs without liveness. `CHECK_DEADLOCK FALSE` stands where the system may really
stop: calls that have settled, a run that ended, clocks at their bound.

A run of several parts has for the part in play the fairness its module states
(`ClientFairness`, `WorkFairness`); `local` has none, its properties are safety.

* `TokenCache!FairSpec`: a goroutine in a call keeps running (weak fairness), and
  `sync.Mutex`, whose starvation mode hands the lock to a waiter, serves everyone in
  the end (strong fairness on the locking steps).
* `Exchange!ExchangeFairSpec`: each call's steps, since the HTTP client's timeout
  and the wait's timer end every pause; none for the API or the network.
* `ImportRun!FairSpec`: the run's steps and the end of the platform's tasks. If the
  platform never ended a task the wait would last until the user interrupts it.
* `EventTail`: the loop's steps. New events and interruptions are not fair.
* `Listing`: the steps of the pass; each request ends by `Exchange`'s liveness.
  Changes of the list are bounded: against a list that grows for ever a pass need
  not end.
* `Tasks`: a waiter's steps, the tool's deadline, and the platform's progress on what is
  not `Endless`; whoever waits for the rest waits until it is interrupted.
* `McpServer`: a call's steps, since each ends by the client's timeout.

## 4. Proofs

All proofs hold for any constants that satisfy the named assumptions of the modules,
which TLC evaluates in the runs. `ClientProofs` and `WorkProofs` extend the modules of
the runs, `LocalProofs` those of the host with `FilesProofs`, `CommandProofs` and
`EncodingProofs`: `ClientHolds`, `WorkHolds` and `LocalHolds` say of `ClientSpec`,
`WorkSpec` and `LocalSpec`, which the runs check, what the theorems below say of the
parts. They rest on one fact each: a step of the whole is a step of every part, or
leaves it as it is.

* **TokenCache.** `MarginSuffices` proves `ValidIsUnexpired` from `HTTPTimeout <=
  RefreshMargin`. The invariant `TimelyInv` says that the client's idea of an expiry
  is late by at most one exchange for every kept token, for a token about to be
  saved, and, while an exchange is under way, that it has lasted no longer than the
  timeout; `ValidIsUnexpired` alone is not inductive since an answer under way is
  not yet kept. `MintsAreShared` proves `MintOnlyWithoutToken` from `LockInv`: the
  outer mutex excludes, and what was read under it stays true as clocks only advance.
* **Exchange.** `KeyInv` (a key is chosen once and every request carries its call's;
  an effect or a success is known under it) gives `PostsApplyOnce`, and with the
  types `Refinement`: each step maps to a step of `AppliedOnce` or to none.
  `AttemptsAreBounded` needs that a waiting call still has attempts left.
* **Verifier.** `SignedOnce` proves `ReplayOutlivesWindow` from `NonceInv`: a nonce accepted
  under a clock is remembered until that clock's window is over, no goroutine's clock
  is ahead, and what a goroutine checks was in the window of its own clock.
  `LooksApart` from `PaceInv`, which bounds how long after its clock a goroutine can
  be at each point. `RotationsAdvance` adds `PinInv`: what a goroutine on its way
  through the rotation read is still pinned, since no other is on that way.
* **Profiles.** `DefaultSurvives` from `DefaultInv`: not only `config.json` but
  every copy a command holds names an existing default, so that any of them may be
  written back. The other three are about the two regimes of `MCProfiles`, whose
  common part is `ClaimInv`: the process that claimed a profile is the only one that
  changes it. One at a time, `ApartInv`: what the command at work read is what the
  files hold (`Alone`), and the steps it has behind it stand (`Behind`); it follows
  each step of a login, a logout and a run, and gives `TokensServe` and `WordsHold`.
  `SecretsStay` adds `OverlapInv` for commands that overlap on a keyring: all of their
  copies say keyring, so that nobody writes a file, and a stored secret stays until
  another command claims the name.
* **PrivateFile.** `DocumentsHold` and `LoneWritesHold` from `FilesInv`. `LoneInv` ties the
  temporary file's content to the position of the one writer that has met no other,
  through its open, its writes and its rename. `ReadInv`: as long as no two writers
  met, a reader's inode is whole and what it has read is its beginning, since the
  inode under the temporary name is never one that a reader holds. A free inode
  exists by counting (`FreeInode`): each process and each name holds one at most.
* **KeyFiles.** `KeyPairsHold` from `KeyFilesInv`: what a run has not begun it has not
  written (`BegunInv`), a run nobody crossed meets no forced run and shares no file
  (`CrossedInv`), so its first key stays while it writes the second (`FirstStays`), and
  a server that loads while nothing is forced still finds the first key it read
  (`LoadedInv`).
* **ImportRun.** `AskedFirst` from `AskedInv` (what the guard let through is what may
  write), `ReportedTruly` from `WrittenInv` (an execution once started is ended by
  the platform alone, and undone only by a program that reverts it). `OwnMappingChecked` from `ValidatedInv`: another program may
  start the validation of the run's mapping again while the run polls, so a status
  at rest says little by itself; as long as no validation passed that mapping, the
  run either sees its findings or goes on to an import that cannot be executed.
* **EventTail.** `CursorNeverAhead` proves `NothingSkipped`; `CursorInv` says where the
  cursor, the page and the output are within a page. `PrintedOnce` proves
  `NoNeedlessRepeat` from its counterpart `RepeatInv`: what lies behind the cursor
  was printed by killed runs only.
* **Tasks.** `DownloadsHold` and `RestHolds` from `WaitInv`. `FollowInv`: a waiter follows
  work that was started, a download an export that completed. The lemma
  `SuccessorsSound` carries most: no status that concludes a wait has a successor but
  for an import at rest, which only another's request moves on.
* **Listing.** `ItemsHold` from `PassInv`, for any page size and any changes. `PageInv`:
  the next page begins where those read so far end. `OnceInv` and `SteadyInv` relate
  what was had to what lies ahead in the list and in the batch; the lemmas
  `AheadInserted` and `AheadTaken` say what an insertion or a removal, before or
  behind that border, does to what lies ahead.
* **Upgrade.** `BinaryIsKept` for any number of upgrades and releases, on Windows
  and elsewhere, from `UpgradeInv`. That a run on Windows never removes the `.old`
  file while the binary's name is empty is nowhere checked by the code: it follows
  from `RunsFromNames`. Every process that still runs was started from a file that
  is under one of the two names, so that an empty binary's name leaves them all on
  the `.old` file, which the system does not let go of while it runs. `Progress`
  carries what a process verified from the archive to the rename. `AlarmsAreTrue`
  needs `Verifying`: the image of a verifying process and the file under the name
  part only by a replacement.
* **McpServer.** `GuardsHold` from `GuardInv`: a call past the guards still has the
  arguments that were judged, and a sent one has passed. No guard alone suffices (a
  curated tool is guarded by not being there, `call_api` by its own check, a flow by
  both its name and its operation), so the proof needs the tool a call came through.
  `KeysSpendOnce` from `KeyInv`: what was executed under a key is what its call
  asked for, once.

* **Resolution.** `EnvironmentHolds` from `RespectInv`: the profile a command works with
  is that of its environment to the end of the command, and a kept token is one of the
  stored credential unless half of it was replaced (`TokensFit`).
* **ColumnMapping.** `MappingHolds` from `MappingInv`, for any columns and any order of
  the written mappings: a column has what was written for one of its names, and
  not nothing where a name gone through is its alone (`WrittenInv`).
* **ApiCommand.** `GuardHolds` for any registry and any plain path: one of plain segments,
  with or without `/api` and a slash at its end (`PlainPath`). That an operation which
  fits best exists is an argument by the least number (`MatchFinds`). The registry, the
  client and the platform each read a plain path their way: the readings lead to the
  same operation, or the guard finds none and treats the request as one it does not
  know (`ReadingsAgree`, `RoutesFit`, `KindsAgree`). `ReadOnlyRefuses` is proved of plain
  paths and of any path for which the guard finds no operation; that it holds of dot
  segments, double slashes and escapes the guard takes for an operation is
  model-checked up to three segments. `RegistryAssumption` asks that two operations
  of a method which fit a common path are told apart by their literals or agree in
  what `--read-only` makes of them; without it the answer would depend on the order of
  the table. It holds of the 140 operations of `registry.gen.go`, of which only some
  reads are ambiguous.
* **GeneratedCommand.** `CommandKeeps` for any number of sets, keys and depths.
  `AssignStands` says what one `--set` leaves of a body: the fields that lie neither
  above nor below its path, and its own. `BodyStands` goes over the sets: of a first
  set at which it failed the one before would have held. The body of an invocation
  thus has the last word on every path and nothing else.
* **Backoff.** `WaitsDouble` for every `Width`, 64 bits among them, and every policy of
  positive waits. What `Grown` answers lies between nothing and the limit, and the jitter
  leaves it under half as much again. A wait of `Doubled` is not shortened by a shift
  that wraps where enough digits are left (`Shiftable`, `ShiftableParts`): what wraps keeps
  its zeros (`ZerosKept`), which are then more digits than the limit has (`ShiftDoubles`). The facts about powers of two come from counting
  the subsets of an interval, since the provers know none.
* **Encoding.** `TextsHold` proves `TextsReadBack` for strings, numbers, sets of keys and
  bytes of any length. What was given does not change and what is written is the
  function's (`EncodingInv`); the rest is about the functions. `Unfolded` turns a
  recursive one into its equation, and induction over data is by a least
  counterexample (`LeastOf`).
  *Strings*: the text is made of pieces, one per character, of lengths of their own
  (`Laid`, `PiecesStay`); a reader that starts at a piece ends behind it with the
  character (`ReadsPiece`), and no piece holds a quote that ends the text early.
  *Keys*: UTF-16 units tell strings apart since no character is a surrogate
  (`UnitsDiffer`, `UTF16Differs`), so of two keys one comes first (`OneIsBefore`), as
  its bytes in big-endian order do (`BytesBefore`), and sorting leaves the same keys
  (`SortedInOrder`).
  *Numbers*: whichever of the forms is written, its digits lie around the same
  run with the same place of the point (`WrittenHolds`, `NumberBack`).
  *Base58*: a sequence of digits that does not begin with a zero is the only one of
  its value (`ValueHasDigits`), and the zeros in front are counted apart
  (`ZerosCounted`), so recoding and recoding back is the identity (`RecodedBack`).

Type correctness is proved for every module of this list, by itself or as a part of its
inductive invariant.

The constants' assumptions are those the code makes true: keys of columns
are distinct (`ColumnMapping`), markers are no values (`KeyFiles`, `Resolution`,
`GeneratedCommand`), a task belongs to one family (`Tasks`), a path of a template begins
with a literal (`ApiCommand`), a string holds characters and no lone surrogates, and
the digits of a number neither begin nor end with a zero (`Encoding`).

Only model-checked: liveness (`CallsReturn`, `WorkEnds`), which the prover does not do,
and the part of `ReadOnlyRefuses` named above. Every other safety invariant and every
action property of the passing runs is proved.

## 5. Assumptions about what is not in the code

The API executes the first request under an idempotency key and answers later ones
with its result; it counts a token's life from the moment it issues it. The platform
signs a request once under a nonce of its own, publishes its key and the hand-over to
it, accepts a mapping for an import that is fresh, mapped or validated, and starts a
step for one that is mapped or validated. It reverts an import whose execution is
over when there is a backup or a record to revert. A rename is atomic; a keyring entry is set
at once. Random keys do not collide. Signatures cannot be made without the key.

A task's statuses follow each other as `spec/openapi.json` says, and one export of a
consumer runs at a time. A list endpoint cuts the list as it stands into pages and
names a next page while there is one. The platform routes a request to the most
specific operation, decodes the escapes of its path, and may take a slash at the end
for nothing. Windows neither
removes nor replaces an image that runs, but renames it; an exclusive open
creates a file or fails. Sigstore accepts only what a release's workflow signed.

## 6. Running the checks

    tlc -config MCClient_calls.cfg MCClient.tla
    tlc -config MCWork_ends.cfg MCWork.tla
    tlapm ClientProofs.tla
    tlapm CommandProofs.tla

Each passing run of several parts takes about two minutes with two workers; the
others take seconds. The longest proofs (`ProfilesProofs`, `WorkProofs`, `FilesProofs`,
`CommandProofs`, `EncodingProofs`) take from one minute to a few each.

## 7. Plan

1. *The core* (done): tokens, attempts, verifier, profiles, files, import, feed.
2. *The rest* (done): lists and tasks, the export flow, column mappings, upgrade, key
   files, MCP server, the `api` guard and the registry, generated commands, profile
   resolution, canonical JSON and base58.
3. *Proofs* (done): every safety invariant and every action property of the runs.
4. *Left of the server*: `handlerTimeout` and the shutdown of `signer serve`, which need
   the verifier's clock and a request that is answered before it is over; a
   refinement of an atomic register by `PrivateFile`, with `Profiles` over it.

## 8. Not modelled

* `pkg/transpareo/api/api.gen.go` (40600 lines), `registry.gen.go` (2798),
  `tools.gen.go` and the generators: generated or build-time code, more than three
  quarters of the lines of the repository: types and tables without control flow.
  What the tables decide (which operations are safe, destructive, idempotent,
  curated) is a constant of `McpServer` and `ApiCommand`.
* `doctor`, `setup`, `schema`, `docs`, `skill`, `guide`, `version`, completion: they
  print text and keep no state.
* Output formatting, documentation, skills, packaging.
* The MCP protocol and the shaping of tool answers; resources and discovery tools.
* Signatures: library calls over what `Encoding` writes. `ParseMapSpec`: syntax.
* The memory store of `internal/auth`: for tests.
* `upgrade --check`: one request and a comparison.
* The encoding of bodies and the decoding of error bodies in the client.
* Other programs that execute the import of a run: they map, validate and revert it.
* A restart of the signing endpoint, which forgets every nonce, as they are in memory
  only: within the window a request delivered again is then signed again.
* Paths with an escape that does not decode or stands for a dot, a slash or a `#`, which
  the client, the platform or both may refuse or read in yet another way.
* Waits of more than 195 years in a retry policy.
