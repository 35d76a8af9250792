# Reqit in TLA+

Reqit is a VS Code extension that sends the HTTP requests written in `.http`
files and shows their responses. This directory holds TLA+ models of its
stateful parts, the TLC configurations that check them on small instances, and
TLAPS proofs about them for every value of their constants. `PROJECT.json` maps
each definition to the lines of the source it translates.

Tools: `tlc -config X.cfg M` checks a run, `tlapm M_proofs.tla` the proofs.

## Inventory

The program is one single-threaded extension host. Concurrency is that of
promises and callbacks: between two `await`s code runs undisturbed, at an
`await` anything else may run. All paths below are under `src/`.

| Part | State it keeps | Operations | What is hard | What makes it correct |
|---|---|---|---|---|
| SSE transport driver (`core/sse/transport.ts`) | locals of a connection; resume point, backoff hint, counters, `untilError` | connect, read, parse, dispatch, close, back off, reconnect | a stop at every await; abandoned reads and connects; two nested loops with three counters | nothing opened or delivered after a stop; one truthful outcome; bodies released; caps and budgets respected |
| SSE predicate (`core/sse/until.ts`) | sticky stop, per-connection count | evaluate one event | statelessness across connections | a match stops for good |
| SSE parser (`core/sse/parser.ts`) | partial line, data, type, id, retry | push, end | chunk boundaries anywhere | the same events for every split |
| Stream registry (`core/sse/streamControl.ts`) | map of live abort controllers | start, abort, release, stopActive, closeOnAbort | registrations that outlive a request or end too early | holds exactly the requests that can still be stopped |
| Response panel (`extension/responseView.ts`) | the one panel, its script flag, its owner, its listener | render plain / gRPC / SSE, update, dispose, user closes it | views that supersede one another, queued messages | the newest view paints; a click stops what it was clicked on |
| Request runner (`extension/extension.ts`) | `lastSseTranscript`, the chain store, one call per request | run, stream, stop, save transcript | many calls parked at awaits at once | no two requests are mixed up |
| Chain store (`core/chain/resolver.ts`, `send.ts`) | recorded requests, responses, captures, rejected secrets | prepare, record, resolve | concurrent sends of one name; bounded provenance | captures and response from one exchange; a rejected secret stays swept |
| Placeholders, JSONPath (`core/chain/resolver.ts`, `jsonpath.ts`) | none | scan, classify, resolve a text | text that only looks like a reference; two shared bounds | a reference is resolved where it stands, or the request refused |
| Substitution (`core/substitute.ts`) | none | one pass over each field | values that hold references; bounded records | what was injected is known, or known to be incomplete |
| Redaction (`core/chain/redact.ts`, `curl.ts`) | none | derive, mask, scrub | overlapping forms; secrets that are templates; JSON | no secret is shown; a recorded body stays readable |
| Environments (`extension/envManager.ts`) | environments, active name | reload, pick, build a resolver | state read after awaits; overlapping reloads | one request sees one environment |
| Requests explorer (`extension/requestsTree.ts`) | filters, recents | refresh, list, record | filters read after I/O; overtaken reads; LRU limit | a settled tree shows what the filters of now leave of the files of now |
| Request edits (`core/{move,delete,duplicate,rename,append}Request.ts`, `favoriteToggle.ts`) | documents | plan, recheck, apply | document changes between plan and apply | an edit applies to the text it was planned on |
| File creation and imports (`extension/create*.ts`, `initWorkspace.ts`, `import*.ts`) | the file system | look, ask, write, merge | look then act; two commands at once | nothing is overwritten unasked |
| gRPC reflection cache (`core/grpcReflection.ts`) | entries, promises in flight | get, invalidate, clear, size | fetches that end after the map has changed | one fetch per target; no stale answer |
| gRPC descriptors (`core/grpcDescriptorDecoder.ts`, `grpcDescriptorIndex.ts`, `grpcPreflight.ts`) | files, types, services | decode, add, drop, find, report | refreshes one file at a time; legal but unusual encodings | a refreshed index answers like a new one |
| HTTP parser (`core/parser.ts`) | none | convert text | sections, malformed ones included | rows and planners agree on sections |
| OAuth2, JWT, auth presets | none | pure | expiry arithmetic | leeway honoured |
| gRPC frames and `.grpc` syntax, WebSocket and GraphQL files | none | parse, encode | length arithmetic | total decoders |
| Conversions of importers and exporters, builder, assertions | none | convert text | text | out of the models' reach |
| Release gates | none | sequential scripts | - | not modelled |

The parts interact through calls and shared module variables: `runRequest`
registers a session with the registry, sends, and hands an event stream to
`streamSseResponse`, which renders into the shared panel, runs the driver with
the session's signal, and paints from its `onEvent` callback. The panel's Stop
button posts a message back to the owning session's listener, which calls the
session's `abort()`; the Stop command and `deactivate` call `stopActive()`. A send
passes the chain stage, the environment stage and the closure of its secrets before
anything leaves the window; what it shows, copies and records is masked by that
closure, and what it records is what later sends refer to. The explorer learns of
files from watchers and documents, of sends from `runRequest`, and the edit and
creation commands start on its rows. The gRPC parts are joined to each other by the
decoder only: nothing connects them to a transport yet.

## Modules

| Module | Models | Built on |
|---|---|---|
| `SseStream` | what one stream promises its user, abstractly | - |
| `SseTransport` | `runSseTransportWithReconnect` and `runSseTransport` | implements `SseStream` |
| `MCSseTransport` | alphabets for TLC | `SseTransport` |
| `SseSessions` | registry, panel, stop messages, transcript cache of many requests | abstracts each stream to what `SseTransport` implements |
| `MCSseSessions` | symmetry for TLC | `SseSessions` |
| `Sse_proofs` | theorems about the driver and the sessions | `SseTransport`, `SseSessions` |
| `Ordered` | finite sets of numbers in ascending order, and the elements of a sequence at them | - |
| `SseParser` | `SseParser.push`, `end`, `drain` and a reference reading | `Ordered` |
| `MCSseParser` | the streams TLC cuts up | `SseParser` |
| `ChainStore` | the chain store and the send path around it | - |
| `MCChainStore` | requests and responses for TLC | `ChainStore` |
| `ChainStore_proofs` | its theorems | `ChainStore` |
| `EnvManager` | environments, selection, resolvers | - |
| `MCEnvManager` | environment files for TLC | `EnvManager` |
| `HttpFile` | what a `.http` text means, and the six edit planners | `Ordered` |
| `RequestEdits` | the commands that plan and apply those edits | `HttpFile` |
| `MCRequestEdits` | texts for TLC | `RequestEdits` |
| `Text_proofs` | theorems about both readers of texts | `SseParser`, `RequestEdits` |
| `Meaning_proofs` | what an edit leaves every request meaning | `Text_proofs` |
| `RequestsTree` | filters, prompts, recents and the explorer's listings | - |
| `MCRequestsTree` | files and queries for TLC | `RequestsTree` |
| `RequestsTree_proofs` | its theorems | `RequestsTree` |
| `RequestFiles` | the commands that create and import files | - |
| `MCRequestFiles` | folders and an import for TLC | `RequestFiles` |
| `RequestFiles_proofs` | its theorems | `RequestFiles` |
| `ReflectionCache` | the cache of server descriptors | - |
| `MCReflectionCache` | symmetry for TLC | `ReflectionCache` |
| `DescriptorDecoder` | the protobuf reader of descriptors | - |
| `DescriptorIndex` | the index over time, and the preflight | `DescriptorDecoder` |
| `MCDescriptorIndex` | an encoder, and files for TLC | `DescriptorIndex` |
| `Grpc_proofs` | theorems about cache and index | `ReflectionCache`, `DescriptorIndex` |
| `ChainText` | placeholders, JSONPath, references, the chain stage | - |
| `Redactor` | masking, curl quoting, scrubbing of JSON | `ChainText`, `Ordered` |
| `Redaction` | one send from its text to its echo, copy and record | `Redactor` |
| `MCRedaction` | requests, stores and environments for TLC | `Redaction` |
| `Secrets_proofs` | theorems about the parts that keep and hide secrets | `EnvManager`, `Redaction` |

Definitions named `...Unchecked`, `...Without...`, `...Keeps...` and the like
with the comment "Faulty variant" are what a plausible slip in the code would
make of the definition after them. They are not used by the specification; they
show that each property notices such a slip.

### SseTransport

A step is what JavaScript runs between two awaits, so a promise that settles and
the continuation it wakes are two steps: `ChunkArrives` decides the race of
`nextChunkOrAbort` (`pc = "stepped"`), `Process` is the driver resuming, and a
`Stop` may fall between. `pc` names the await the driver is parked at:
`connecting` and `connected` the raced `connect()`, `reading` and `stepped` the
raced `next()`, `callback` the synchronous `onEvent` (in which the user's stop
can be issued), `closing` and `returned` the `finally` block, `backoff` and
`slept` the raced sleep. The record `conn` holds the locals of one
`runSseTransport` call and is reset by `FreshConn`, because the code starts each
connection with fresh locals; several of the divergences below follow from that.

The server chooses among `Events` and `Trails`: a chunk is the sequence of events
the parser completes with it. What the parser buffers reaches the driver at the
end of the body (`Flush` dispatches a queue, and the trailing id and retry fields
stay in `conn.trail`, which the driver does not read). `ParseThrows` is the
exception the event schema raises inside `push`.

The clock advances only while a connection is awaited or `onEvent` runs (`Tick`),
in ticks that count towards `MaxDuration` and `IdleLimit`. The backoff pause is a
value, `wait`, in milliseconds; how long it takes is not modelled. The history
`hinted` is the last `retry` that an event gave `onEvent`, unclamped, so that
`BackoffFollowsHint` is about what the consumer saw and not about the driver's copy.

A reconnect may be answered by something that is no event stream: `connect` then
throws before anyone has taken the body (`extension/extension.ts:1296`), which is
`ConnectMistyped`; the body stays `unread`. `NoBodyLeft` names it as the one body that
a run may leave, and says when: unstopped, failed, and not the first connection, which
`runRequest` has looked at before it streams.

External: the server, undici's body (`open`, `ended`, `failed`, `destroyed`,
`closed`, `unread`) and the event loop.

### SseSessions

Each request is a session with a `phase`: `requesting` and `reading` are the two
awaits of `runRequest`, `headers`, `text` and `rejected` the settled promise
before its continuation, `streaming` the await on the driver, `prompting` the
await on the save prompt. The panel is named by the turn that created it, so that
a replaced panel is told from its replacement; `shown` is the page in it, named
by the session (or `"plain"`) and the turn that painted it. A Stop click is a
message in `clicks` until it is delivered, in any order. `turn`, `saved` and the
turn inside a page are history variables.

### SseParser

A text is a sequence of atoms: what the parser tells apart (field names, colon,
space, CR, LF, byte order mark, NUL, a digit, digits beyond a finite number) and
one other character. A field name that a chunk boundary cuts in two is left out: the
parser looks at lines only, and the cuts that matter are those at terminators.
`Push` takes the next atoms of the stream, `Drain` may come at any time, `End`
after any push, so that every prefix of an input is an input. `LinesOf` (the lines end
at `LineEnds`, put `InOrder`) and the operators after it say what the text pushed so
far means, read at once and without a parser state; `SameEventsForAnySplit` compares.
`Scanned` is the loop of `consumeLines` as a fold over the buffer. A call that throws
(`failed`) is the schema's refusal of a `retry:` that is not finite. The reference takes
the type as the code and a test do, cleared by a record without data; the file's header
says otherwise (see the last section).

### ChainStore

`Prepare` is `runRequest` up to its first await: it resolves the request's
reference and remembers which texts are secret. `Respond` is everything after
the last await: it records the exchange, or refuses it, in the order of
`recordChainExchange` and `recordCaptures`. Any number of other sends may come
between. A response is what its body holds at each path; a body that is no JSON,
and a stream's, holds nothing. `Quota` stands for `MAX_SECRET_PROVENANCE`.
History: `latest` is the last response recorded per name, `declared` the secret
values that recorded exchanges declared.

Abstracted: values are whole, so replacing a secret inside a longer text is not
modelled here but in `Redaction`, as are environment secrets. A typed
directive fails on a value outside `Strings`. The parser caps directives before
the store sees them. `clear()` has no caller in the extension.

### EnvManager

A file is missing, malformed or defines which variables each environment has and
which are secret; a secret's value is named by the key it is stored under. A
reload is three steps: the watcher's callback up to `readFile`, the read, the
continuation. Nothing keeps reloads apart. A resolver is parked at `get`,
`recheck` (the second look of `promptAndStoreSecret`), `prompt` or `storing`. The
order in which an object lists its keys is left open. The set-secret command is
one step, its prompt's end; what it offered was declared when it started, perhaps
by an older file, so `SetSecret` allows any file's secrets. `overlapped` and
`steady` are history: whether two reloads ever overlapped, and whether the
selection stayed while a resolver was built. What `setActive` stores is read when
the next window opens, so `Init` starts from any name.

### HttpFile and RequestEdits

A text is the sequence of its lines, and a line is what the parser tells apart:
a separator with its name, a request line, a favorite directive, another comment,
a blank line, or one word (a header in the header block, a text elsewhere). A
name is a sequence of words, so that copies and capitals can be told apart.
Offsets become line numbers, and a text ends in an empty line if it ends in a line
break, so that an edit which forgets that break joins two lines here, too. A
section's fingerprint is the section itself. `Rows` is what the explorer shows of
a text: parsed requests with their fingerprints and their neighbors'. What is selected
by its place (sections, header lines) is a set of places put `InOrder`, so that it can
be reasoned about.

`RequestEdits` lets the explorer fall behind the document (`shown`), starts each
command on a row of `shown`, and plans on the `doc` of a later moment. From the
reading of the document to `applyEdit` nothing is awaited: the two comparisons of
`doc.version` in each command always succeed, and what protects an edit in flight
is that the editor rejects one made for another version. The model takes that
from the editor (`Outdated`), and lets it refuse any other edit as well.

Abstracted: which line breaks a file has, limits on sizes and on the characters
of a name, the walk that looks for symbolic links (it may end a command at any
time), and the tests and captures among a request's fields.

### RequestsTree

A node is the root, a workspace folder, a directory or a file. On the disk are the
files with their texts and the directories `dirs`, where a workspace folder stands for
its `.requests`; a directory may be empty. `owed` are the
nodes that the editor has still to ask for; `Ask` is the part of `getChildren` up
to its first await, and `listings` are the calls parked at `dirExists` (`"stat"`),
`listDir` (`"list"`) or the read of a file (`"read"`, then `"bytes"` before the
continuation runs). They answer in any order, and the filters and open documents are
read when they do (`ReadContinues`). A prompt is its kind and generation; any number
may be open. History: `sends`, `setBy` (which prompt last set a filter) and, with
each painted file, the text its rows came from and whether a later read had
overtaken it. What an overtaken read paints is the editor's choice, and the code
cannot prevent it: `TreeIsCurrent` exempts those rows, not the ones after them.

The watchers match `.requests/**/*.{http,grpc}` (`extension/extension.ts:161`), so a
file that comes, changes or goes is reported, and a directory is not. `FolderGoes` and
`FolderComes` make, remove and, one after the other, rename a directory with all that
lies in it; whether its files are reported is up to the watcher. Until something
refreshes the tree (`Refresh` is the command; the commands that create files and
folders end in the same call) it shows what was there before, and so does a settled
tree: without the history `missed`, the nodes that such a change has altered since the
last refresh, `TreeIsCurrent` is violated by a `mkdir`. With it the property says that
these nodes are the only ones that are outdated.

Abstracted: a query is a member of the set of queries that a name, URL or section
contains; symbolic links; `markRecent`, which has no caller; the five search commands
are one action, as they have the same steps (the two that differ in when they
name the filter do so in `Answer` and `Escape`).

### RequestFiles

A command is a record: its kind, the await it is parked at (`pc`), the folder, the
directory and file it goes to, and what it has read. A directory is missing, a
directory or a link; a file's content is named by who wrote it; an environment
file is missing, malformed or a set of entries, each with its writer. The creators'
walk up to `.requests` takes one `stat` per step. Creators write through
`applyEdit`, which the editor refuses when the file exists (`Allowed`); the importers
and Init Workspace look, and then write whatever has happened since: `raced` is the
history that says so, and `ContentSurvives` and `EntriesSurvive` claim nothing of
such a write. Two importers differ in wording only, so `"import"` is both.

Abstracted: which characters a name may have, the lexical path guard on names that
passed, and what a document is converted to: an import is the files and variables it
brings.

### ReflectionCache

A fetch is named by the call that started it, and descriptors by their fetch.
`GetCached`, `GetShared` and `GetFetched` are the three ways through
`getFileDescriptors`; `Settle` is the end of a fetch with its `finally`, served or
not. A fetcher that throws before it returns a promise is modelled as the code has
it: `finally` runs first, and the rejected promise is put into the map after it.
`Tick` moves the clock, which the code reads in each call. History: `outdated` and
`cleared` name what an invalidation or `clear()` cannot reach.

### DescriptorDecoder and DescriptorIndex

`DescriptorDecoder` reads bytes: varints of up to six bytes, of which a fifth keeps
four bits, fields of every wire type, unknown ones skipped, the last occurrence of
a field counting, and an error wherever the code throws. A dotted name is the
sequence of its parts, so a name that itself holds a dot is left out. A method's two
streaming flags are one, as the index treats them alike.

`DescriptorIndex` keeps `files`, `types` and `services` as the code does, and adds
what the decoder gives. An entry that the server may send is its bytes and, as
history, the file that they encode: the MC module has an encoder of its own, which
orders fields, repeats them and pads numbers as compilers may, and bytes that are no
descriptor. `Preflight` is the report's status; metadata are the kinds that
it warns of.

### ChainText, Redactor and Redaction

A text is a sequence of atoms: braces, brackets, quotes, dots, spaces, `$`, whole
identifiers and numbers, and what JSON needs. Loops of the code are folds, each with its
body as an operator: `Placeholders` (`Scanning`) and `Candidate` (`Reading`) are the
scanner with its abandoned candidates, `ResolveRequest` the chain stage with the two
bounds that a request's fields share; `Masked` is `secretRedactor`, `Scrubbed`
`scrubRecordedBody` with its three candidates, `Read` a JSON text read and masked at
once. A request is given by its parts, each with what it stands for, so that
`ReferencesResolveInPlace` compares the scanner's reading with the structure.

`Redaction` is one send: `Prepare` (chain stage), `Substitute` (environment stage),
`Derive` (the closure: `AlsoClosed` per base, `Turn` per variant of the queue,
`Participates` per substitution), `Block` or `Render`, then `Record`; or `CopyAsCurl` instead of
`Render`. `surfaces` is what was shown, copied or recorded last. Builtins give the
next of a sequence of values. `SecretsStayHidden` compares surfaces with
what each secret became on the wire (`Expansions`), not with the closure.

Abstracted: texts are ASCII, header names are in lower case; JSON has no white space
and canonical numbers; a secret whose reference is completed by the text around it
is not considered, nor is a curl copy with revealed secrets; the wording of
diagnostics; URLs are not normalised.

## Runs

| Run | Shows |
|---|---|
| `sse_driver` | the refinement of `SseStream`, exact counts, released bodies, a pause before a reconnect that is the last hint, within 100 ms and 30 s, and the fallback without one, that a stop is no failure, that nothing is dispatched past the event, duration or idle cap, and that a stop settles the run although the server owes nothing |
| `sse_sessions` | six properties of three concurrent requests: registry, listener, scripts, prompts, newest view, clicks |
| `sse_parser` | the same events for every split into chunks and every time to drain |
| `chain_store` | captures and responses from one exchange, remembered secrets, standing captures, scrubbed copies, with two sends in flight |
| `env_manager` | fresh environments unless reloads overlap, and one environment per resolver while the selection stays |
| `env_switch` | violation: a selection made during a secret prompt mixes environments |
| `request_edits` | deletions and moves touch the very bytes the explorer showed, the other edits change one request only, and names stay distinct, on a file that changes under two commands |
| `requests_tree` | a settled tree obeys the filters and shows the files of now, but for what unreported directories altered, recents are the latest, and no older prompt wins |
| `request_files` | nothing is overwritten unasked, a merge keeps the other entries, files lie where they were checked to |
| `reflection_cache` | one fetch per target, failures are retried, answers are fresh |
| `descriptor_index` | the latest definition answers, and an index that was refreshed file by file reports like a new one |
| `redaction` | references resolve in place, secrets stay hidden, closures are fair, one marker per secret, recorded bodies keep their other fields |

Bounds. `sse_driver`: two chunks of two events give every order of a stop, a match
and a chunk boundary, and an event before and after each cap; caps are two events,
three ticks of duration and two of idling; two reconnects are enough for everything
that crosses connections. The hints are of every kind that `clampRetryMs` tells apart:
none, zero, one below its limits (50 ms), one within them (5000) and one above (60000).
The one within comes from the fields that follow the last event of a read, which belong
to the next event; an event without such fields before it is one that is first in its
connection or follows another in its read. A hint of the first connection may survive
the second. `sse_sessions`: three sessions are an owner, the one that supersedes it,
and one that settles meanwhile; one event per stream tells streams with a transcript
from those without; one gRPC preview is a plain view that belongs to no session.

`sse_parser` cuts streams of up to eight terminators and data lines, five field
lines or four edge lines into chunks of one or two atoms: a terminator of two
atoms, the byte order mark and a held-back CR all meet a boundary. `chain_store`
has two sends (an older one may answer last), five requests and a quota of two
secrets where three are wanted. `env_manager` has two reloads, two changes of the
file (one may be read by both, by either or by none of a pair), one resolver with up
to two secrets, and one selection awaiting its update. Overlapping resolvers share
only the keychain, which only grows. `request_edits` starts two commands and changes
the file once besides: a row can be outdated when its command starts, when it plans
and when its edit arrives, and the second command may act on what the first left.
Ten texts hold every kind of section: copied, malformed, unnamed, with directives
before and after the request line, and last sections with and without a line break.

`requests_tree` lets the user or the disk do two things (answers to prompts, which
are free, aside), with two listings awaiting at once: an overtaken read needs two
reads and one change, a lost refresh one change during one read, a renamed directory
one that goes and one that comes. Recents hold two
requests, and up to three are sent. `request_files` runs two commands of any kind
while the user changes one thing: every look of one command can be outdated by the
other or by the user. `reflection_cache` has three calls for two targets: a
fetch, one that joins it, and one after it was forgotten; a life of two ticks
ends within the three of the clock. `descriptor_index` has three files with up to
four versions each in any order of adds and removals, a finite set of states, which
TLC exhausts. `redaction` has a bound of five references and candidates, paths of
two keys, three recorded substitutions and six derived variants; the requests,
stores and environments reach each of them and stay below each.

Symmetry is used where the members of a set are treated alike, and never in a run
that checks liveness. No run disables the deadlock check: `Settled`, `Quiet`
and `Finished` are explicit idle steps of a system that has finished.

Fairness. `sse_driver` assumes weak fairness of the driver's continuations
(the event loop runs every ready callback and `onEvent` is synchronous and
returns) and of `ReadSettles` (the read of a destroyed body settles, as Node's
streams do). Nothing is assumed of the server, the network, the clock or the
user. The other runs check safety only: what their promises await is up to the user,
the disk or a server, which owe nothing.

## Proofs

From `TransportAssumption` alone (typed alphabets, natural caps and budgets),
`Sse_proofs` shows for every alphabet, cap, budget and bound:

- `TypeCorrect`: the types. `FlushType` carries the loop over a batch, `Handover`
  says that the driver only resumes with an event in hand.
- `NoBodyIsLeft`, with the one body that a mistyped reconnect leaves as part of the
  statement, `EventCountIsExact`, and `DriverImplementsStream`, that each
  driver step is a step of `SseStream` or stutters. The property is not
  inductive: whether a reconnect may be opened depends on how `attempts`,
  `reconnectCount` and the connections opened differ at each `pc` (`LoopInv`),
  whether the reported reason is justified on what the connection's reason says
  about the run (`ReasonInv`), and whether a body is left on who holds it
  (`BodyInv`). `NextInv` proves the three by cases on the actions.

From `SessionsAssumption` (distinct names, natural bounds), `Sse_proofs` also
shows for any number of requests, views and events:

- `SessionsTyped`: the types, with "only a stream's page has a button".
- `RegistryStaysExact`: with `RegistryInv`, that nothing is aborted before it is
  sent.
- `ListenerIsLive`: with `ChannelInv`, that listener and owner always agree.
- `ScriptsAlwaysMatch` and `NewestViewAlwaysPaints`: with `PanelInv`. The page
  tells the truth only because no stream's handle names a panel without scripts,
  and a stream that owns the panel was the last to take it.
- `ClickStopsOnlyItsSession`: by cases on the step.

From `ChainAssumption` (requests and responses of the right shape, distinct
markers, a natural quota), `ChainStore_proofs` shows for any number of sends, any
requests, responses and quota:

- `StoreTyped`, and `ExchangesStayWhole`: what `Kept` leaves of a name is nothing, so
  its captures come from the exchange stored with them.
- `SecretsStayKnown`: strengthened by `SecretKept`, that each declared secret is its
  owner's stored capture or a remembered hint. `ReserveSuffices` shows, counting
  hints, that an exchange which is not refused pushes none of them out.
- `ProvenanceStaysBounded`, `CapturesStand`, `CopiesAreScrubbed`.

From `EnvAssumption` (files define environments by name, natural bounds),
`Secrets_proofs` shows for any files and any number of reloads and resolvers:

- `EnvironmentsTyped` and `SteadyBuildsUseOneEnvironment`, from one invariant: that a
  resolver awaiting a secret has a key (`KeyInv`), that what it still has to fetch
  and what it fetched are its own environment's (`SecretsInv`), and that its
  environment is the selected one (`NameInv`), the last two while the selection
  stays.
- `StatusStaysCurrent`, inductive as it stands, and `SelectionsAreKept`, by cases on
  the step; with `StoreTyped` and `ProvenanceStaysBounded` they are proved only, as
  no run needs to check them again.
- `ReloadsBringTheFile`: with `ReloadInv`, that without an overlap one reload is
  underway, and what it has read is the file or a change is still to be reported.

From `CacheAssumption`, `Grpc_proofs` shows for any calls, targets and
lifetimes, and any order in which fetches end:

- `CacheTyped`: the types.
- `FetchesAreShared`: what runs for a target is in the map, unless `clear()` forgot
  it; `FailuresAreNotKept` and `AnswersStayFresh` need in addition that an entry is
  of a fetch of its target that succeeded, and that a fetch an invalidation made
  outdated is no longer in the map for a call that comes after it.

From `FilesAssumption`, `RequestFiles_proofs` shows for any number of commands, any
tree of directories and any user:

- `CommandsSound`, the types and `IInv`: for each await what its command may rely on
  (`PlaceInv`), that nothing was found where it is about to write without leave
  (`LookedInv`), that what it read is what there is (`ReadInv`), and that the
  directories which the walk has come through are still there (`Walked`,
  `CheckedInv`), each unless the history says that somebody changed it meanwhile.
- `ExistingFilesAreKept`, `OtherEntriesAreKept` and `FilesGoWhereChecked` follow by
  cases on the step. The chain above a directory is the least set closed under
  `Parent`, which a walk that takes one `stat` at a time must be shown to exhaust.

From `TreeAssumption`, `RequestsTree_proofs` shows for any folders, files, texts and
queries and any number of listings:

- `TreeSound`: the invariant `TreeInv` says that unless the watcher has a change to
  report there is a set `C` of nodes that are painted as they are to be (`Faithful`,
  `RowsOK`), that no pending listing would spoil unnoticed (`Unspoilt`), and from
  which one gets, downwards, only to nodes in `C` or to nodes about to be painted
  (`Settling`: asked for, or listed by calls that will paint what is current). A
  refresh makes `C` empty, an answer adds its node, and a step that disturbs a
  node outside any listing must owe a refresh. A directory that comes or goes owes
  none: `Faithful` and the listings that will paint what is current (`Good`) exempt the
  nodes that it alters (`missed`), and `FolderStep` shows that it spoils no others, a
  listing under way included: a `stat` or bytes it makes outdated are of such a node.
- `RowsFollowFilters` and `TreeSettlesCurrent`: once nothing is under way `C` is closed
  below the root, so it has all that is shown.
- `PromptsKeepOrder`: with `PromptInv`, that no prompt has a number above its kind's.

- `RecentsStayLatest`: with `Follows`, that each recent entry is the last send of its
  key, that the keys sent after it are those of the entries behind it, and that a key
  which is not recent was followed by `Capacity` others. The sends from before the tree
  is shown are a fold, treated by its least prefix that fails (`FoldFollows`).

The first attempt at the tree's proof failed at `ReadContinues`, and rightly: the model had
let a document that is open in an editor excuse an overtaken read even where its
folder had been closed, so that three moves, one more than the run makes, would
violate `TreeIsCurrent` by a page that the history took for an ordinary read's.
`Completes` now asks for what the code asks: the folder is open and so is the document.

From `IndexAssumption`, `Grpc_proofs` shows for any entries, under the
hypothesis `EntriesDecode` that the decoder reads of each entry the file it encodes:

- `IndexSound`: types, answering files and, unless names clashed, the set of names,
  are those of the files loaded; with it `LatestFileServes`.
- `IndexHasNoHistory`: unless names clashed, the index equals a new one made of what
  was last sent of each loaded file, so `RefreshesLikeFresh`. What folding files into
  a new index gives is induction over the number of files, which is done here by the
  least number of files that fails (`LeastNumber`, `FromBuilds`). That the decoder does
  satisfy `EntriesDecode` is a claim about what it computes: the run checks it on its
  entries, by way of its properties.

From `ParserAssumption` (streams are texts of atoms), `Text_proofs` shows for any
streams, cut into chunks of any size and drained and ended at any time:

- `ParserTypes`: the types, and that no event is dispatched without data.
- `SplitsDoNotMatter`: by `ParserInv`, that while the parser is open its buffer is the
  unread end of the text and its fields and events are what the lines before that say
  (`ReadBefore`, `Reading`). One step of the fold over the buffer reads one more line
  (`ScannedMore`, `AfterLine`), which the reference reads last (`MoreEvents`); a CR at
  the end of the buffer is held back, so that the lines so far are lines of any longer
  text. That `InOrder` lists a set's members once each, ascending, is proved by ranks
  (`Ranked`, `InOrderThen`), without induction.

From `EditsAssumption` (what the file holds at first, or is changed into, are texts:
sequences of lines with at least one, whose separators carry sequences as names, as are
those a user types), `Text_proofs` shows for any number of commands and any names, rows
and changes of the file:

- `EditsTyped` (proved only): a pending edit that is not outdated lies within the
  document, and the document always has a line. By `EditsInv`, that such an edit is one that would be
  planned now, too (`Pending`), as every change of the document outdates it; and
  `PlanFits`, for each of the planners.
- `EditsExact`: from the same invariant, `DestructiveEditsAreExact`. `EditedAt` says where
  each line of a text goes in an edit; with it, separators stay in order around the
  lines that go (`WithoutHeads`) or swap (`SwappedHeads`), and every section keeps its
  bytes (`WithoutSections`, `SwappedSections`), so that `DeleteIs` and `MoveIs` hold.
  Only a command's own edit can end it with the document changed (`OnlyItsOwn`).
- `EditsAddOnly`, in `Meaning_proofs`: from the same invariant, `AdditiveEditsAreExact`.
  A section that moves means the same if its lines do, blank lines at its end aside
  (`SectionMoved`: its parts are equal where they lie, `PartsKept`), and a map
  between the sections with requests of two texts that keeps their order carries what
  all requests mean from one to the other (`MeaningChanged`, `MeaningMore`). Each kind of
  edit has such a map: a new separator line (`RenameMeans`), a copy above the next
  separator or behind the last line, ended or not (`CopyInMiddle`, `CopyAtEnd`,
  `CopyBroken`), a section at the end (`NewSection`), and comments above a request line,
  of which the directive put last counts (`MarkMeans`).
- `EditsKeepNames`: `NamesStayDistinct`, from `NamesInv`, which adds to the invariant that
  the document's separators and every name that a command holds are sequences: a plan
  reads the names of the text it was made for, and its edit applies to that text only. It
  also assumes `NumeralsDiffer`, as `ToString` has no definition to prove that from;
  `MCRequestEdits` checks it up to 50. `NewNameFree` and `CopyNameFree` show the
  numbering to find a free name, a text having fewer sections than there are numbers,
  and `Gains` holds of an edit that adds that one name at most.

From `RedactionAssumption`, `RedactorAssumption` and `ChainTextAssumption` (fields,
recorded values, variables and markers are texts, texts may have backslashes, the captures, hints and secret variables of a run are finitely many,
natural bounds), `Secrets_proofs` shows for any requests, exchanges, environments,
builtins and bounds:

- `RedactionIsTyped` (proved only): what each stage hands to the next. Each loop is shown
  to go through a path of typed states (`ScansStay`, `AnswersStay`, `SubstitutionsStay`,
  ...), one step of the code's loop at a time.
- `SecretsCloseFairly`: `ClosuresAreFair`, from the types and `ClosureIsDerived`, that what
  a run holds as its closure is what `deriveSecretVariants` gives. As the shares add up
  to no more than the bound, the total never stops a base, so that two closures of one
  base which start from different totals stay `Alike` turn by turn, up to the total; and
  a variant leaves the queue only after the value of every substitution it takes part in
  was added (`PassServes`), so that one that was not expanded is still in the queue when
  the turns end, which is reported. `Budget + 1` turns exhaust the queue or the share,
  as each takes one variant out and only an addition puts one in.
- `SecretsLeaveOneMarker`: `OneMarkerPerSecret`. `LongestFirst` gives the same forms from
  longer to shorter (`LongestFirstIs`), so that the forms masked before the one in the
  text are as long at least, and do not fit between its neighbours (`LongerAbsent`); its
  own turn leaves the marker (`ReplacedOnce`), in which no later form occurs
  (`ForeignAbsent`). Which marker is chosen does not depend on the forms' order.

Of the driver, `Sse_proofs` also has `DispatchStopsAtCaps`, with `BelowCap` (a connection
that reads is below its cap on events), `BackoffObeysHint` and `StopNeverFails`; and what the
refinement carries to the driver from `SseStream`, `ReportIsTrue` and `StopEndsTheStream`.
Of the sessions, it has `PromptsSaveTheirOwn`, with `PromptInv` (an open prompt is
about its own session's transcript).

Assumptions the proofs rest on are the modules' own, which TLC evaluates in every run:
constants have the shapes that the definitions use, markers such as `None` are not
among the values they stand apart from, workspace folders, directories and files are
different nodes, what was sent earlier is a sequence, and Init Workspace has something to write.

Only model-checked: `StopSettles` (liveness); and `ReferencesResolveInPlace`,
`SecretsStayHidden` and `RecordedBodyServes`, which hold of the requests, stores and
environments that the run enumerates: the first compares a field with the parts it was
written from, which the constants tie together only there; in the others a secret may
also come about from texts that happen to meet.

## Where code and text differ

One disagreement is a run of its own, `env_switch` (`extension/envManager.ts:138`;
:126). The models also follow the code where it differs from what the repository says
in these places:

- The type of a record without data is cleared, as the comment next to the code and a
  test say too, although the header of the parser says that "`event`/`id` state still
  carries" (`core/sse/parser.ts:259`; :25). The id does carry.
- `maxEvents` restarts with each connection (`core/sse/transport.ts:352`; :85 calls it
  the total), an `id:` without data never becomes the resume point (:335; :62), a chunk
  without events does not check the idle limit (:331; :90), and the predicate's error
  of one connection is replaced by the next one's (:498; :121).
- An older stream that ends empty empties the transcript cache
  (`extension/extension.ts:1395`; `README.md:295`).
- An importer replaces a `.http-env.json` that does not parse
  (`extension/importOpenapi.ts:185`; :16).
- A reflection fetcher that throws before it returns a promise is never retried until
  `clear()` (`core/grpcReflection.ts:111`; :20), and the end of a fetch that `clear()`
  forgot makes the map forget a newer one (:108; :17).
- A message that moved to another file is lost when its old file is refreshed last
  (`core/grpcDescriptorIndex.ts:231`; :85).
- Unknown fields that are groups, or varints beyond 32 bits, throw instead of being
  discarded (`core/grpcDescriptorDecoder.ts:149`; :18), and the high bits of a fifth
  varint byte are lost (:151).
- More than 256 secrets whose templates expand use up the bound together, so that later
  ones get no variants, although none "can ... starve a later base secret"
  (`core/chain/redact.ts:172`; :100). What they lack is reported as truncated, and the
  surfaces refused. `ClosuresAreFair` speaks of as many secrets as the bound at most.
- A secret that spans two strings of a JSON body may leave an array whose
  positions have shifted (`core/chain/redact.ts:361`; `extension/extension.ts:1105`);
  `RecordedBodyServes` claims that the other fields stay readable only where no variant
  of a secret holds JSON's own characters, which in its run are the plain secrets; that
  the record holds no secret it claims of all.
- No text says that the explorer follows directories; that it does not is described
  under `RequestsTree`. `README.md:92` promises it for edits and closes only.

## Not modelled

Text conversion (the importers' documents, request builder, `.grpc`, WebSocket and
GraphQL syntax, SSE directive values, assertions, schema validation) keeps no state
and would be transliterated; OAuth2 and authentication presets are pure helpers that no
command calls; HTML, CSP text and wording are layout; the release scripts keep no
state between steps. gRPC frames are arithmetic on a length prefix, which
`core/grpcFrame.ts:145` reads as a signed number, and have no caller yet.

## Plan

Done, in this order: the SSE stream and its sessions, the parser, the chain store,
environments, request edits (with the proofs above), then the explorer, file
creation and imports, the reflection cache, descriptors, and redaction.

Proofs followed: the driver and its sessions, the chain store, environments, the
reflection cache, file creation, the explorer, the descriptor index, the parser,
the edits, and the closure of secrets.

What is left: a statement of `SecretsStayHidden` that holds of all texts, which has to
say which texts may meet without spelling a secret.
