# Specifications of benethos-lexware-office-mcp

TLA+ models of the server's concurrent and stateful parts, TLC runs that check them on small
instances, and TLAPS proofs of their most important properties for all values of the constants.
Paths are relative to `src/benethos_lexware_office_mcp/` of the repository. `PROJECT.json` maps each
definition to the lines it models, and lists runs, mutants (a plausible bug for every property, which the
property must notice), findings, hazards and theorems.

Check a module with `tlc -workers 2 -config MCx.cfg MCx`, its proofs with `tlapm XProofs.tla`.

## 1. The system and its parts

The program is an MCP server that lets a language model read and write the accounting records of a Lexware
account, and a local web page where a person sets it up. A server runs as one asyncio process (stdio, or
HTTP in a container that restarts it); several may run at once and share the settings file, the policy
file and the download directory. The settings page is a process of its own with a thread per request.

| Part | State | Operations | Hard behaviour | Correct when | Model |
| --- | --- | --- | --- | --- | --- |
| Token bucket `api/ratelimit.py` | tokens, time of refill, blocked-until, FIFO lock | `acquire`, `drain` | a waiter sleeps with the lock held; drained or cancelled meanwhile | never more requests than the service allows; breaker holds; nobody starves | `RateLimit`, `TokenBucket` |
| Connection `api/connection.py`, `api/refusal.py` | row of 429s, one call's attempts | `request`, `probe`, `_count_429`, mapping of answers | lost requests and answers, requests that arrive after the sender gave up, retries, breaker shared by calls | no write twice; what the caller is told is so | `WriteOnce`, `Connection` |
| API client `api/client.py` | the one client, the last check of the key (`Health`) | one method per endpoint, `check` | the key read before a lock and again when it is sent | what is said of a key was found out with it; no key sent twice an interval | `Health`; endpoints in `WriteTools`, `Upload` |
| Update flow `tools/_base.py`, `contacts.py`, `articles.py`, `vouchers.py`; `records/payloads.py` | none | look, read, `require_version`, merge, PUT | three requests, others change the record in between; a PUT replaces the whole record | no change of others overwritten; nothing changed that was not given | `Payloads`, `WriteTools` |
| MCP server `server.py` | last sight of both lists, connections to tell | list, call, `_watch`, announce | watcher, announcing calls and other processes interleave, scans are stale | no client is left with an outdated list | `ToolServer` |
| Tool policy `policy.py`, profiles `configui/profiles.py` | `tools.json`, the profiles | `enabled`, `sync`, presets, `save`; load, save, delete, import | read-merge-write beside other processes, upgrades, broken files, crashes | nothing is on that nobody switched on; no half file | `PolicyFile` |
| Settings `settings/*` | the settings file | load, `update_env_file`, late key | torn and stale reads | settings in effect are the file's | `SettingsWatch`, parts in `PolicyFile`, `Health`, `UploadAddress` |
| Download store `files/storage.py`, `delivery.py`, `resources.py` | the directory | `save`, `prune`, `resolve`, read | no lock at all; killed half-way; deletions by others | a file is whole, and what was answered reads back | `DownloadStore`, `DownloadReader` |
| Uploads `files/fetch.py`, `files/storage.py`, `tools/files.py` | none | fetch with its limits, read from disk, the one check | addresses written in disguise; servers that lie; files that change | only what the settings name is reached; what is sent passed the check | `UploadAddress`, `Upload` |
| Settings page server `configui/app.py` | sessions, codes, lock of actions, end | pages, `try_code`, forms, Beenden, idle end | a thread per request; end races a save; pauses for wrong codes | no save lost; right code answered; it ends | `SettingsPage` |
| Settings page actions `configui/actions.py`, `probe.py`, `state.py` | settings in use, the account last checked | save a key checked or not, check, settings | a check in the middle of an action; a key of the environment | the account shown is a key's in use | `SettingsPage`, `PolicyFile` |
| Start and restart `cli.py`, `transport/*` | snapshot of the settings file | start, token, watch, end | saves during a start or in the middle of a reading | settings in effect are the file's | `SettingsWatch` |
| Rows and records `records/formatting.py` | none | `clean_record`, rows | a row that leaves out what a decision needs | a decision is about what was shown | `WriteTools` |
| Rendering, errors, log book, HTML | none that is read back | — | — | — | not modelled |

How they interact: a tool gets the client from `ClientProvider` and calls `Connection.request`; every attempt
takes a token from the one bucket, and a row of 429s calls the bucket's `drain`. A download tool hands bytes to
`deliver`, which saves and prunes in a worker thread and announces the new list through the server. The server
reads the policy file at every list and call; its watcher polls the policy and the directory every two seconds.
The settings page writes the settings, policy and profile files, and `--tools` the policy; a server in a container
ends when the settings file changes and is started again.

## 2. The modules

Every module is plain TLA+: a variable per piece of state, an action per step between two points
where others can run - two awaits of a coroutine, two file system calls of a thread.

### TokenBucket, refining RateLimit

`acquire` is `Acquire` (joins the lock's queue), the holder's turn - `HoldWhileShut`, `SleepForCredit` or `Spend` - and
`Cancel` (of a waiter or of the sleeping holder); `drain` is `Drain`; `Tick` is time. Credit is counted in steps of `1/Interval` of a
token, so that a refill is whole. `grants` and `drains` are histories. `RateLimit` promises only that any
stretch of grants fits a bucket of `Capacity` filled at `1/Interval` - SPECS.md 10.1: at least as strict as the
service's own.

### Connection, refining WriteOnce

One record per call: where it is, its attempt, whether an earlier attempt may have been carried out
(`maybeDone`), its outcome. `wire` holds requests the service may still carry out, also after their sender
timed out. The service is external: a record with a version, an update refused unless it names the
current one, no memory of requests. Of the bucket only the breaker is kept (`shut`), so that waits have
no length; TokenBucket has the rest. `Keyless` is a request that finds no key to send. `WriteOnce` promises that a call takes effect at most once, a success took
effect, and a refusal of a call with no attempt left open neither did nor will.

### Payloads and WriteTools

A JSON object is a function on its fields. `Payloads` is `records/payloads.py` as operators: for each kind of record
the body that a creation sends and the one that an update lays over what it read (`ContactBody`, `VoucherBody`,
`ArticleBody`, `SalesDocumentBody`), and what a tool refuses. `WriteTools` runs calls over a small set of books: the caller looks
(`Search`, `GetRecord`, `GetByNumber`; what it sees is the row or record `formatting.py` makes), the tool reads again, compares
the version and sends (`Read`, `Replace`, `Send`), and the request is carried out (`Lands`), refused (`Bounces`) or given up on
and perhaps carried out later (`GiveUp`). `Edit` is a person in the web app. The service's rules are those the comments of
`payloads.py` state as measured: it numbers roles, derives the other price, and refuses the requests of `Refusable`: a body whose parts contradict each other, a voucher created
with a status, a sales document without its type's required part. At most once is what
Connection is proved to keep, so a request is carried out at most once here.

### Health

`server_status` asks for a check (`Ask` reads the key), waits for the lock (`Enter`), and a probe reads the key once more. `during`
collects the keys the file had since the check read it; `last` has both the key recorded for the last check
(`key`, the first reading) and the one that was sent (`of`), which differ if the file changed between.

### DownloadStore, DownloadReader

Every call into the file system is a step: create exclusively, write in parts, compare, touch, close,
list, stat and delete for `prune`, unlink after a failure. A file knows the task that made it, so a
task goes on writing to its own file after the name was taken away. A task may fail or be killed at every step. `DownloadReader`
adds readings by a link in three steps - `Resolve`, `Measure`, `ReadBytes` - with nothing held between them.

### UploadAddress, Upload

`UploadAddress` compares addresses as `fetch.py` does, on paths as sequences of segments, with escapes, backslashes and
parameters; `Below` is what another server may make of the same path, in all eight ways, and the reference the comparison
is checked against. `Upload` is one call: `Fetch`, `Respond`, `Chunk`, `BodyEnds` for a URL, `ReadUpload`, `IsFile`, `Stat`, `ReadBytes`
for a path, with another program's writes in between, then `Post`.

### PolicyFile

`tools.json` and the profiles, written by the page, by `--tools` and by people; each save of a program is its reading, the writing of a
temporary file (`WriteTemp`) and `Rename`, and may stop at each. `Upgrade` brings a release that knows more tools, a program that runs keeps
its own. `Guarded` is the gate every tool call passes. `chosen` and `byHand` are histories of what people asked for.

### ToolServer

A watcher task, announcing calls and clients over the two lists. A listing of the directory is a number that
only grows; a policy is a set of tools; a scan is taken in a thread, so it may be old when it is used. Clients
list again after they are told. A telling may fail and removes the connection.

### SettingsPage

Tabs of browsers that share a cookie, each with one request. A request is let in and waits for the lock of actions (`Enter`); an action
turns to Lexware for a check (`Turned`, `Checked`), reads the file and writes it (`Write`), reloads and is answered (`ActionOver`). The end is a thread that shuts the
loop down with that lock held; the process ends when the loop has stopped and takes its request threads with it.

### SettingsWatch

The start of a server over HTTP in the order of `cli.py` - `Snapshot`, `Load`, then `Serve`, or `ReadForToken`,
`WriteToken`, `SnapshotAgain` - beside the page (`PageReads`, `PageWrites`, `PageFails`) and a person's editor, which empties
the file before it writes (`Opens`, `Truncates`, `Writes`). `Look` and `LookAgain` are the watch's readings.

## 3. The runs

| Run | Instance | Shows |
| --- | --- | --- |
| `bucket` | 2 callers, capacity 2, a token in 2 ticks, cooldown 3, 8 ticks, 2 drains | TokenBucket implements RateLimit; the breaker holds against sleepers and re-arming; a drain really empties; nobody oversleeps or starves |
| `connection` | 2 calls of all methods, 2 attempts, breaker after 2 429s, 1 foreign change | Connection implements WriteOnce; a delete reported done left no record; "changed by somebody else" is said only of others; the breaker trips exactly after the row; every call ends |
| `write_tools` | 2 calls, one of any update or creation, one of any update or a deletion, on a record of each kind that is updated; 1 change in the web app | an update lands only on what its caller was shown, puts in what it was given, for every argument, and changes no other field but the parts of a price that are never sent back; no request goes out that is known to be refused |
| `health` | 2 checks, 2 keys, interval 2, 3 ticks, 3 saves | a verdict told was found out with the key asked for, or one saved during the check; the key of the last check is not sent again within the interval, nor after a refusal, unless the file changed between the two readings of one of the checks |
| `store` | 2 downloads of different bytes that want the same names, a server start, keep 1, old files or none, 1 reading of a link, one of the documents too large | no whole file's bytes are replaced; an answer names its own bytes; the bound on kept files; a link that was answered with reads its bytes back |
| `upload` | 1 call; 35 URLs, 7 entries, 5 paths, 3 directories, 384 responses, 1 change by another program, ceiling 2 | a disguised path reaches nothing beside what the settings name; what is sent passed the check |
| `tool_server` | 2 clients, 2 tools, 1 policy change, 1 addition to the directory | no client left behind; everyone comes to hold what is offered |
| `policy_file` | 3 tools over 2 releases, 2 names nobody can tell apart, 3 steps of people, 2 saves of programs | nothing on that nobody switched on; no half file; sync decides nothing; profiles are lost only as said |
| `settings_page` | 3 tabs of 2 browsers, 1 waiting session, 1 free try, 3 sessions, 1 save a tab | no save lost; the account shown is of a key in use; the end waits for actions; sessions stay; a right code is answered; the page ends |
| `settings_watch` | 3 saves by people, 1 crash, any first file | settings in effect are the file's unless the start made a token; no torn file ends a server; the last save arrives |

Two more runs are expected to fail. Each checks one sentence of the repository that the code does not keep;
`findings` quotes it:

* `limited_write`: a write whose first attempt may have been carried out and whose retry ends in a 429 is reported as
  plainly limited, although a 429 is "the one failure mode whose outcome is certain".
* `whole_or_nothing`: `touch` on a file that a clean-up removed meanwhile leaves an empty one, which is answered as the download.

Why the bounds are enough. Two callers are what it takes for one to sleep with the lock while another queues;
8 ticks cover a burst, a drain, its cooldown and a refill. Two calls and two attempts give an attempt that
is lost, one that arrives late, and a second call whose 429 falls into the first one's row; one foreign
change is what makes a version stale. Two updates of one record are each other's foreign change, and one change in the web app is
a third hand. Two checks are what it takes for one to wait for the lock, three saves for a key to go and come back.
Two downloads and one start are the fewest tasks where a name is made, taken
away and made again; one reading then meets every state of a name. Another program's one write falls between any two steps of an upload.
Two saves are one of each program, or of one after the other, and three steps of people an edit, a tick and an import. One policy change and two listings suffice for a sight that is older than what a client
has. Three tabs give two that save and one that tries codes. Three saves let the page and the editor each
write from a stale text during one start. Every bound is a CONSTANT and named in its module.

`CHECK_DEADLOCK FALSE` is set where the system comes to rest: all calls answered, the bounds used up, the page's process
over. `settings_watch` and `health` check deadlock: there something can always happen. `health` uses symmetry between its two calls, which no property tells apart.

### Fairness

* TokenBucket: time passes, and the holder of the lock takes its turn - asyncio wakes a sleeper and passes the lock on.
* Connection: each call goes on, and a bucket that is shut opens - every wait has a timeout. Nothing is assumed of the network.
* ToolServer: tasks go on. Strong for a client's asking again once told, as its request is disabled while it waits for
  another answer.
* SettingsPage: threads go on; nothing is assumed of people, who may never send another request. The serving loop stops once asked.
* SettingsWatch: the server, its supervisor and its watch go on, and an editor that has emptied a file writes it. People and crashes owe nothing.
* The other modules state no fairness: their properties are about what may not happen.

### Assumptions that narrow a model

* ToolServer's properties assume `NoReturn`: a policy that goes back to what it was within one turn of the watcher is never
  noticed, although a client may have listed the one between. A publish on the subscription bus is assumed not to fail.
* SettingsPage: `SignedInStays` speaks of sessions known when they are signed in; one pushed out just before is signed in for
  nothing. Ctrl+C is no action. Hosts, origins and tokens that are refused change nothing and are left out. The instance
  leaves the opening code out, for size.
* SettingsWatch: every save has a number of its own, so no file is saved back to what it was; a save by hand is over within one poll
  (`SaveIsShort`, and an editor does not empty the file again before the watch has looked once more). The deployment
  is the container's: HTTP, watch on, a token generated where there is none.
* DownloadStore: every file in the directory could be a download, the directory exists, nobody moves files into it by hand. A
  reading follows a link that a download answered with (`OnlyAnswered`); any other name is the same steps.
* WriteTools: money is whole cents and tax a cent a percent, which keeps net, gross and their derivation apart and leaves rounding out.
  Whoever changes a record, the service keeps it `Valid`: a contact is a company or a person and has roles, a voucher has one contact or the collective one and
  totals that fit its lines, an article a leading price. The caller's arguments are what the tools' signatures admit (`IsAsk`).
* Upload: where a path leads, links followed, does not change during a call. The proxy is only whether one is used.
* Health: the server has no key of its own from the environment, so that each question reads the file.
* PolicyFile: a person's edit is complete in one step, and may leave the file broken, so that an editor in the middle of a save is one too.

## 4. The proofs

| Module | Theorems | Inductive invariant |
| --- | --- | --- |
| `TokenBucketProofs` | `TokenBucketTyped`, `BreakerHoldsAlways`, `DrainEmptiesAlways`, `NeverOversleepsAlways`, `BucketImplementsRateLimit` | TypeOK, `Conformant`, `BreakerHolds`, `NeverOversleeps` with `PaidFromGrant` and `PaidFromDrain` (what was granted since a grant or a drain plus what is left is at most what was gained) and `ShutLongEnough` (the bucket is shut at least as long as the last drain asked) |
| `ConnectionProofs` | `ConnectionTyped`, `DeleteMeansGoneAlways`, `StaleMeansForeignAlways`, `ConnectionImplementsWriteOnce`, `BreakerExactAlways` | TypeOK and for every call `Accounted`: what is certain about its attempts, what its outcome lets one see, what an answer on its way may say, where it stands. `BInv`: the streak is the row of 429s that what was handled ends in (`EndsIn`), and no trip came early or late (`ExactFor`) |
| `DownloadStoreProofs` | `StoreTyped`, `AnswerAlwaysHolds`, `NothingIsReplaced`, `LinksReadBack`, `BoundKeptAlways` | TypeOK, `Made` (a file belongs to the task that writes it) and `Relied` (what a task relies on is there, or a clean-up took it); for readings `Follows` (the downloads that had answered with a reading's link are still done under that name, and what it measured holds); for the bound `Bounded` (while something was cleaned, one task's clean-up accounts for every file there is: it is still to list them, or looks at, keeps or removes them; only a file whose maker is still to withdraw it or to clean up itself is missing from its account), and that what is not beyond the bound is as many files as ranks below it |
| `ToolServerProofs` | `NobodyMissedAlways` | `SInv`: TypeOK; who is owed a telling is connected (`Reached`); what the watcher has seen of a list is that list at some moment, and whoever believes a list was given it then or later (`ToolsSight`, `DirSight`, and `FirstSightComes` before the first scan) |
| `ConfigUiProofs` | of PolicyFile: `OnlyWhatWasAsked`, `TwinsOnlyByHandAlways`, `NeverHalfAlways`, `SyncDecidesNothing`, `ProfilesAreKept`; of SettingsPage: `NoSaveIsLost`, `EndWaitsForActions`, `AccountIsOfThisKey`, `SignedInStaysAlways` | `PInv`: everything on in `tools.json`, in a profile, ticked in the form, or in what a save is about to write (`Jobs`) is in `chosen`. `QInv`: a name chosen for a new profile has a twin only by hand (`Fits`), profiles about to be written are the ones read with only that change (`Whole`), a policy about to be written has a flag for every tool (`Complete`). `PageInv`: TypeOK, `Locked` (who is inside an action holds the lock), `Kept` (what an action read is the file as it is, and a request knows its own saves) and `LateAfterEnd` |
| `HealthProofs` | `VerdictIsOfTheKeyAlways`, `SentOnceAnIntervalAlways` | `HInv`: TypeOK, `LastSound` (the last check sent a key that was in the file during it, and says of that one what the API does) and for every call `OneCall`: what it carries while it waits, asks or has been told, and that who asks has the lock |
| `SettingsWatchProofs` | `WatchTyped`, `TakenAsReadAlways`, `EndsOverAWholeFileAlways` | TypeOK, `TornIsEmpty` (only the text of a save cut short is empty, and it stays so), `Reading`, `Known` (no text has the number of a save to come), `Moved` (the file is the snapshot's, torn, or newer) and `Stayed` (if it is still the snapshot's, the settings are its) |
| `ToolsProofs` | of Upload: `UnderIsBelow`, `OnlyAllowedIsReached`, `SentIsAccepted`; of WriteTools: `NothingRefusableIsSent`, `LandsOverWhatWasSeen`, `LandsOnlyWhatWasGiven` | `UploadInv`: the two properties and `IsUpload` (a URL under way was compared, a path's place was compared before its file is looked at, what is ready passed the check). `WriteInv`: `BooksStand` (records the service has a place for) and for every call `CallStands`: equal versions mean that the record is what the caller saw (`Tracks`) and what the tool read again (`RestsOn`), and a request holds what its tool makes of the two (`Made`) |

They hold for every value of the constants under the ASSUMEs of the modules (`BucketAssumption`,
`ConnectionAssumption`, `StoreAssumption`, `ReaderAssumption`, `ServerAssumption`, `PolicyFileAssumption`, `HealthAssumption`, `PageAssumption`,
`WatchAssumption`, `AddressAssumption`, `UploadAssumption`, `WriteToolsAssumption`: types, counts that are not zero, that to look alike is mutual, what
a tool's arguments can be, and that the records at the start are `Valid`), which TLC evaluates in every run. The properties alone are not inductive: that a
sleeper cannot break a cooldown needs how long the bucket stays shut; that a delete's 404 means gone needs what every
attempt still on the wire can do; that the settings were read from the snapshot's file needs that a file that
moved on never comes back; that a rename switches nothing on needs what the save had read, sometimes from another file; that a link reads back needs what
the store keeps of a download that has answered; that nobody is left with an old list needs that the watcher's sight is never
newer than what is believed, so that by `NoReturn` a sight that is what is offered leaves nothing different between the two; that the
breaker trips at the right 429 needs the streak to be the end of the history; that an update overwrites no change it has not seen needs that a
version is never used twice for different records.

`OnlyAllowedIsReached` and `LandsOnlyWhatWasGiven` rest less on an invariant than on what the operators compute, for every input. A path is
walked, decoded and flattened by recursion along its length. The library's induction theorems cannot be instantiated here; each such fact is proved
from the least length that would break it, as the naturals are well-founded (`LeastNumber`, `Counting`). `UnderIsBelow` then says of every pair of plain paths
what TLC checks on 35 URLs. For the bodies, `Flat` names a record's fields with the block they lie in; one lemma for each kind
(`ContactOnlyGiven`, `VoucherOnlyGiven`, `ArticleOnlyGiven`) goes through the parts a body is laid together from. Payloads and WriteTools lay
records over each other with an operator of their own (`++`), since no installed prover knows the `@@` of the module TLC. Upload keeps its tables of
escapes as constants, so the theorems hold for every table that decodes to
segments and leaves an empty segment and the dots as they are.

Only model-checked: liveness (`EveryWaiterServed`, `EveryCallEnds`, `EveryoneHears`, `RightCodeAnswered`, `PageEnds`,
`ChangeArrives`), which the prover cannot reach as it needs ENABLED. Every other property of the passing runs is stated by a theorem.

## 5. Plan

Done, in that order: TokenBucket, Connection, DownloadStore, ToolServer, SettingsPage, SettingsWatch - first what
stands between a model and the books, then files, lists, set-up; then the updates (Payloads, WriteTools), PolicyFile, Health, Upload,
and reading downloads back.

1. Composition: WriteTools over Connection, with its retries in place of the one request.
2. Algorithms over bounded inputs: the rest of `settings/parse.py`, the search among the places of a settings file
   (`settings/locations.py`), the names of downloads.
3. The access token and the export of the settings page; two settings pages beside each other.

## 6. What the models found out

Besides the two findings, things a reader of the code should know. In each the model follows the code. Two of them stand
against a sentence of the repository, and the properties beside them except just these cases: the first against
`policy.py:305` ("without changing a single decision") when another program saves beside it; the second against
`client.py:569` and SPECS.md, which say that a refused key is not sent again.

* A policy saved by the page between the reading and the rename of a `--tools sync` is undone by it: a tool the page
  switched off can be on again (`policy.py:323`). `SyncChangesNoDecision` speaks of a sync nobody came between. A sync over a file that cannot be read writes everything off.
* A refused key can be sent again at once. A check reads the key, waits for the lock and sends the key as the file has it by then, but
  records the answer under the first one (`client.py:591`, `client.py:617`); if another was saved between, the next check does not know the refused one.
  `SentOnceAnInterval` speaks of checks in the middle of which the file did not change.
* An update of an article sends back of its price only the four `_PRICE_KEYS`, also if it does not touch the price
  (`payloads.py:475`); any other part the service keeps there is left out. `OnlyWhatWasGiven` excepts it (`PriceLeftOut`).
* A download whose write fails removes its file by name; if a clean-up and another download came between, the file removed is the other's
  (`storage.py:279`). `AnswerHolds` counts it among the files that were taken away.
* Profiles that cannot be read count as none, and the next save replaces them (`profiles.py:176`). A crash between the temporary file and the rename leaves the
  temporary file with what it holds (`envfile.py`).
* A form of the permissions page saves the ticks it was sent with, however old the page it came from is.
* `probe.forget` is never called: after a key is saved unchecked, the pages go on naming the account of the key before
  (`probe.py:57`, `actions.py:95`). `AccountOfThisKey` is about the moment an account is first shown.
* With no token free in time, a check for a new key is answered with the last check, which was the old key's
  (`client.py:608`). The key a check reads and the one its probe sends are two readings of the file.
* A download added between a client's first listing and the end of the watcher's first scan is announced to nobody
  (`server.py:435`).
* A form that waits for the lock of actions when the page ends may start its save as the process ends, since
  `stop_after_actions` releases the lock before the process is over (`app.py:179`); it is cut off, its file whole. `WaitsForActions` speaks of those that began before the shutdown.
* A start that makes its token takes the snapshot again; what was saved since its settings were read reaches it only with the next
  change (`cli.py:507`).
* A resource is measured before it is read: a file still being written may be larger than the ceiling by then
  (`resources.py:169`). Not so one whose link was answered with.
* A fetched name of full length that is a Windows device's loses its last character to the one in front
  (`storage.py:244`), and the type's extension is then set behind it.
* A row of the voucher list has no version, unlike those of contacts and articles, so a voucher is read before it is updated.

## 7. Not modelled, and why

The API methods and tools that build one request for a list, fixed data or a file; texts, tables, HTML and PDF pages; log lines
and counters nobody reads; command-line parsing; the wiring of uvicorn and the MCP SDK; the bearer and host checks, which keep no state; the check of a
call's arguments against its schema. They are sequential, without state,
and their tests reach them. The message a form leaves for the next page (`app.py`, a pop from a dictionary) and the page that `setup_prompt.py` opens, if none
listens yet, are small races whose worst outcome is a missing line or a second try. The settings file's syntax is the record of two settings in `SettingsWatch`;
the text of a Retry-After is one of a few waits in `Connection`.
