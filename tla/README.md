# McAdmin in TLA+

McAdmin is a web console for one Minecraft server: an ASP.NET Core application
(Blazor Server) that sends commands over RCON, starts and stops the server's
container through the Docker socket, reads `latest.log`, edits
`server.properties` and `whitelist.json`, keeps its own accounts in SQLite, and
loads plugins that add pages.  There are no tests in the repository.  Nearly
everything hard about it is concurrency: every browser has a circuit of its own,
all circuits share a handful of singletons, and every `await` is a place where
the others run.

Paths below are relative to the repository; `Services/` and `Components/` are
under `Web/src/`.

## The parts of the system

| Part | State it keeps | Operations | What is hard | What makes it correct |
|---|---|---|---|---|
| RCON client, `Services/Rcon/RconClient.cs` | gate, socket, next request id | `ExecuteAsync` (connect, log in, send, read, retry once, time out) | stale sockets, late answers, deadlines between any two packets, commands sent twice | one conversation at a time; an answer is the command's own and whole; an answered command is done with; a command runs at most twice; every call returns |
| Server controller, `Services/Rcon/RconServerController.cs`, with `DockerContainers.cs` | cached listing and its gate, `stopping`, cached version | start, stop, restart, command, snapshot, players | operations of several users, restart policies, a server that starts and crashes by itself, a cache invalidated without its lock | a stop holds; a restart makes a new run; no page keeps showing "Stopping"; listings are recent; every operation ends |
| Accounts, `Services/UserService.cs`, `Data/` | the `Users` table, cookies | sign in, create, change and reset password, set level, delete; seed at startup | read, decide, save without a transaction, cookies that outlive what they say | unique names, an administrator left, cookies name their account, the flag says who chose the password |
| Settings, `Services/Factories/ServerSettingsStore.cs`, `Components/Pages/ServerSettings.razor` | `server.properties`, a static array, each page's edits | load, edit, revert, discard, save | read, change and write of a file without a lock, the truncated file, the shared array, pages that render it at different times | saves amount to some serial order; no line is lost; a page shows what is stored until another writes |
| Whitelist, `ServerWhitelistStore.cs`, `Whitelist.razor` | `whitelist.json`, a static list, staged additions and removals | load, look up, stage, save | the list is replaced under a running save; saves fail half way; ids with and without dashes | every saved change is in the file; the list stays usable |
| Plugin loader and registry, `Services/Plugins/` | nav items, pages by slug, route assemblies, results | load at startup, register, read | plugins that throw half way, slugs claimed twice, copies of files, assemblies loaded out of turn, other threads | the app starts; every plugin is on record once; the sidebar leads to the right page |
| Plugin files and YAML, `ServerPluginFiles.cs`, `API/src/` | the plugin's files | read, write, edit | read, change and write; quoting and splicing of text | an edit changes only what it names |
| Addon pages, `Components/Addons/` | sections, values, pending edits | load, edit, save, act | a page that gets another slug while it loads | what is shown belongs to the page shown |
| Console page, `Home.razor`, `Home.razor.js` | last snapshot, players, log, echo, `busy`, where the panel was scrolled | first read, poll every second, Refresh, actions, commands, scroll, close | reads that overlap and land in any order, a browser that answers late, a page closed at any await | an action that returned is shown; the panel is at the newest line; a closed page stops polling |
| Reconnect dialog, `Components/Layout/ReconnectModal.razor.js` | one listener, the dialog and its class | events of Blazor, `retry`, `resume`, a return to the tab | calls that overlap, a server that fails and forgets the circuit between two awaits | a page comes back by itself, is reloaded only when nothing is left of its circuit, and is left alone when connected |
| Log reader, `ServerLogReader.cs` | none | tail, version | dates worked out backwards from a time of day | lines are in order and dated at most now |
| Host, layout, options | wiring | startup, sign-out | order of startup | the first administrator exists before the first request |

How they interact: the pages call the singletons and await them.
`RconServerController` calls `RconClient.ExecuteAsync`, Docker, the log reader and,
for the name and port of a snapshot, `ServerSettingsStore.GetSettingsAsync`, which
fills the static array the settings pages show.  Plugins register in
`PluginRegistry` before the first request; the router and the sidebar read it.  In
the browser Blazor's client carries every page's events and batches over one
connection, and the reconnect dialog is what is left of the page when it is lost.

## Modules

| Module | Models | Main idea |
|---|---|---|
| `RconService` | what callers of `ExecuteAsync` may rely on | abstract specification: asked, run at most twice, told |
| `RconClient` | `RconClient.cs` | one action per await; the server and the network are external actions |
| `ServerController` | `RconServerController.cs`, `DockerContainers.cs` | one action per await of each user's operation, the container and its restart policy beside it |
| `AccountStore` | `UserService.cs`, `DbInitializer.cs`, the sign-in, Account and Users pages | one action per query |
| `ServerSettings` | `ServerSettingsStore.cs`, `ServerSettings.razor`, the console's poll of the settings | one action per file operation |
| `Whitelist` | `ServerWhitelistStore.cs`, `Whitelist.razor` | one action per change of the list and per file operation |
| `PluginRegistry` | `PluginRegistry.cs` | its methods, as operators: each is one step under its lock |
| `PluginLoader` | `PluginLoader.cs`, its place in `Program.cs` | one action per way a file or a plugin can go; plugins register whenever they like |
| `AddonPage` | `AddonPage.razor` | the page on top of the two, one action per answer of `GetSectionsAsync` |
| `ConsolePage` | `Home.razor`, `Home.razor.js` | one action per stretch between two awaits of a handler, and per answer of the browser |
| `ReconnectModal` | `ReconnectModal.razor.js` | one action per await of `retry` and `resume`; Blazor, the server and the user are external |
| `MC*` | | constants for TLC |
| `*Proofs` | | theorems about the module of that name |

`RconClient` implements `RconService` (run `rcon_any`, property
`ImplementsService`: `busy` is `pc # "idle"`, `overdue` is `late`).
`ServerController` uses RCON only through what `RconService` promises: the command
is run, or the call fails, or a `stop` comes back as done without having been
delivered.  It does not instantiate the client: the product of the two would be
checked for nothing the two do not say apart.  `ConsolePage` takes from the controller
what decides how recent its reads are, and takes it step by step from the same lines: when
an action takes effect and when it invalidates, and the listing gate with its cache.

### RconClient

`pc[c]` is the await a caller of `ExecuteAsync` is at: `waiting` (the gate),
`connecting`, `authenticating`, `sending`, `reading`.  `EnterGate`,
`ReuseConnection` / `OpenConnection`, `ReadVerdict`, `WriteCommand`, `ReadReply` are
the straight path.  `Disconnected`, `ReadGarbage` and `TimeOut` are the three ways
out: the first two go through `Fail`, which is the nest of the two `catch` clauses of
`SendAsync` and the one of `ExecuteAsync` (tolerated, first attempt, second attempt).
`wire` are the packets sent and not read, `inbox` the requests sent and not handled,
`late` the commands of dropped connections that the server may still run.  Packets
carry the command they belong to, which only the properties look at.  Mutants, which
are not part of the specification, stand before the action they change.

### ServerController

`pc[u]` is the await of user u's operation.  `stopRcon`, `dockerStop`, `wait` are
`StopAsync`; `LeaveStop` is its `finally`, after which a restart goes on to
`dockerStart`.  `inspect`, `listGate`, `list`, `store` are `GetSnapshotAsync` and
`GetPlayersAsync`; `store` separates the answer of `list` from the assignment of the
cache, so that an `Invalidate` of another thread can fall in between.  A listing is
known by the `epoch` it was taken in: `epoch` counts actions that took effect,
`settled` is its value at the last `Invalidate`.  `revived[u]` says that the
container was started since Docker stopped it for u.  `properties` is the third await of a
snapshot, `ReadPropertiesAsync`.  After it there is none, but snapshots of several circuits
run on several threads and `VersionFor` takes no lock: its check belongs to the step that
ends the await, since nothing is written in between, and the read of the log and the two
assignments are `readLog`, `assign`, `assignFor`, one step each.  `making[u]` is what
`VersionFor` has in its locals, a null `StartedAt` is run 0.  `exit` is the exit code of a
container that is down, only as fine as `IsCleanExit` tells codes apart.

### AccountStore

Every call is a read with its checks, for a removal a count, and a save.  EF Core
writes only the columns whose value differs from the one read, which is why `readFlag`
remembers the flag.  History variables: `overlaps` for the last administrator; `imposed`,
the accounts whose password the seed or a reset chose; `overtaken`, the calls whose row
another has saved a password to since they read it; `crossed`, the accounts such a call
saved last.  An account an administrator creates is not flagged although the administrator
chose its password, and is not meant to be ("Share it with them, they can change it later",
`Users.razor:134`).
`Initialize` is a restart of the process at any moment: the calls are gone, the
cookies stay, and an empty table is seeded.

### ServerSettings

A save is `ReadLines`, `TruncateFile`, `WriteLines` for each edited key, then a load.
`ReadForPage` and `FillSettings` are `GetSettingsAsync`, for a page (`ShowSettings`,
which also drops the edits) or for the console's poll (`PollEnds`).  `harm` records
what has happened to writes so far (a read inside another page's read-to-write span,
a read of the truncated file, a write cut short, the Minecraft server rewriting the
file in between), `expected` is the file if every write had been one step.

`settings` is the static array.  What a page shows is `rows[p]`, the array as it was when
that page last rendered, which each of its events does (`Event`, `Render`) and nobody else's
does for it.  `Set` compares with that: the record its row was rendered from.  `late` are
loads under way that are older than the file; `stale` the pages for which somebody else has
left the array older than the file, `behind` those that have rendered such an array or
since when somebody else has written, `failed` those whose last load or save failed.

### Whitelist

A page shows the very list object it was given: while that is the static one
(`alias`), other pages' additions appear in it; a load replaces the static list and
leaves the others with what theirs was (`Detach`).  A save is `AddToList` or
`RemoveFromList`, `OpenFile` (serialised and truncated), `WriteFile` for each player,
then the load.  Entries are an account and the form of its id: `"plain"` from Mojang,
`"dashed"` from the Minecraft server; a list is how often it has each entry, because
only the first equal entry is ever looked for.  `expected` is the file if every change
had been made to it at once; `harm` what has happened to changes: `"overlap"` (two met),
`"failure"` (a write cut short), `"stale"` (the list was older than the file).  `AddsCollide` is the one data race on `List<T>` that is modelled, two calls
of `Add` at once of which one is lost; an `Add` or `Remove` while another thread
enumerates the list is left out; so is a save pressed before the page's first load
has ended, which the buttons do not prevent.

### PluginRegistry, PluginLoader, AddonPage

`PluginLoader` extends the registry's operators with the loop of the loader: `at` is
the file, `todo` the plugin types left in it, `running` the plugin whose `Load` is
awaited.  `SkipFile`, `CrashOnFile` and `LoadAssembly` are the ways out of the first
half of `LoadFileAsync` (`IsHostAssembly` skips what the process has, and any name of the
framework's, `FrameworkNames`); `LoadReturns`, `LoadThrows` and `SlugRefused` (a `Load` that
lets `AddPage`'s exception through) those of its `try`.  `RegisterPage` and
`RegisterLink` are what a plugin does, while it loads or later.  `ProbeFolders` loads
an assembly of the folder because the running plugin needs it; the loader then skips
its file, and the plugins in it are neither loaded nor reported (`brought` names
them).  `AddonPage` adds the browsers: `awaited` are the `GetSectionsAsync` calls under
way, which may end in any order.

### ConsolePage

`role[h]` is what a handler is (the first read, a turn of the poll, Refresh, an action,
a command), `at[h]` the call of the controller it awaits.  Handlers run on the circuit's
context, so one action is everything between two awaits.  `Render` puts a batch on its
way; `AfterRender` is the browser's confirmation, on which `OnAfterRenderAsync` runs and
from which the buttons are those of that batch (`quiet`): between the two a second click
meets the buttons of before, which is how two actions of one page come to overlap.
`effects` counts the actions that took effect, `snapshot` those the page shows.  `stage[h]`
is how far the call has come inside the controller: an action takes effect
(`ActionTakesEffect`), then invalidates (`ActionDone`), then its answer is on its way; a read
finds the cached listing (`UseCachedListing`) or enters the gate and asks
(`ServerIsRead`), then fills the cache (`StoreListing`), so that an action may invalidate
in between and the cache still get the listing of before.  `log` and
`echo` count the lines ever written, of which `Lines` are shown; `scrolls` are the calls of
`scrollToBottom` not answered, each with what `scrolledAt` becomes.  `ScriptImported` is
the rest of the first `OnAfterRenderAsync`: the poll starts, on a closed page too.

### ReconnectModal

`calls[i]` is the await a call of `retry` (`"reconnect"`, `"fallback"`) or `resume` is at;
`answer[i]` is on its way to it.  `listening` says that `retryWhenDocumentBecomesVisible`
is registered, `class` what Blazor, or `resume`'s catch, made of the dialog.  On the other
side, `circuit` is what the server has for the page: the circuit itself, its stored state,
or nothing.  `handleReconnectStateChanged` is a part of the action that raises the event,
because Blazor raises it with the class it sets.  `crossed` remembers that a call of this
document began while another was under way.

## Runs

| Run | Shows |
|---|---|
| `rcon_plain` | With answers cut as the protocol says: exclusive conversations, commands only after a login, a failed call saw an outage, a command runs once while the server stays up; an answered command has run, its answer is whole, and no copy of it is left to run. |
| `rcon_any` | With answers of any shape (packets with more bytes than characters, lengths out of range): answers are never mixed up, `RconService` is implemented (a command runs at most twice), every call returns. |
| `controller_docker` | With Docker and a restart policy: a stop that succeeded holds, a restart made a new run, a timeout means somebody started the container, the flag comes down, listings are recent, with every step of `VersionFor` interleaved. |
| `controller_rcon` | Without Docker: every operation ends. |
| `controller_version` | Counterexample: the old banner is cached for the new run (finding 1). |
| `accounts_any` | Any interleaving of six calls of two browsers with restarts: who is who, that an administrator is left, and that the flag says who chose the password. |
| `settings_two` | Two browsers, two keys, with failing writes, restarts and the Minecraft server's own rewrite: when values or lines are lost, and when a page shows something else than the file. |
| `whitelist_two` | Two browsers, two accounts, with failing lookups and writes, restarts and the Minecraft server's own rewrite: when a change can be lost or the list become unusable. |
| `whitelist_removed` | Counterexample: a player is reported as removed and is still on the list (finding 2). |
| `plugins` | Five drop-in folders, three plugins, two slugs, one browser: failures stay with their plugin, the app starts, the sidebar leads to the right page, a page shows its own sections. |
| `console` | One page, two handlers at a time, polls without bound, one click: an action that returned comes to be shown, through the controller's gate and cache; the panel ends at the newest line; a closed page falls quiet. |
| `reconnect` | Three calls at once, two connections lost or paused, two outages: the page comes back, is reloaded only when its circuit is gone, is left alone once connected. |

Every property of a passing run has a mutant: a definition changed the way a bug would
change it (`PROJECT.json`, "mutants"), under which the same run finds it violated.

### Bounds

- `RconClient`: two callers, three commands (two where liveness and refinement are
  checked), two runs of the server.  Two callers are enough to leave an answer for the
  other; three commands let a command time out, a second be answered over the new
  connection and a third meet what is left; two runs give one stale socket and an
  outage.  The answers are the shapes the reader tells apart.
- `ServerController`: two users, three operations, one exit or start from outside.
  Every pair of operations interleaves, with one more before or after; the crash or
  the host's start can strike once.
- `AccountStore`: two browsers, three names, two passwords besides the seeded one,
  four rows ever, six calls.  The run starts from a fresh file or from a table with two
  administrators; six calls are enough to add an account, sign in with it and cross a
  third call.
- `ServerSettings`: two browsers, two keys, two values, two values typed, two saves,
  one stop.  Two saves of up to two keys overlap in every way; the poll is unbounded.
- `Whitelist`: two browsers, two accounts, two changes staged, two saves, one restart or
  write of the Minecraft server.  Two saves of up to two players overlap in every way.
  The constraint `OneHarm` leaves out what follows a second kind of harm: the properties
  promise nothing of such states.  With
  `whitelist_removed` one change and one save are enough.
- `AddonPage`: the folders hold a copy of an assembly, a library, a plugin that needs a
  later file's assembly, a native, a damaged and an unreadable file, and a plugin in a file
  named like the framework's; three visits let an
  old page's call end before, between and after those of two newer ones.
- `ConsolePage`: two handlers at a time, one click, polls without bound, two lines of the
  log of which one is shown, two of the echo, one batch or call the browser has not
  answered.  That is an action or a command with the read after it, and any number of reads
  before, across and after it, each through the cache.  Two clicks are beyond what the
  liveness check can do in its time; batches have no part in `ActionIsShown`, and the
  invariants are proved for any number of handlers, clicks and batches.
- `ReconnectModal`: three calls, so that one overtakes the other two; two drops and two
  outages, so that a page that is back can be lost again in another way.

Deadlock checking is off because the bounds on operations stop every behaviour in
the end; that calls do not get stuck is what `EveryCallReturns` and
`EveryOperationEnds` say.

### Fairness

`RconClient!FairSpec`: weak fairness of each caller's steps (the runtime resumes an
await that can complete, and `CancelAfter` fires) and strong fairness of entering the
gate (`SemaphoreSlim` does not pass a waiter over for ever).  Nothing is assumed of the
server or the network.  `ServerController!FairSpec` is the same with one step per
await: RCON calls return because of the former, Docker calls because `HttpClient` has a
timeout, the wait for the exit because of its deadline.  `AddonPage!FairSpec`: weak
fairness of the loader, which is code of the app, and of the `Load` calls it awaits.
The second half is an assumption about plugins the code does not enforce: a `Load` that
never returns keeps the app from starting.  `AppStarts` is what holds once they do.
`ReconnectModal!FairSpec`: weak fairness of Blazor's client (a call is answered or throws,
an attempt of its own ends), of the browser loading a page, of the server, which is back in
the end (the outages are bounded), and of a user who changes tabs now and then, presses
Resume when it is shown and reloads an error page.  `ConsolePage!FairSpec`: weak fairness of
the page opening and of its timer while it polls, of each handler's calls (RCON and Docker
calls have timeouts, so a call comes back), of the 750 ms of the cached listing passing, and
of the browser answering while the page is open.  Nothing is assumed of the user, nor of
the gate: a handler may be passed over for ever as long as others read.  Of the Retry button nothing is assumed:
`ComesBack` is about the listener that is there in its place.

## Theorems

For all values of the constants, checked by TLAPS.

- `RconClientProofs`: `TypeCorrect`, `MutualExclusion`, `FailedCallsSawAnOutage`,
  `CommandsFollowLogin`, `OwnAnswers`, `ServiceImplemented`, `PromisesKept`, `RunsOnce`,
  `FinalAnswers`.  `GateInv` (the gate is 1 exactly when nobody holds it) makes
  types and exclusion inductive.  `AttemptInv` and `OutageInv` tie a second attempt
  that finds the connection gone to an outage since the caller got the gate.
  `LoginInv` says that an open connection on which nobody is logging in has logged in:
  the deadline's `Close` is what keeps it true.

  `OwnInv` is about the wire: ids are fresh; at most one request is on its way, and a
  command on its way is of the caller that reads; whatever on the wire carries that caller's id
  carries its command.  Answers left over from earlier calls may lie before it, and are
  told apart by their id.  `CountInv` bounds the copies of a
  command, run and still to run, by the attempts of its call.  With both, every step of
  the client is a step of `RconService` or a stutter (`ServiceStep`):

  | `RconClient` | `RconService` |
  |---|---|
  | `ExecuteAsync` | `Ask` |
  | the last read of an answer | `Answered` |
  | failures and the deadline | `GaveUp`, with the copy sent if there is one |
  | a failure the second attempt hides | `GiveUpCopy`, or a stutter if nothing was sent |
  | `HandleCommand` of the connection in use | `RunAsked` |
  | `HandleLateCommand` of one that was closed | `RunOverdue` |
  | the server going down | `LoseOverdue` |
  | everything else | a stutter |

  `PromisesKept` is what this is for: `KeptToCallers` and `RunsWhatIsOwed` are proved of
  `RconService` alone (`PromiseStep` and `OwedStep` know nothing of connections), and the
  client inherits them.  They are what `ServerController` takes an RCON call to be.

  `RunsOnce` and `FinalAnswers` have hypotheses: `Acceptable(Replies)`, that the server
  sends no packet of a length the client refuses (`RconClient.cs:198`), and for the second
  `SplitWhenFull(Replies)`, that only the last packet of an answer is short
  (`RconClient.cs:168`).  Both are necessary: an over-long packet makes the client send the
  command again, and after a short first packet the client leaves with half an answer.
  `PlainReplies` satisfies them (`PlainAssumption`, which `rcon_plain` evaluates).
  `OnceInv` and `FinalInv` are added to the invariants above: while the server stays up, a
  caller that is not reading from a live connection has no copy of its command anywhere;
  and a short packet is the last of its answer.
- `ServerControllerProofs`: `TypeCorrect`, `StoppingIsHeld`, `ListingsAreRecent`,
  `StopsHold`, `TimeoutsAreStarts`, `RestartsRestart`.
  `CacheInv` bounds the age of the cached listing and of every listing on its way to
  the cache by the last `Invalidate`.  `StopInv` and `RestartInv` follow a stop from
  Docker's answer to its end: as long as it was not revived the container is down, and a
  container that is down comes up only through `ContainerStarts`, which makes a new run
  (`UpByStart`).
- `AccountStoreProofs`: `TypeCorrect`, `IdentityHolds` (from `NamesAreUnique` and
  `ClaimsHold`), `FlagsHold` (from `SeededIsFlagged` and `FlagsTell`),
  `AdministratorStays`.  Cookies hold because an
  Id is never used twice and a username never changes (`ClaimsInv`, for the calls of a
  sign-in too).  The administrator remains because some account is `Safe`: an
  administrator no call past its count is about to remove.  `FlagsTell` rests on what a call
  past its read knows: the flag it read is the flag of the row unless it was overtaken.
- `ServerSettingsProofs`: `TypeCorrect`, `SavesSerialize`, `LinesAreKept`,
  `ShownStored`.  `SerialInv`: without harm at most one page is between its read and its
  write, and what it will write is the expected file with its key changed.  `ShownStored`
  goes from the file to the array to the rows: a load that is not late agrees with the file
  (`LoadsAgree`), so does the array unless it is stale (`ArrayAgrees`), and so do the rows of
  a page that is not behind (`RowsAgree`).
- `WhitelistProofs`: `TypeCorrect`, `ListStaysUsable`, `StoredAsSaved`, `RemovedStayOff`.  `UsableInv`:
  without an overlap or a failed write there is one change at a time, the file is empty
  only in its write, and no load has read it then.  `SerialInv`: without harm the list of
  a page in its change, and what it writes, is what all changes have made of it
  (`expected`); between changes the file is, too, and so is the list unless the file was
  written by others since (`unseen`).  `RemovedStayOff` is the other side of finding 2:
  whoever was on the list at most once, and only as Mojang writes the id (`OnceAndPlain`), is
  off it after a removal that met nothing else.
- `AddonPageProofs`: `TypeCorrect`, `SidebarIsRight`, `PluginsAreOnRecord`,
  `PagesShowTheirOwn`, for every folder.  `RecordInv` counts the records: a plugin has one exactly when its assembly is
  in the process, was put there by the loader itself, and the plugin is not left to do.
  Copies of a file keep it true because an assembly is loaded once.  `LastCallInv`: as long
  as no call was overtaken, the calls a page still awaits end with the one for the slug it
  shows, or the answer to that one is on it.
- `ConsolePageProofs`: `TypeCorrect`, `ClosedCorrect`, `PanelCorrect`, for any
  number of handlers.  `ClosedInv`: a page closed after its script had come has no button,
  and a tick that was due is the one turn left.  `OrderInv` and `FollowInv`: the
  counts of lines the panel was scrolled at only grow, in the order the calls were made, so
  the newest is the count of what the browser shows once every batch is confirmed, unless
  lines not yet rendered were counted (`ahead`) or the limits keep the count where it is.
- `ReconnectModalProofs`: `TypeCorrect`, `WayBackCorrect`, `LivePageCorrect`,
  `ReloadCorrect`, for any number of calls.  `WayBack` is the safety half of `ComesBack`:
  after Blazor has given up, a retry is under way or the listener is there.  `CircuitInv`
  says what a refusal on its way means about the circuit, unless calls have crossed.

Assumed: the named assumptions of each module (bounds are naturals, the seeded password
is shorter than a chosen one, the default value is a value, copies of an assembly are
alike and a type is in one assembly), which TLC evaluates in
every run.

Model-checked only: liveness (`EveryCallReturns`, `EveryOperationEnds`, `AppStarts`,
`ComesBack`, `ActionIsShown`), which needs fairness.  Every safety property a passing run checks is a
theorem.

## Findings

1. `RconServerController.cs:336`: the banner is cached under the container's
   `StartedAt`, which changes before the log does: a snapshot that reads the log in between
   keeps the old banner for the new run.  The model has two more ways to an old banner,
   which need no run of their own: the check and the two assignments of lines 331 to 337
   are not synchronised, so that one snapshot's version may be filed under another's
   `StartedAt`; and without Docker, or when inspecting fails, `StartedAt` is null, null
   equals null, and the banner read first is kept (`VersionIsCached`).
2. `ServerWhitelistStore.cs:37`: the entry to remove is compared with Mojang's answer,
   whose id has no dashes; an entry the Minecraft server wrote is never removed, and the
   page says it was.  The only other way is a second entry: two pages that stage the same
   player put two in, and a removal takes out one (`RemovedStayOff`).

Noted without a run, each at the exception its property states:

- `UserService.cs:147`: a reset and the owner's own change that overlap may leave either
  password with either flag, because a flag that reads as it should be is not written
  (`crossed` in `FlagTellsWhoChose`).  The tag "Has not changed the password it was created
  with" (`Users.razor:57`) is shown after a reset too, and never on accounts an
  administrator created.
- `ServerSettings.razor:158`: an edit is there "only while it differs from what is
  stored": `Set` compares with the rendered record, so with another page's save in between
  an edit may equal what is stored, or a value typed to restore it be dropped.
- `RconClient.cs:99`: a command that ends the server is reported as done when the
  connection was lost before it was written; the first `catch` hides the failure from the
  retry for stale sockets.  `RconService` allows it, and `StopSticks` holds because
  Docker's stop follows.
- `UserService.cs:172` and `192`: the check for the last administrator and the removal are
  two queries; two administrators can remove each other
  (`AdministratorRemainsUnlessOverlapping`).
- `AddonPage.razor:67`: an error of `GetSectionsAsync` for one addon page that arrives after
  the browser has gone to another is shown on that other page, against the comment in line
  66 (`overtaken` in `SectionsAreOfThePage`).
- `Home.razor:259`: the panel is scrolled when the number of lines changes.  At the limits
  of the log and the echo a new line pushes out an old one and the number stays; and lines
  that a handler has put in its fields but not rendered are counted with those that were.
  Either way the panel misses "any render that added output" (`Home.razor.js:1`).
- `Home.razor:252`: a page closed while its script is being imported has no poll to cancel
  yet; the poll that starts then is never cancelled (`rushed` in `ClosedPageFallsQuiet`).
- `Home.razor:349`: "keeps the buttons quiet while it works" is true of one action; of two
  at once the first to end wakes them.
- `ReconnectModal.razor.js:44`: the catch of a retry that fails after another has connected
  the page registers the listener again, and the next return to the tab retries on a
  connected page (`crossed` in `LivePageIsLeftAlone`).

## What the properties leave out

Several properties say what the code keeps to outside the very interleaving it does nothing
against.  There they name the exception, in a history variable, and what they establish is
that nothing less breaks the code: that the exception is the only one.

| Property | Holds except after | Variable |
|---|---|---|
| `AdministratorRemainsUnlessOverlapping` | a removal counted while another was past its count | `overlaps` |
| `FlagsAreKept` | a reset and a change that overlapped, until the next call | `crossed` |
| `SavesAreSerial`, `LinesSurvive` | a read in another's span or of a truncated file, a write cut short, the server's own write | `harm` |
| `ShownIsStored` | another's write, a load that ended late, a failed save | `behind`, `failed` |
| `SavesAreStored`, `ListIsUsable` | changes that met, a failed write, an old list | `harm` |
| `EveryPluginIsOnRecord` | an assembly loaded out of turn | `brought` |
| `SectionsAreOfThePage` | an older call that ended after a newer | `overtaken` |
| `LivePageIsLeftAlone`, `ReloadsOnlyLostPages` | calls of `retry` or `resume` that overlapped | `crossed` |
| `PanelFollows` | lines dropped at a limit, or counted before they were rendered | `ahead` |
| `ClosedPageFallsQuiet` | a page closed during the import | `rushed` |

## Not modelled

Markup, formatting, localisation, the bytes of packets, JSON and hashes; session
lengths and uptime, which are shown and never acted on; cancellation tokens other than
deadlines, since no caller passes one; Blazor's circuits themselves.  The parts of the
table without a module are below.  `API/src/wwwroot/exampleJsInterop.js` is the project
template's example, which nothing imports.

## Plan

Done: 1 `RconClient` with `RconService`; 2 `ServerController`; 3 `AccountStore`;
4 `ServerSettings`; 5 `Whitelist`; 6 `PluginRegistry` and `PluginLoader`, with
`AddonPage`; 7 `ReconnectModal`; 8 `ConsolePage`; each with its runs, mutants and theorems.

Left, in this order:

9. `AddonSections`: the settings, table, form and action sections on one plugin file: a
   section that loads, is edited and saves while another writes the same file through
   `ServerPluginFiles` (read, change, write).  Abstract specification: edits of one file,
   one after the other.
10. `LogDates`: the dating of a tail across midnight, as a recursive function checked
    against a definition (the dates of the lines never decrease and end at the last
    write), over all short tails.
11. `Yaml`: quoting of scalars, the lines a path names, and the splicing of an edit, as
    functions on small documents: what is read back is what was written, and the other
    lines are untouched.

Theorems to come: the file invariants of module 9.
