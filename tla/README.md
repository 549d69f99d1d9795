# Verification of nat-backup

nat-backup is a self-hosted backup manager. One server process keeps jobs and
their history in PostgreSQL, schedules the jobs, and talks over websockets to
agents that run the backups on their machines and upload the archives. This
directory holds TLA+ models of its concurrent core and of the web interface,
TLC configurations that check them on small instances, and TLAPS proofs that
hold for every size.

All paths below are relative to the root of the repository.

## 1. Inventory

| Part | State | Operations | Source |
|---|---|---|---|
| Hub | map agent → connection, two bounded channels, a send channel per connection, `agents.status` | `Register`, `Unregister`, `Run`, `reconcileOffline`, `DispatchJob`, `BrowsePath`, `UpdateAgent`, `CancelJob`, `writePump` | `internal/ws/hub.go`, `ServeHTTP` in `internal/ws/handler.go` |
| Backup runs | `backup_runs` rows, the agent's tasks and their cancel functions, messages in flight | insert and dispatch, `executeJob`, `sendFailure`, `handleAgentMessage`, `handleCancelRun`, retention | `internal/ws/handler.go`, `internal/api/runs.go`, `cmd/agent/main.go`, `internal/notify/retention.go` |
| Scheduler and jobs API | `backup_jobs` rows, the cron object, `entryIDs` | create, update, toggle, delete, trigger, `AddJob`, `RemoveJob`, `triggerJob`, `loadJobs` | `internal/scheduler/scheduler.go`, `internal/api/jobs.go` |
| Run logs and console | subscribers and their channels, the ring of the last 500 console lines | `BroadcastRunLog`, `ConsoleHub.Write`, subscribe, replay, stream, unsubscribe | `internal/ws/hub.go`, `internal/api/console.go`, `internal/api/runs.go` |
| Browsing | table of callers waiting for an answer; the browser's directory, history and query | `BrowsePath`, `DeliverBrowseResult`, `handleBrowseAgent`, `handleBrowse`, navigation | `internal/ws/hub.go`, `internal/api/agents.go`, `cmd/agent/main.go`, `web/src/components/FileBrowser.tsx` |
| Agent session | the connection, read deadlines, pings, heartbeats | `connect`, the reconnect loop | `cmd/agent/main.go` |
| Self-update | the executable, a temporary file; the button's state and timers | `handleUpdateAgent`, `selfUpdate`, the Update button | `cmd/agent/update.go`, `internal/api/agents.go`, `web/src/pages/Agents.tsx` |
| Backup pipeline | a stream through archive, compression, encryption | `BackupFiles`, dumps, `EncryptStream`, `DecryptStream` | `internal/backup/` |
| Storage, upload | files, S3 objects, SFTP files | `Upload`, `handleUpload` | `internal/storage/`, `internal/api/upload.go` |
| Settings | the row of `notification_settings` | a save: DELETE and INSERT in a transaction | `internal/api/settings.go` |
| Other API, authentication | rows; tokens that the server does not remember | one statement per request; login, the JWT middleware | `internal/api/` |
| Web: lists and dialogs | cached lists, one form per page, requests under way | Jobs, Storage, Agents, Settings pages | `web/src/pages/` |
| Web: console and run history | sockets, a timer, a pause buffer; a drawer that follows a log | Console and Runs pages | `web/src/pages/Console.tsx`, `web/src/pages/Runs.tsx` |
| Web: session | the token of `localStorage`, a copy in each tab | login, logout, refusals, navigation | `web/src/lib/`, `web/src/App.tsx`, `web/src/pages/Login.tsx` |
| Web: dashboard, components | none that outlives a rendering | figures, formatting | `web/src/pages/Dashboard.tsx`, `web/src/components/` |

How they meet: the API and cron goroutines call the hub; the hub's channels
carry commands to the agent; the agent's reports return through the read loop
of its handler, which updates rows and broadcasts log lines; the console is an
`io.Writer` behind the `log` package, so every goroutine that logs calls it. The web interface calls the API, refetches its
lists by intervals and after its own changes, and follows two websockets.
Shared state is the hub's map (under `mu`), the subscriber lists (under
`logMu` and the console's `mu`), the scheduler's map (under `mu`), and the
tables, which every goroutine reads and writes statement by statement without
transactions.

What is hard here, and hardly reached by the tests (which start a hub without
database and without a second connection): a reconnection that races with the
end of the old connection; sends that follow a lookup after the lock is gone;
several statements that the code treats as one; reports that meet a broken
connection, a cancel, a deleted row or a restart; copies of a job that outlive
their row; readers that join a stream while it is written. In the web interface
nothing is tested: handlers run one at a time, but answers, the events of
sockets and timers arrive in any order, after a dialog was dismissed or a page
was left, and what they find in the state of the page is not what their request
left there. `hazards` in PROJECT.json lists them at their lines.

What makes each part correct:

- Hub: an agent has one connection, the newest registered; a channel is closed
  once and only after its reader has finished; nothing accepted is lost by
  closing; `online` is never left behind without somebody to take it back.
- Runs: `success` only for an archive that exists; a running row always has
  somebody who will end it; an alert excludes success; accepted runs end.
- Scheduler: a job has at most one cron entry, the one `entryIDs` names; what is
  scheduled is what the rows say.
- Log streams: the ring is the tail of the log; replay and stream join without
  a gap; a viewer learns that its run ended; dead viewers are freed.
- Browsing: an answer reaches the caller that asked, or nobody; a directory is
  shown with its own entries; a caller that gave up holds nobody.
- Self-update: the executable is a whole release, as long as updates do not overlap
  and the host keeps its data; the button of a row does not stay disabled.
- Lists and dialogs: a page shows the changes it was told of; a dialog shows
  what it will overwrite; a secret that is shown once stays until it is read;
  saved settings do not vanish, and typing is not overwritten.
- Console and run history: one connection, no line lost by pausing or
  reconnecting; the page reconnects; a cancelled run is not shown as running; a
  drawer follows the log of its run (which the code does not achieve).
- Session: a session that ended in one tab does not come back in another.

## 2. Modules

| Module | Contents |
|---|---|
| `AgentRegistry` | abstract: what the hub's map promises, without channels, goroutines or tables |
| `Hub` | the hub, its handlers, pumps and callers; implements `AgentRegistry` |
| `RunLifecycle` | a run from its row's insertion to its end, on server and agent |
| `Scheduler` | the jobs API against the cron object |
| `SchedulerHistory` | `Scheduler` with a history variable: which jobs were raced, orphaned or missed a read |
| `LogFanout` | the run-log stream and the console stream, on the server |
| `Browse` | browsing an agent's directories, from the browser to the agent and back |
| `AgentUpdate` | the update of an agent: the button, the request, the files on the agent's host |
| `QueryCache` | one query of the web interface's cache; used by every page |
| `ListPage` | what the pages with a list have in common: the cached list and the requests that change its rows |
| `JobsPage`, `StoragePage`, `AgentsPage` | the dialogs and buttons of each page, on top of `ListPage` |
| `JobForm` | what is typed into the dialog of a job |
| `SettingsPage` | the Settings page and the transaction that saves |
| `AdminPages` | the five modules above, composed: a behaviour is of one page |
| `ConsolePage` | the Console page |
| `RunsPage` | the Run History page, and its drawer up to the refusal of its socket |
| `Session` | the tabs of a browser and the token they share |
| `HubProofs`, `RunLifecycleProofs`, `SchedulerProofs` (with `SchedulerHistory`), `LogFanoutProofs`, `BrowseProofs`, `AgentUpdateProofs` | theorems about the module they are named after |
| `ConsoleAdminProofs` | theorems about `ConsolePage` and about `AdminPages` with the modules it composes |
| `RunsSessionProofs` | theorems about `RunsPage` and about `Session` |
| `MCHub`, `MCRunLifecycle`, `MCScheduler`, `MCAdminPages` | the symmetry sets and the functions the runs give to constants |
| `MCPages` | the same, for `RunsPage`, `Browse` and `AgentUpdate`: a behaviour is of one of them |

Each operation of the code is cut where the code can be interrupted with an
effect: an SQL statement, a channel operation and a critical section under a
lock are one action each, and what a goroutine does between two of them
belongs to the next one. Local variables that survive such a cut are state
(`hubArg`, `suspects`, `target`, `snap`, `trow`, `judging`, `wsubs`, `reader`). On
the web pages every event handler is one action, with the rendering and the
effects it causes, because JavaScript runs it to its end.
Operators named as a faulty variant (`AnyCurrent`, `JoinRunLate`,
`LoadAlways`, ...) are not part of any specification; PROJECT.json substitutes
them for the definition they vary to show that a property notices the mistake.

### Hub

A connection goes through `hpc`: `free` (upgraded, no hello), `authed`,
`online` (the row was updated), `reading` (`Hub.Register` was called), `leaving`
(the read failed), `gone` (`Hub.Unregister` was called). `registerQ` and
`unregisterQ` are the two channels, `agents` the map, `closed` the connections
whose `send` was closed, `sendBuf` and `pump` the send channels and the
goroutines that drain them. `Run` is `HubRegister`, `HubUnregister` followed by
`HubMarkOffline`, and `Reconcile` followed by one `ReconcileMark` per stale row.
A call is `Lookup` (under the read lock) and `Send` (after it); `SendResult` is
`"panic"` on a closed channel, as in Go. `Restart` loses the memory and runs the
UPDATE of `cmd/server/main.go`. `Agents` are never reused: they are UUIDs.

`RegistrySpec` is the refinement: `registry` is `agents`, `fresh` the connections
that may still enter the map, `left` those whose handler has finished.

### RunLifecycle

`status` is the row's status, `dispatch` what became of its command, `toAgent`
and `toServer` the messages on the way, `task` and `ctx` the goroutine of
`executeJob` and its context. The SELECT and the UPDATE of `job_failed` are
`HandleFailed` and `RecordFailure`, those of `handleCancelRun` are
`CancelCheck` and `CancelWrite`. `Dial` and `Hello` are apart because the agent
publishes its connection before hello is sent, so that a report of a running
task can arrive first. `lost` is a history variable: runs whose command, task
or report was lost. Three constants switch faults on: `LinkFaults`, `Crashes`,
`DbFaults`.

### Scheduler, SchedulerHistory

A row is reduced to what scheduling depends on: `enabled`, whether cron can parse
the expression, what became of the passphrase, and `rev`, which counts the
writes. A request is `idle`, `written` (after UPDATE), `loaded` (after the SELECT
that follows) or `removing` (after DELETE). `AddJob` and `RemoveJob` run under
the scheduler's lock and are one step. A trigger holds the copy of the row it
fired with (`trow`). `SchedulerHistory` adds `raced`, the jobs of which the
code cannot be expected to keep the schedule right since the last restart:
two requests on the job overlapped, the job went with its agent, or the
SELECT after the UPDATE failed.

### LogFanout

The two streams have the same writer (copy the subscribers and, for the
console, append to the ring, under the lock; then send to each without it)
and almost the same viewer (subscribe, then look: at the ring or at the run's
status; then forward). Console lines are numbered. `missed` is a history
variable: lines that a full channel dropped or a panic took away. A send to a
channel that was closed since the copy is `SendPanics`.

### Browse

A request of the browser is a call: its handler goes through `phase`: `sent`,
`registered` (in `browseReqs`, the hub's table), `waiting` (the message is with
the agent), `ok` or `failed`. `ch` is the channel of capacity one that
`BrowsePath` makes. A `browse_path` message on its way and the goroutine
`handleBrowse` it starts are one element of `tasks`, its answer one of `results`.
`DeliverBrowseResult` looks the caller up under a lock and sends without it: in
between the call is in `reader`, during which the caller may time out. A query's
key is the agent and the directory; turning to another one aborts the request
(`awaited`), but the handler goes on. Request identifiers are UUIDs: a call is
reused only when no message carries it any more.

### AgentUpdate

The page has `updatingId` (one row), `updatedIds` and the timers of five seconds;
a request whose page was left is no longer `mine`. On the host `exe` and `tmp` are
what the two names name, and a file is what was written of its parts, so that
`os.Create` truncating a file another goroutine writes, a rename while it is
written and a descriptor that outlives the name are all there. A goroutine is
`asked`, `open`, `renamed`; `Exec` starts the agent anew without its goroutines,
and so does a crash of the agent. A crash of the host also loses data: `unsynced`
are the files the system has not written out (`Sync`), of which any part may
remain (`Remains`); `selfUpdate` syncs nothing before it renames. The same may
happen at `Rename` itself, because the error of `Close` is not looked at. The two
names are taken to be on the disk at once: a rename that a crash of the host undoes
leaves the old executable. `overlapped` and `torn` (the host lost data of what is
the executable) are history variables; `HostFaults` switches the host's faults on.

### The pages

`QueryCache` is external: TanStack Query with the defaults `web/src/main.tsx`
sets. A query has `data`, a `fetch` (`sent`: the server has not read its tables,
`answered`: it has, the page has not received it), a mark `invalid` and an error.
An invalidation cancels a fetch under way unless it is the first; an aborted
fetch leaves no trace; a page that is entered fetches what is missing or invalid,
and other data if it is old.

`ListPage` reduces a row to a revision (0: not inserted, `Gone`: deleted), so that
the list shown and what a request was told can be compared (`acked`). A request
is `sent`, then `ok` or `refused` when the server has acted, and ends with a
callback on the page that sent it, on another page or nowhere (`mine`, `last`:
the callbacks of `mutate` run only for the last request of a mounted component,
those of `useMutation` always). `Elsewhere` is another browser or an agent. `JobsPage`, `StoragePage` and `AgentsPage` add the React state
(`ui`). A form is known by the row it was filled from (`of`), a destination's
configuration by its type, an agent's key by its agent. `JobForm` has what the
fields of a job's form do to each other.

`SettingsPage` has the form and, in `BeginDelete`, `Delete`, `Commit` and `Rollback`,
the transaction at READ COMMITTED: a DELETE waits for another transaction that
deleted the rows it found, and does not see those the other one inserted.
`raced` says that two saves overlapped.

`ConsolePage` gives each received line an id, as the code does. A closed socket
that nothing refers to is reused. `Unmount` leaves the sockets and timers behind,
whose handlers still run. Of the server it has one stream, of the socket in use
(`peer`): `due` is on its way to the page, in the order in which it will arrive,
and `sending` is what writers have noted the subscriber for and not sent yet
(`ConsoleHub.Write` sends after it has released the lock). `SendLine` takes any of
them, so that lines overtake each other, and drops what finds the channel full or
closed (`dropped`). `HangUp` is a handler that ends while the browser still takes
the socket for open, `Restart` the server with an empty ring (`start`). What was
out of the ring when the connection began is `forgot`. `dropped`, `forgot` and
`seen`, the lines this visit received, are history variables: a line is known by its
number, which the page does not see.

`RunsPage` has the list and the buttons that cancel, with the two statements of
`handleCancelRun` apart (`CheckCancel`, `MarkCancelled`), and the drawer, which keeps
the run as it was in the list (`selected`). The drawer's socket asks for its stream
with the `Credentials` that `useLiveLogs` gives it, which are none, and
`jwtAuthMiddleware` (`Admits`) answers 401: the socket ends in `onclose`. No line of
a log ever arrives, and so there is no action for one.

### Session

`stored` is `localStorage`, `token` each tab's copy. Setting `location.href` only
starts a navigation (`leaving`): handlers run until `Unload`. A request carries the
token that was stored when it was made; `Refused` removes whatever is stored when
the answer arrives. Pages are `polling` (Agents, Runs) or `quiet`. A polling page
whose tab the user turned away from is `hidden`: `refetchInterval`, without
`refetchIntervalInBackground`, waits there, although other requests (`Request`) may
still be made.

## 3. Runs

| Run | Instance | States | What it shows |
|---|---|---|---|
| `HubSafety` | 2 agents, 2 connections, 2 calls, channels of 1 | 147 000 | `TypeOK`, `RegistryOpen`, `OnlineHasHandler`, `ExitDrained`, and that the hub implements the registry |
| `HubLive` | 1 agent, 2 connections, 1 call, failing updates | 18 000 | no handler waits for ever; stale rows are repaired; accepted messages are written |
| `RunSafety` | 2 runs, 1 cancel request, every fault | 148 000 | `VerdictMatchesArchive`, `RunningIsOwned`, `AlertIsDeserved`, and `RunsEnd` under fairness |
| `SchedulerSafety` | 2 jobs, 2 requests, 1 trigger, cascades and failing statements | 182 000 | `OneEntryPerJob`; `ScheduleMatches` for every job not raced |
| `FanoutSafety` | 1 viewer, 2 writers, 3 lines in a ring of 2, channels of 1 | 140 000 | `RingIsTail`, `ConsoleHasNoGap`, `ViewerLearnsEnd`, and `GoneIsFreed` under fairness |
| `PagesSafety` | runs: 1 run, 2 cancels, 1 socket; browsing: 2 agents, root and one directory, 2 handlers, a history of 2; updates: 2 rows, 2 requests, 2 goroutines, 2 files of 1 part, faults of the host | 1 062 000 | `CancelIsShown`; `ShownIsOf`, `ReaderNeverWaits`; `ButtonRecovers`, and `ExecutableWhole` for downloads that do not overlap and a host that keeps the executable's data |
| `AdminSafety` | per page 2 requests and 1 row of 2 revisions (agents: 2 rows inserted or deleted; storage: 1 request); 2 saves | 1 547 000 | `ReadYourWrites`, `DialogIsWhole`, `ConfigIsOfDestination`, `SourceFitsType`, `KeyIsNotReplaced`, `TypingIsKept`, `ConfigurationStays`, `LastSaveWins` |
| `ConsolePageSafety` | 2 sockets, 1 line kept, a replay of 2, 3 lines logged and 4 received, restarts | 246 000 | `OneConnection`, `BadgeTellsTruth`, `NothingLost`, `NoLineSkipped`, and `Reconnects` under fairness |
| `SessionSafety` | 2 tabs, 2 tokens | 186 000 | `SignOutHolds`, and `EndsAtLogin` under fairness |
| `SchedulerSecret`, `RunCancelRace`, `RunsPageLive` | one job or run, no fault | | violations, below |

The instances are small because the hazards are: a reconnection needs two
connections, a race two requests, an overtaking two messages, a wrapped ring
one line more than its size, a console socket left behind one more than the one
in use. `PagesSafety` has one run and one socket, because neither the sockets
nor other runs matter to what the list says of a run; its two requests cancel
it twice. A channel of capacity one is already full after one message, so
blocking and dropping happen; capacities 16, 64 and 512 only delay them. The
same holds of the lists of the console page (2000 lines kept, 500 replayed):
with one kept and two replayed, lines are cut off while paused and a replay
both repeats and misses lines. Counters that had to be bounded: `MaxRev` and
`MaxRevs` (writes of a row), `MaxLines` and `MaxIds` (console lines),
`MaxSaves`, `MaxTrail` (the browser's history), `MaxSignals` and `MaxTimers`
(updates on their way to a host, timers of a row), `Parts` and `Files` (a
download; the two files are the executable and a temporary one, which a second
download shares or creates anew when the first was renamed). Most bounds leave
room for one more than the case needs, a second revision after the one that was
read, a second save after the first. `FanoutSafety` has one viewer: what it
does not show is that a writer that panics at the channel of one viewer also
takes the line from the others. The proofs are about any number. A viewer of a
run's log in `LogFanout` is a client that can send an `Authorization` header,
which a browser cannot (`RunsPage`).

Deadlock is checked where somebody can always do something (`PagesSafety`,
`AdminSafety`, `ConsolePageSafety`, `SessionSafety`). In the others
connections, runs or log lines are used up, and a system at rest is the normal
end.

Three runs end with a violation of what a comment or a document says; `findings` in
PROJECT.json has the details:

- `SchedulerSecret`: the design promises "Optional AES-256-GCM encryption with
  per-job passphrase", but a job just created is scheduled without its passphrase.
- `RunCancelRace`: "Skip update if already cancelled by user" says the handler of
  `job_failed`, but the update it skips is a statement of its own, and a cancellation
  that is written before it is overwritten.
- `RunsPageLive`: the README promises live logs in the run history ("logs en vivo"),
  but `useLiveLogs` sends no token and its socket is refused, each time. The run has no
  failing connection and one run; were the token sent (`Credentials` "bearer"), the
  property would hold.

Other things the models contain that a reader of the code should know, none of
which is stated as a property, because it would be false:

- A send to a channel that the hub, or a viewer, closed since it was looked up
  panics (`Hub`, `LogFanout`).
- If `select` takes the unregister of a connection before its register, a dead
  connection stays in the map until the agent comes back; a late unregister of a
  replaced connection shows the agent offline until the next message or
  reconnection (`Hub`).
- A cancellation is also overwritten by a `job_done` that comes after it; a report
  made without connection is dropped, and the run stays `running` (`RunLifecycle`).
- Two overlapping requests may schedule a job that is disabled (`Scheduler`).
- Two updates that overlap share a temporary file, and the first to finish makes a
  partial one the executable (`AgentUpdate`), although the comment of the rename says
  "Atomically replace" (`cmd/agent/update.go:59`).
- A host that goes down after the rename of an update may come up with an executable
  that is not whole, and nothing restarts the agent then (`AgentUpdate`).
- Two overlapping saves leave two rows of settings (`SettingsPage`).
- "All run history will be preserved" (`web/src/pages/Jobs.tsx:469`), but the
  rows of runs are deleted by cascade with their job.
- Editing a destination's name alone saves an empty configuration, because the
  configuration never comes back from the server (`StoragePage`). The passphrase of
  a job is like it (`web/src/pages/Jobs.tsx:204`), but `JobForm` has no field for it:
  it is in no model of the page, only in the rows of `Scheduler`.
- A save that is answered late closes whatever dialog is then open (`JobsPage`).
- The console page repeats lines after a reconnection, shows lines out of order, and
  misses those a full channel drops, those a writer's panic takes and, after a
  restart, those of the server before; it shows up to 2001 of them
  (`web/src/pages/Console.tsx:49`).
- The drawer keeps the status it was opened with (`RunsPage`).
- Pages that do not poll, and hidden ones, stay on the screen after the session
  expired, and the console retries its refused connection for ever (`Session`).

### Fairness

- The Go scheduler runs every goroutine that can run, hence weak fairness of
  every step that, once possible, stays possible: a pump's write, a handler's
  UPDATE, a task's next stage, a viewer's receive.
- `select` chooses at random among ready cases and a goroutine blocked on a full
  channel is queued: strong fairness of `HubRegister`, `HubUnregister`,
  `Reconcile`, `EnqueueRegister`, `EnqueueUnregister`, which other cases can
  disable again and again.
- A database that fails does not fail for ever (strong fairness of a
  `ReconcileMark` that succeeds): without it no retry repairs anything.
- A write, a ping or a read on a dead connection fails in time: the code sets
  write deadlines and sends pings.
- Browsers run the timers and events that are due: the reconnection timer fires,
  a closing socket closes, a page that polls makes requests while its tab is visible,
  an answer is handled, a navigation ends (weak fairness). A hidden tab owes no
  request, and `EndsAtLogin` says nothing of one.
- A server that is up answers in the end, however often a connection or a
  request fails before (strong fairness of `OnOpen` in `ConsolePage`, of `Refuse`
  and `Refused` in `Session`, which a reload or an abort can disable again). In
  `RunsPageLive` a handshake that stays possible is answered (weak fairness).
- Nothing is assumed of users, agents' peers, triggers, the daily retention,
  faults, restarts, or what the host writes to its disk.

## 4. Proofs

TLAPS checks these for every value of the constants, from the assumptions named
in each module (capacities and the ring's size are positive, sentinels are not
members of the sets, `Jobs` and `Viewers` are finite, `files` is a type of job
and `local` a kind of destination). `ConsolePage` and `AdminPages`, and `RunsPage`
and `Session`, share a module of proofs: the specifications in it have no
variable in common, and each theorem is about one of them.

**Hub.** `TypeCorrect`, with the capacities. `HubInvariant`: `HubInv` says where a
connection can be against what holds it. `RegistryOpen` is not inductive: the
hub inserts the head of the register channel without looking at it, so a
connection that waits there must be open, waiting once, and in nobody's entry
(`Waiting`), which needs to know what is past `Hub.Register` (`Mapped`, `Young`,
`Parted`, `Handled`). `RegistryOpenHolds` follows. `ExitDrainedHolds` rests on
its own strengthening: a pump that ended normally has a closed channel, to
which nothing can be added. `OnlineHasHandlerHolds` names somebody who will
take `online` back, step by step. `HubImplementsRegistry` maps `HubRegister` to
`Attach`, `HubUnregister` to `Detach` or a stutter, `EnqueueUnregister` to
`Leave`, `Reject` to `Drop`, `Restart` to `Reset`, and the rest to stutters.

**Scheduler.** `TypeCorrect` includes that a request schedules only a row it has
read. `OneEntryPerJobHolds` rests on `EntryInv`: ids in `entryIDs` are distinct
and none is above `lastID`, so a new entry cannot take the id of another job's.
`ScheduleMatchesHolds` is about `SchedulerHistory`. The property says nothing of a
job while a request works on it, so it is not inductive: `HistInv` adds, for every
job outside `raced`, that one request at most works on it and what that request
has still to apply (`Pending`: after the UPDATE the row exists, after the SELECT
the copy read is the row, after the DELETE the row is gone). A step is then
either about the job, and discharges what its request owes, or leaves the job's
row, entries and requests alone (`JobUntouched`). `HistoryOnlyWatches` shows that
the history variable constrains nothing, so that `EntryInv` can be used.

**LogFanout.** `RingIsTailHolds`: the invariant `RingInv` gives the line at every
position: the newest below `head`, and from `head` on, once the ring has
wrapped, the ones before them; the loops of `snapshot` then read them in order.
`ConsoleHasNoGapHolds` and `ViewerLearnsEndHolds`: a line owed to a viewer stays
owed until it has it (`OwedKept`: sends move it from the writer to the channel
or to `missed`, receives from the channel to the browser); a viewer that joined
is subscribed (`JoinInv`), so new lines and the last line of a run are owed to
it; and what it was not yet owed it finds when it looks, because it looks
after subscribing.

**RunLifecycle.** `RunInv` is `Types` and, for each run, `Stage`: a run goes through
its stages in order, with one verdict. `VerdictMatchesArchive` needs to know that
an upload's report is on its way only for a stored archive, and `AlertIsDeserved`
that a run is reported once: the queues hold at most one command and one verdict
of a run (`Once`). The lemmas about what `Append` and `Tail` do to `Has` and `Once`
are stated first; then each action is shown to keep `Stage` of its run and to leave
the others alone.

**Browse.** `ReaderNeverWaits` and `ShownIsOf` rest on `BrowseInv`: a call is answered
once, being in one message or having its answer in its channel (`OneAnswer`), and
every message of a call that is under way is about what the call asks
(`MessageInv`, `CallInv`), which the browser shows (`AwaitedInv`).

**AgentUpdate.** `ExecutableWhole` is not inductive: `HostInv` adds that the two names
never name one file, that only a download has a descriptor, and that without
overlap there is one download at most, whose file is `tmp` and has just the parts
it has written, unless the host lost some of them; `Rename` and `HostCrash` then
leave an executable that is whole or `torn`. The theorem says nothing of a torn one,
because the code does nothing against it.

**ConsolePage.** `ConnectionInv` says of every socket and timer left behind that it
is dead or the page's own; `OneConnectionHolds` and `BadgeTellsTruthHolds` follow.
`LinesInv` numbers what is shown and withheld; `NothingLostHolds` follows.
`NoLineSkippedHolds` needs `StreamInv`: the server serves the socket in use, which is
then open, or none, and every line is `Accounted` for from the moment a connection
begins, because what the replay leaves out is what the server has forgotten
(`ReplayCovers`). A line then moves from `sending` to `due` or `dropped`, and from `due`
to `seen`; what ends a connection ends the claim, until the next one begins.

**AdminPages.** A behaviour is of one page, and a step changes the part of one module
(`AdminStep`), so the invariant has a part for each. `ListInv` is about what the
list pages share: a revision the page was told of is not newer than the server's
(`NewsInv`), an answer on its way and data that is not invalidated are not older
than what the page was told (`CacheInv`). The second needs the first, because an
answer takes what the server has when it reads, and it needs to know that a list
nobody observes is not fetched. The lemmas `NetworkMoves`, `SendMoves`, `DoneMoves` and
`VisitMoves` show that every step of the three list pages is one of `ListPage`
(`ListMove`), so that `ListInv` is proved once; `ReadYourWritesHolds` follows. The
dialogs have invariants of their own: `JobsInv`, `StorageInv`, and `KeyInv`, which
says that a page waits for one creation at most and for none while it shows a
key; `KeyIsNotReplacedHolds` is the action property that follows. `FormInv` adds that the
form fits its type before it is saved. In `SettingsInv`, `SavesInv` is what makes
`LastSaveWins` inductive: without an overlap one save at most is in its
transaction, and it deletes every row there is. `ConfigurationStaysHolds` needs no
invariant: a commit inserts a row whatever it deleted.

**RunsPage.** `CancelIsShownHolds` has the argument of `ReadYourWrites` with
statuses for revisions: a run that ended stays ended (`RowsInv`), and what the
cache holds or is about to receive shows it (`ListInv`).

**Session.** `SignOutHolds` is inductive together with the type: nothing but a login
that was granted stores a token, and the same step ends the time signed out.
`SessionTypeCorrect` says that a token stored, shown or carried was issued.

Only checked, not proved: liveness (`HubLive`, `RunsEnd`, `GoneIsFreed`,
`Reconnects`, `EndsAtLogin`), which the prover cannot do. Every invariant and every
action property of a passing run is a theorem.

## 5. Not modelled

- Time: deadlines, pings, heartbeats and timeouts are nondeterministic ends of
  connections and calls. That an idle agent's own read deadline is extended by
  neither the server's pings nor its own heartbeats needs a timed model.
- The backup pipeline and encryption, SMTP, S3, SFTP, file systems, dumps and
  compression: library calls and I/O. Their outcome (done, failed, done but
  reported failed) is in `RunLifecycle`.
- Configuration, secrets, migrations: straight-line code over libraries. The
  tables' constraints are in the modules that use them.
- Encryption of stored configurations and the agent key middleware: one function
  call, nothing interleaves.
- What a page only displays: the filter of the run list, the dashboard's
  figures, notices, the theme, copying, formatting, scrolling, errors of
  rendering. The dashboard is in `ListPage` and `RunsPage` as another observer of
  the lists.
- Several agents in `RunLifecycle`: a run concerns one agent; agents do not
  share anything but the hub, which `Hub` models with several.

## 6. Plan

What decides whether a backup is taken and correctly recorded came first (`Hub`,
`RunLifecycle`, `Scheduler`), then what observes it (`LogFanout`), then the other
exchanges with an agent and the web interface. What remains, in this order:

1. Proofs: an abstract specification of the cached list that `ListPage` and
   `RunsPage` both implement, in place of the two invariants that resemble
   each other.
2. `KeepAlive`: a timed model of the two deadlines, the server's pings and the
   heartbeats.
3. A composition of scheduler, hub and runs: a scheduled job that is due is
   dispatched to the connection the agent has.
4. `Encryption`: the frames of `EncryptStream` and what `DecryptStream` accepts.
