# A formal model of BlackVueSync

BlackVueSync copies recordings from a BlackVue dashcam to a directory, once from
the command line or for ever as a small web server with a scheduler. This
directory models its core in TLA+, checks the models with TLC and proves the
main results with TLAPS. Paths below are relative to `src/`; a bare file name is
under `src/blackvuesync/`.

- [Reading order](#reading-order)
- [Inventory of the system](#inventory-of-the-system)
- [The sync engine: SyncRun and Archive](#the-sync-engine-syncrun-and-archive)
- [The service: SyncService and JobBoard](#the-service-syncservice-and-jobboard)
- [The settings: SettingsStore and Register](#the-settings-settingsstore-and-register)
- [The live log: LogStream](#the-live-log-logstream)
- [The dashboard: ProgressStream](#the-dashboard-progressstream)
- [The viewer: ViewerIndex](#the-viewer-viewerindex)
- [Metrics and statistics: RunRecords](#metrics-and-statistics-runrecords)
- [Signing in: SignIn](#signing-in-signin)
- [Runs, bounds and what they show](#runs-bounds-and-what-they-show)
- [Fairness](#fairness)
- [Proofs](#proofs)
- [Disagreements between the code and what is said of it](#disagreements-between-the-code-and-what-is-said-of-it)
- [What is not modelled](#what-is-not-modelled)
- [Plan](#plan)

## Reading order

| Module | What it is |
| --- | --- |
| `Archive.tla` | What a sync promises about the destination: abstract, 60 lines. |
| `SyncRun.tla` | `sync.py`: one run after another against the destination and a dashcam that may answer anything. |
| `MCSyncRun.tla`, `MCSyncRun_*.cfg` | Small instances of it. |
| `SyncRun_proofs.tla` | Its theorems; `SyncRun` implements `Archive`. |
| `JobBoard.tla` | What the server promises those who ask about its syncs: abstract, 75 lines. |
| `SyncService.tla` | `sync_runner.py`, `progress.py`, `api_sync.py`, `scheduler.py`, `__main__.py`: who may sync, and what the server says about it. |
| `MCSyncService.tla`, `MCSyncService_*.cfg` | Small instances of it. |
| `SyncService_proofs.tla` | Its theorems; `SyncService` implements `JobBoard`. |
| `Register.tla` | What the server promises about its settings: abstract, 80 lines. |
| `SettingsStore.tla` | `settings.py` and who uses it: updates from several requests, a save that may be cut off anywhere, listeners. |
| `MCSettingsStore.tla`, `MCSettingsStore_*.cfg` | Small instances of it. |
| `SettingsStore_proofs.tla` | Its theorems; `SettingsStore` implements `Register`. |
| `LogStream.tla`, `LogStream_proofs.tla` | `log_buffer.py`, `api_logs.py`, `sse.py`, `logs.js`: a page that follows the log. |
| `ProgressStream.tla`, `ProgressStream_proofs.tla` | `progress.py`, `api_sync.py`, `dashboard.js`: a dashboard that follows a sync. |
| `ViewerIndex.tla` | `viewer_index.py`, `api_viewer.py`: cached listings of directories that change. |
| `ViewerIndex_proofs.tla` | Its theorems. |
| `RunRecords.tla`, `RunRecords_proofs.tla` | `metrics.py`, `stats_store.py`, `api_stats.py`: what is left of a run. |
| `SignIn.tla`, `SignIn_proofs.tla` | `auth.py`, `routes/auth.py`, `api_auth.py`: attempts, lockouts, sessions. |
| `MC*.tla`, `MC*_*.cfg` | Small instances of each of them. |

A module begins with its constants (and a named assumption about them), then
its variables, `Init`, one action per step of the code in the order of the code,
the next-state relation, the specifications with their fairness, and the properties,
the type invariant first. What is inductive, and only serves the proofs, is at the head of the proof module
(`Inv` and the parts it is a conjunction of). A few definitions are marked *a wrong variant*:
each is what the definition below it would be after a plausible mistake
(a forgotten guard, a swapped order). No specification uses one.
`PROJECT.json` ("mutants") says which of them each property must catch, so that
no property is there that could not fail.

## Inventory of the system

Three kinds of process touch the state: the **server** (`cmd_serve`: waitress
threads, an APScheduler thread, one sync thread at a time, timers), **command
lines** (`cmd_sync`, e.g. from cron, on the same destination) and the
**dashcam**, an HTTP server on the other side of an unreliable network.

| Component | State it keeps | Operations | What makes it correct |
| --- | --- | --- | --- |
| Sync engine (`sync.py`) | the destination: recordings and sidecars under their final names, dotfile partials, `.failed` markers, group directories; module globals for the run's settings and its stop flag | `sync`, `prepare_destination`, `get_dashcam_filenames`, `prune_orphan_partials`, `download_recording`, `download_file`, `clean_destination`, `lock`/`unlock` | a final name only ever holds a whole file; a partial is always something a later run may resume; retention is respected; failures are retried, but not too soon; a run ends |
| Sync runner (`server/sync_runner.py`) | `_sync_lock`, `_current_job_id` | `trigger_sync`, `_run`, `_do_sync` | one sync at a time; each gives the lock back; its outcome is shown under the id the caller got |
| Progress publisher (`server/progress.py`) | snapshot, file counts, retention timer, subscribers' queues of two | `begin_job`, `set_total`, `start_file`, `update_bytes`, `finish_file`, `skip_file`, `end_job`, `subscribe`, `_reset_to_idle` | counts add up; an old timer never wipes a new job; subscribers see the end of a job |
| Sync API (`server/routes/api_sync.py`) | none | now, stop, progress, last | a 409 names the running job; a stop stops the job it answers for |
| Scheduler (`server/scheduler.py`) | the APScheduler job, paused or not | tick, reschedule on a settings change | the schedule in force is the one in the settings |
| Command line, server process (`__main__.py`) | process lifetime, log handlers | `cmd_sync`, `cmd_serve` | a shutdown does not cut a sync short |
| Settings store (`settings.py`) | current settings, `settings.json`, listeners | `get`, `update`, `on_change`, `_save`, `_load`, bootstrap from the environment | memory, file and listeners agree, over crashes |
| Log buffer (`server/log_buffer.py`, `routes/api_logs.py`, `server/static/js/logs.js`) | ring of records, sequence numbers, subscribers | `emit`, `snapshot`, `subscribe`, `set_capacity` | a page that reads the backlog and then the stream repeats nothing, and misses only what overflowed |
| Event streams (`server/sse.py`) | count of open streams | acquire, release, heartbeat | a slot is given back once, however the stream ends |
| Authentication (`server/auth.py`, `routes/auth.py`) | password hash, session version, attempts and lockouts per address | first run, login, logout, password change | the first run is won once; an old session dies with its password; attempts are bounded |
| Statistics (`server/stats_store.py`) | rows per run in SQLite | record, prune, query | what the page's range shows is what was recorded |
| Metrics (`metrics.py`) | a state file, a textfile for Prometheus, what a Pushgateway holds | load, save, write, push | the time of the last pull is a true one and survives; a failing sink does not change the run's result |
| Viewer index (`server/viewer_index.py`) | directory listings cached by modification time, the views merged from them | refresh, lookup, `journey_chain` | what is there is found, what is stale is not trusted |
| Forecast, GPS, accelerometer (`server/forecast.py`, `gps.py`, `gsensor.py`) | none | pure decoding and arithmetic | numeric |
| Pages, cards, health (`server/routes/*`) | none | rendering | formatting |

How they interact, in the order of one scheduled sync: the scheduler's thread
calls `trigger_sync`, which tries `_sync_lock`, clears the stop flag, names the
job and starts a daemon thread. The thread copies the settings into `sync.py`'s
globals, takes `.blackvuesync.lock` with `fcntl` against other processes, and
calls `sync()`, which tells the publisher `begin_job`, works, and tells it
`end_job`. The publisher starts a 10 s timer that will reset it to idle. The
thread then cleans the destination, unlocks, shows the job as failed if it was
never begun, writes metrics and statistics and releases `_sync_lock`. Meanwhile
web requests read the snapshot, set the stop flag, or call `trigger_sync`
themselves; and the process may be told to end.

What is hard about it, and hard to test: resuming over several runs with
truncations, wrong ranges and kills in between; markers and partials that one
step leaves and another removes; two locks of which each covers only half of
the rivals; check-then-act pairs over the publisher's snapshot; a timer against
the next job, and against the thread's own end; a process that exits under its
daemon threads; queues that drop what does not fit, under pages that
filter what they have seen; listings trusted by their modification time;
several processes that write one file after they have left the lock.
`PROJECT.json` ("hazards") lists each at its line.

## The sync engine: SyncRun and Archive

A file is a pair of an artifact kind and what it is named after: a video and a
thumbnail are named after the recording, the accelerometer and gps files after
the *shot* (timestamp and type), which the front and the rear recording share.
That sharing is kept, since it is what makes the counts and the markers
interesting. A file's bytes are `Size` blocks numbered in order; a content is
the sequence of block numbers it holds, so a wrong resume, a repeated block and
a missing one are all visible. The directory is three variables (`final`,
`partial`, `marker`) and the set of group directories `dirs`; a name is absent
when it is not in the domain. Of what a marker says only one thing matters:
whether it tells a time within `retry_failed_after` (`recent`, a part of `marker`).

`pc` follows `sync()`:

| `pc` | Code | Actions |
| --- | --- | --- |
| `idle` | between runs | `Start` |
| `prepare` | `prepare_destination` | `RemoveOutdatedFile`, `RemoveOutdatedMarker`, `DestinationPrepared`, `RemovalFails` |
| `list` | `get_dashcam_filenames`, `get_current_recordings`, filters | `ListRecordings`, `ListingFails` |
| `prune` | `prune_orphan_partials`, `set_total` | `PruneOrphan`, `OrphansPruned`, `RemovalFails` |
| `next` | the loop of `_sync_recordings`, disk check | `NextRecording`, `DiskTooFull`, `AllDone` |
| `file` | the loop of `download_recording`, `_precheck_download` | `SkipMetadata`, `AlreadyDownloaded`, `DryRunFile`, `RecentlyFailed`, `SendRequest`, `GroupDirFails`, `RecordingDone` |
| `again` | `download_file`, called by itself after a partial had to go (`Restart`): `_precheck_download` once more | `AlreadyDownloaded`, `RecentlyFailed`, `SendRequest`, `GroupDirFails`, counted as of a file that was started (`NoTransferNeeded`) |
| `request` | `urlopen`, `_resume_decision`, `_handle_http_error` | `AnswerWhole`, `AnswerRest`, `AnswerWrongRange`, `AnswerUnsatisfiable`, `AnswerHttpError`, `ConnectionFails`, `TransferFails` |
| `mark`, `write` | `mark_download_failed`: the marker is opened, and so created or emptied, then the time is written | `OpenMarker`, `WriteMarker`, `MarkFails` |
| `stream` | `_stream_response` | `WriteChunk`, `StopSeen`, `EndOfBody`, `TransferFails` |
| `close` | the truncation check and `os.rename` | `Truncated`, `Install`, `RenameFails` |
| `clean` | `clean_destination` | `CleanFile`, `CleanMarker`, `CleanDir`, `RunOver` |

In any place the process may be killed (`Kill`: the disk survives, the last
block of an open partial may not have reached it), asked to stop
(`RequestStop`), and a failure may grow old (`WindowPasses`). The settings of a
run (`opt`, `cutoff`) and what the dashcam lists are chosen anew for each run:
settings change between runs, recordings roll off the dashcam and come back.
Loops over a set of files (old recordings, orphans, a removed directory) take
one file per step in any order, as `glob` and `rmtree` do, so a kill can fall
between any two.

Abstractions, each with its reason:

- The dashcam is honest about content: a body is the file from the block it
  starts at, perhaps cut short. It answers 206 only to a request with a range.
  What it *says* (status, `Content-Range`, lengths) is arbitrary within that,
  which is all that the code looks at. A recording does not change on the dashcam.
- The time in a marker is no number: it is within `retry_failed_after` (`recent`) from the
  writing of the marker until `WindowPasses`, which may come at any time.
- Two sets are history. `cooling` has the files whose last failure that reached its marker is
  within the window; `swept` has those of them whose marker something else than the passing
  of the window has put out of effect: retention (`RemoveOutdatedMarker`), cleaning
  (`CleanMarker`), or a marker that could not be read or removed
  (`RemoveDownloadFailedMarker`). No guard looks at either.
- The check whether a path is writable, the hash of names, the parsing of the
  dashcam's index and of filter codes are not modelled: `Listings` is the
  result of all of it.
- A fault is any of: an error answer, a lost connection, a disk operation that
  raises, a kill, a stop. `MaxFaults` bounds them in a behaviour; going on
  without one is never bounded.

`Archive` is the promise to the user: a file absent from the archive appears in
one step, whole and not older than the limit (`Store`); it goes only when it is
older than the limit (`Expire`), or is a sidecar of a group without videos
(`Discard`). `SyncRun` refines it with `archive <- final`, `limit <- cutoff`.
The steps that resume, restart, truncate, prune or mark all map to stuttering,
and that is what the refinement says about them: none is visible.

## The service: SyncService and JobBoard

State and actions correspond to the code as follows.

| Variables | Code |
| --- | --- |
| `locked`, `currentJob` | `_sync_lock`, `_current_job_id` |
| `caller[c]` | a thread inside `trigger_sync`, one place per access to shared state (`AnswerBusy`, `ClearStop`, `NameJob`, `SpawnThread`) |
| `thread[j]`, `result[j]` | the place of job `j`'s thread in `_run`/`_do_sync`/`sync`, and how its sync went |
| `fileLock`, `outsider` | `.blackvuesync.lock` and the command lines that want it |
| `pub`, `handle`, `timer` | the publisher's snapshot, `_retention_timer`, and each job's `threading.Timer` (off, waiting, or past its wait and going for the publisher's lock, where `cancel` no longer helps) |
| `stopFlag`, `stopper` | `_stop_event`, and the `stop_sync` requests between their read and their write |
| `server` | up, stopping (waitress has returned), down |
| `shown`, `asked`, `stopped` | history, for the properties only |

An operation of the publisher is one step, because it holds the publisher's
lock throughout; an operation on a lock, a flag or a global is one step; and
between any two of them another thread may run. The fact that `fcntl` locks
belong to a process is modelled as such: a thread of the server gets the file
lock when the server has it already (`TakeFileLock`), so that exclusion between
two threads must come from `_sync_lock`.

`CleaningIsQuick` states a timing assumption instead of building it in: when it
is TRUE, the timer of a job does not fire while its thread is still between
`end_job` and the check in `_do_sync`'s `finally`, i.e. `clean_destination` takes
less than 10 s. `ResultShown` needs it, and is checked and proved under it;
[below](#disagreements-between-the-code-and-what-is-said-of-it) is what happens
without it.

What a sync does to the destination is left to `SyncRun`: the place `download`
stands for all of it, with either result. The two modules meet at four points:
`SyncRun!Start` is `SyncBegins`, its `outcome` is `result`, its `RunEnds` is the
fairness of `Work`, and its `stop` is `stopFlag`.

`JobBoard` is the promise to those who ask: the threads, both locks, the timers and the requests to stop are left out, and
what remains is one board on which each job's story is told once. A job begins (`Begin`)
only when none is shown as running and only if it was never shown; how it went is settled (`Settle`) while it is shown, unless it failed
before it began; it is shown to end that way (`End`), and wiped off later (`Forget`). What is shown as running is taken off only by
an end of the process (`Outage`), which counts it among the jobs that are `lost`: those whose thread is dead. `BoardSpec` says that `SyncService`
implements this, with `pub`, `shown` and `result` for `board`, `told` and `fate`.

## The settings: SettingsStore and Register

A settings object is a function from fields to values, and a value is the
number of the update that gave it: what the properties ask is which update is
in force where, never what it says. State and actions correspond to the code as
follows.

| Variables | Code |
| --- | --- |
| `memory`, `holder` | `SettingsStore._settings`, the owner of its lock (`Boot` for the constructor) |
| `saving`, `target` | the place in `_save`, and the settings it writes |
| `file`, `tmp` | `settings.json` and `settings.json.tmp`, as a process reads them |
| `durable`, `dirty` | what a power loss may leave under the first name, and which of the two files has data that is only in the system's cache |
| `thread[u]` | a request: its place, the fields it changes, what it saw before the lock, the old and new settings its listeners get, the next listener |
| `applied` | what each listener last installed: the signing key (`_apply_session_secret`), the trigger (`init_scheduler`), the log level (`_register_logging_reload`) |
| `server`, `promised` | the process; what an answer has told or a start has saved (history) |

| Actions | Code |
| --- | --- |
| `Load`, `BeginBoot` | `_load_or_bootstrap`: a whole file with a secret is taken, one without gets a secret and is saved, none is made from the environment and saved |
| `Read`, `Update`, `Reject` | a handler looks at the settings (`redirect_to_first_run`, `patch_section`), then `update` takes the lock and applies its mutation, or validation fails |
| `OpenTmp`, `WriteTmp`, `SyncTmp`, `Replace`, `SyncDir`, `WriteFails`, `InstallFails` | `_save`; a failure before the replacement may remove the temporary file, one after it leaves the new file in place and the old value in memory |
| `Commit` | `self._settings = new`, release of the lock; at a start, what `cmd_serve` sets up from the settings |
| `Notify`, `ListenerFails`, `Answer` | the loop over the listeners outside the lock, and the response |
| `Kill`, `PowerLoss`, `Flush` | outside the program |

Abstractions: `chmod` and `os.replace` are one step, since nothing reads the
mode in between. What sections hold, how they are validated, the migration of
older schemas and the check of the file's permissions are left out; a request
that is rejected is any request. A file found at the first start has no secret
and no password (all 0), as an older release or an operator may leave it. After
a power loss each of the last two names of the file is possible, and data that
was not synced may be missing. `Load` and `BeginBoot` take the file as they find it, as
`_load_or_bootstrap` does: after a kill between `os.replace` (`settings.py:866`) and the `fsync` of
the directory (870), or after a failed `fsync`, a start may put settings in force whose name a power loss
can still take back. The start writes nothing then, so it promises nothing: `promised` grows by
an answer and by a start that has saved.

`Register` is the promise to whoever relies on the settings: threads, the lock, the temporary file, the places of a save
and the listeners are left out, and what remains is a register that outlives the server. New contents are stored first
(`Store`: made of what is in force, or of what is on the disk before anything is, and not older), then made safe
(`Secure`), and an update comes into force only then (`Adopt`); a start takes what is stored, safe or not, and promises it at most
when it is safe (`Start`); somebody may be told of what is in force and safe (`Promise`); the server ends (`Stop`), and a
power loss may take back what was stored but is not safe (`PowerLoss`), never what was promised. `RegisterSpec` says that `SettingsStore` implements this
with `inForce` the memory of a running server, `stored <- file` and `safe <- durable`. So it says of all the steps of a
save, its failures included, in which order they must show: that no update comes into force before it is safe, that none is made of
settings that are not in force, and that a field never goes back while the server runs (`NoUpdateUndone` follows).

## The live log: LogStream

A log line is its number. A page is followed from its first snapshot
(`RenderPage`, the rows the server paints) over the snapshot the stream sends
first and the queue it then drains, with the watermark by which the page tells
what it has shown, reconnections, and the end of the server process.

| Variables | Code |
| --- | --- |
| `boot`, `seq`, `lines`, `capacity` | `BOOT_ID`, and `LogBuffer`'s counter, ring and size |
| `queue`, `subs` | the queue of each subscription, and which are registered |
| `active`, `slot` | `_StreamLimiter.active`, and which `release()` has not been called yet |
| `place`, `reader` | where each stream stands between `sse_response` and the closing of its response, and whose connection it serves, if anyone's still |
| `page`, `bootId`, `lastSeq`, `net`, `shown` | the page of a client: open, waiting or broken; `_bootId`, `_lastSeq`; frames on their way; the rows it was given |
| `missable` | history: lines that overflowed a queue with a reader, or were overwritten before the client asked |

| Actions | Code |
| --- | --- |
| `Emit`, `Reconfigure` | `emit` under the buffer's lock, with a `put_nowait` on every queue; the settings listener's `set_capacity` |
| `Accept`, `Refuse` | `sse_response`: a slot, or 503 |
| `Subscribe`, `Snapshot`, `Drain`, `Heartbeat` | `subscribe()` registers first, then the ring is read, then batches; each takes the lock for itself |
| `CloseUnstarted`, `CloseBatches`, `EndGuarded`, `CloseResponse` | a response that never began, the generator's `finally`s, `call_on_close(release)`: `release` is asked for twice and works once |
| `InitPage`, `OpenStream`, `Receive`, `LoseStream`, `Leave` | `logs.js`: `init`, `openStream`, `onFrame` (`syncBoot`, `appendLines`), `onStreamError` |
| `Restart` | the process ends, another `BOOT_ID` |

`GapFitsQueue` is TRUE when fewer lines than a queue holds (`QueueMax` in the
model, 2048 in the code) are logged between the `subscribe()` and the
`snapshot()` of one request; otherwise the overflow lies within the
snapshot, which the model's `missable` does not tell from other overflow.
Levels, filters, texts and scrolling are left out; so is the swap of log
handlers, on which nothing here depends.

## The dashboard: ProgressStream

A snapshot is known by its `last_event_monotonic` and the state it shows: what
a page does with it depends on nothing else. The sync thread reads the clock
*before* it takes the publisher's lock (`ReadClock`, then `Report`), so a
snapshot may replace one that is newer.

| Variables | Code |
| --- | --- |
| `clock`, `pub`, `writer` | `time.monotonic()`, `_state`, and what the sync thread has read but not yet reported |
| `job`, `begun` | where the sync stands, as far as `SyncService` lets it |
| `stream`, `queue`, `sent` | each `subscribe()` generator: before its first step, waiting for its queue of two, or timed out; the stamp it sent last |
| `net`, `source`, `view`, `body`, `newest` | frames on their way, the `EventSource`, what the page shows, `body[data-state]`, `_lastMonotonic` |
| `linger`, `reconnect`, `click` | the page's pending timers and its POST |

`Publish` drops a snapshot where the queue is full, and `Update` may be throttled.
`Heartbeat` is two steps, the timeout of the queue and the lock. The page's
callbacks (`Receive`, `RevertToIdle`, `LoseStream`, `ScheduleReconnect`,
`SyncNow`, `SyncNowAnswered`) are atomic, as JavaScript runs them, and come in any order.
`RetentionIsLong` states that `POST_COMPLETE_RETENTION` (10 s) outlasts the
cleaning after `end_job` and the way of an answer to the button;
`HostMayReboot` lets the monotonic clock start again with the server.

## The viewer: ViewerIndex

| Variables | Code |
| --- | --- |
| `clock`, `disk` | the server's clock; each directory's existence, `mtime` and files |
| `live` | which `RecordingIndex` the settings call for |
| `lock`, `cache`, `scans`, `views` | `_lock`, `_dirs`, `_scans`, `_views` of each index |
| `walk` | the refresh under way: the time it began, directories to come, listings collected, the one between `stat` and `scandir` |
| `req` | each request: `gps` or `journey`, before, in or after its refresh, and its answer |
| `always`, `ever` | history: what was there at every, and at any, moment since the request began |

`AddFile`, `RemoveFile`, `MakeDir` and `RemoveDir` are what syncs, retention and
cleaning do to the directories between any two steps of a walk. They write a
modification time that may be up to `Skew` behind the server's clock and is rounded to
`Granule`: that two changes may have the same one is what `_RACY_MTIME_WINDOW_NS`
is for, and `WindowAssumption` (`Skew + Granule <= Window`) is what that constant,
2 s, must outlast. Refreshes are `Acquire`, `StatDir`, `ScanDir` (the scan is later than
the stat, and later still than the reading of the clock), `Merge`. A journey is
two refreshes, with anything in between (`LookUpChain`), maybe in another index
(`ChangeSettings`). `JourneyChain` is the run of the sorted entries (`OldestFirst`, by the order of
`Precedes`: Python's sort is stable, so entries of one instant keep the order of the listing) from the first that is the
start to the last before a gap; `Reached` defines what it should give without an order.

The tree has two levels, as the destination has: a group directory holds no other.
Flags in names, thumbnails, the calendar and the recordings page are left out: they read
the same views.

## Metrics and statistics: RunRecords

What remains of a run is in five places, written after the lock is released:
the state file (`state`), the metrics file with its temporary file (`file`,
`temp`), the Pushgateway (`gateway`), the table of runs (`rows`) and the exit
code (`run[r].exit`, and `given` at the end). `fd[r]` is what the file that run `r` has open has become meanwhile: the
temporary file, the metrics file after somebody's `os.replace`, or nothing that
has a name. `overlap` and `clash` record whether two runs were ever under way,
or ever reported, at once.

`Start` loads the state, before the lock; `Lock`, `Pull`, `SyncReturns`, `SyncRaises`,
`Clean` and `Unlock` are the frame of `cmd_sync` and `_do_sync` with their `except`
and `finally` clauses (`Classify`, `ExitCode`); `Finalize`, `OpenState`, `WriteState`,
`OpenTemp`, `WriteTemp`, `Replace` and `Push` report; `RecordRun` and `Prune`
are the server's alone. A file that is opened for writing is `Torn` until it is
written, and a text written over one that another run wrote may leave an end of it.
`Kill` may fall anywhere. A state file that is `Foreign` is one this program did not write: JSON but no object, or no
UTF-8. `load_metrics_state` raises on it, outside the `try` of `cmd_sync` (`LoadFails`). A command line that is over
keeps the error its `try` block ended with, what it gave its caller (`given`: the exit code, or `Traceback`), and
whether it met a foreign state file or a gateway that does not speak HTTP (`alien`). A user's interrupt is
modelled where `sync` runs. The dashcam and the files are `SyncRun`'s, the lock between
threads `SyncService`'s.

## Signing in: SignIn

Mode `login`. A browser is a client at an address of its own; a password is known by its
version, so the session version of a cookie is the password it was issued for.

| Variables | Code |
| --- | --- |
| `failures`, `locked` | `_failure_timestamps`, `_locked_until`: functions from addresses to entries; an entry's `turn` is its place in the order of insertion, by which the pruning drops |
| `turns` | the failures recorded so far, which gives the next entry its turn |
| `password`, `cookie` | the hash in the settings; the session in each browser's cookie |
| `thread` | each request: checked, verified, cleared, answered, and the session it loaded and will set |
| `failed`, `dropped`, `proved` | history |

A login or a change of the password is `Ask`, `Authorize` (`login_required`), `CheckLockout`,
`ReadHash`, `VerifyFails` or `Change` or `LoginMatches`, `ClearFailures`, `Respond`:
one step for each use of `_rate_limit_lock`, of the settings, and of the cookie.
Flask keeps the session in the cookie, so a response puts back what its request
loaded unless the handler changed it: `Respond` does that. The first run and the
key that signs cookies are in `SettingsStore`; modes `none` and `proxy` keep no state.

## Runs, bounds and what they show

Run with `tlc -config X.cfg M`. State counts are of distinct states.

| Run | Question | Instance | States |
| --- | --- | --- | --- |
| `run_download` | Do final names only hold whole files, do the counts agree, is a failed file left alone for its window, does every run end and the archive become complete, whatever happens to a download? | a front and a rear recording of one shot, a video and the shared accelerometer file, 3 blocks, 4 faults, disk errors | 217k |
| `run_retention` | Do old files stay away while a run downloads, does a dry run keep every file, are partials beginnings of files when lengths may be missing, is each step one that `Archive` allows? | two shots on two days in two groups, a limit that comes and goes, dry runs, skipped thumbnails, any listing, 2 blocks, 3 faults, disk errors | 3.06M |
| `svc_safety` | One sync at a time, shown to end as it did, each step one that `JobBoard` allows; no acknowledged stop lost, the lock given back, an ended job forgotten? | a web thread and the scheduler, a stop request, a command line, 2 jobs, one end of the server, threads that may not start | 265k |
| `set_safety` | Is an answered update ever lost, the first run won twice, and is each step one that `Register` allows, so that no update comes into force before it is safe and none undoes another? | two requests; a password, a secret and a schedule, each changed alone; two listeners that may raise; 4 values; any failure of a save, any kill or power loss | 464k |
| `log_follow` | Are rows in order, none twice, none missing but what overflowed; do lines arrive; are slots given back? | one page, two ends of streams, one slot, queues of 2, a ring of 1 or 2, 3 lines a process, a restart, a lost connection | 161k |
| `prog_dashboard` | Does a page always have a way back to a stream, catch up when updates pause, rest when syncs are over? | one page, queues of 2, 2 jobs, a restart or a lost connection | 487k |
| `view_lookup` | Is what a listing trusts true, and what lookups find neither stale nor short; are journeys and tracks complete? | the destination and a day, there at first or not; two videos in sequence and the track of one; a window of one tick, 2 changes, 3 lookups, 2 indexes | 3.75M |
| `rec_reports` | Is the time of the last pull true and kept, the metrics file whole, what a command line returns the result of its sync, the page's series complete? | a state file that is missing or foreign at first, the server and a command line, 3 runs, a failure or a kill anywhere, two retentions, two ranges | 10.4M |
| `auth_login` | Are tables bounded, lockouts deserved, attempts bounded, sessions earned? | three browsers, two threads, 5 passwords typed, another request, tables of 2, a threshold of 2 | 5.0M |

Three more runs, `run_v_window`, `set_v_followers` and `prog_v_reboot`, end in a violation each, on purpose: see
[below](#disagreements-between-the-code-and-what-is-said-of-it).

Why these bounds reach the interesting cases:

- **Three blocks** are the least with a partial that is neither empty nor one
  block short of whole, so a resume can start in the middle, be cut again and be
  resumed again. **Four faults** allow a truncation, a wrong range whose removal
  of the partial fails, a kill, and one more. With the variant `AppendWhole`,
  `ResumeAnything` or `TrustEndOfBody` in place two faults are enough to go wrong.
- **Two recordings of one shot** are the least at which a file is counted twice
  and exists once (`SkipFile`, `CountersAgree`) and at which a sidecar outlives
  the video it came with.
- **Two days and two groups** are the least at which retention removes one and
  keeps the other, an emptied directory is removed while another stays, and an
  orphan of an earlier listing lies beside a partial that is resumed.
- **Two jobs** are the least at which the timer, the stop or the id of one job
  meets the next; **one end** of the server at which a job of an earlier
  process exists. A third job meets only the second in the same way: every
  property speaks of at most two jobs at a time, and the proofs cover every number.
- A dashcam that may leave out lengths is in `run_retention` only, because `FinalIsWhole` is
  not to be had from it: the code itself can then not tell a short body from a
  whole one, and what is left is that a partial is a beginning. **Two blocks and three faults**
  there let a partial be cut, resumed and cut again.
- **A marker** is opened, written, cut off by a kill, found empty, swept and read in `run_download`: `RetryWindow`
  needs an error answer and another run, and two faults are left for what may go wrong between them.
- `Grouped = FALSE` is in no run: a flat destination has no directory to make and none to clean, so its
  steps are among the others'. The theorems hold for both.
- **Two requests and four values** are the least at which, after the start has
  given the first value, two updates race, both are answered, and a third meets
  a crash. **Three fields** let two updates change different ones and the same
  one; **two listeners** let one hear the updates in order and the other not.
- **Three lines, a ring of one or two and a queue of two**: the ring wraps, is
  resized under a reader, and the queue overflows while an earlier frame is on its way.
  **Two ends of streams and one slot**: the old stream, not yet noticed to be dead, holds
  the slot when the page asks again, and is refused.
- **Four readings of the clock** besides the beginnings and ends of **two jobs**: a frame
  dropped from a queue of two is followed by one that is not, and the second job begins before the first
  job's reset. One fault is a restart in any place, or a lost connection.
- **A window of one tick** with a granularity of one tick and no skew is the
  tightest that `WindowAssumption` allows: one less (the variant `RacyNever`) and a
  stale listing is trusted. **Two changes** can share a tick; **three lookups** are a
  journey and one whose cache an earlier one has filled. The proofs cover
  every window, tree and number of requests.
- **Three runs of two processes**: two overlap and a third finds what they left. One
  failure suffices for each exception the properties state; more only repeat it.
- **Three addresses and tables of two**: one address must go for another. **Five
  passwords and a threshold of two**: a lockout, its end, and another attempt.

Deadlock is checked in the runs of the sync engine, the service, the settings and the
log. There is none: between runs a new one can always start, a server that is down can always restart,
power can always be lost; a log reader's page and its server can always go on.
`prog_*`, `view_lookup`, `rec_reports` and `auth_login` say `CHECK_DEADLOCK FALSE`: their
models stop where the named bounds on clock, jobs, runs, lookups and
attempts are used up and every thread is idle, which is the end of the behaviours considered and no
state of the program.

## Fairness

`SyncRun!LiveSpec` is weak fairness of `Run`, the steps of the sync thread
taken together: one thread, whose blocking calls are `urlopen` and `read` on
sockets with `socket_timeout`, and file operations. It says that the thread goes
on, not which answer comes. `Start` and the passing of the retry window get
weak fairness of their own in `ServiceSpec` only, which `ArchiveCompletes`
needs: the scheduler triggers for ever, and time passes. Nothing is fair about
faults, kills and stops; they are bounded instead. `RunEnds` therefore says
"whatever the dashcam answers, as long as disk removals do not fail for ever":
`download_file` calls itself after a failed removal, and only a removal that
works in the end (or Python's recursion limit) stops that.

`SyncService!LiveSpec` is weak fairness of each caller inside `trigger_sync`, of
each sync thread and of each timer. The sync thread's `download` ends by
`RunEnds`. No fairness is assumed of triggers, stops, command lines, the end of
the server or its restart. `LockIsReleased` names its exception, a thread that cannot be
started and leaves the lock taken for good (`SpawnFails`).

`LogStream!LiveSpec` is weak fairness of each stream's worker thread, which wakes at
the latest after `HEARTBEAT_SECONDS`, and of each page's connecting, reading and
noticing that its server is gone. A page need not be opened or left, lines need
not be logged. That slots are taken by others is not unfair to a page that retries:
with one page, every slot that is out belongs to a stream of its own past, and
those end (`DepartedStreamsEnd`). For more pages than slots `LinesArrive` would not hold, nor
should it: they are refused.

`ProgressStream!LiveSpec` is weak fairness of the sync thread, the publisher's
timer, each stream, and each pending callback of a page. Losing a connection whose two ends
live, a restart and the button are not fair. `CatchesUp` speaks of updates that pause, and in the model
they do, since readings of the clock are bounded; while they go on a
page may for ever be one frame behind.

## Proofs

`tlapm` on each of the eight `*_proofs.tla` checks everything; SMT, Zenon and PTL suffice. Nothing
is assumed beyond the named assumptions of the modules proved about: the types of the constants, that there are finitely many
recordings (`FiniteAssumption`), directories and file names (`LibraryAssumption`, which also has that no two directories have one
name and no two instants of a type one time, since a recording is named for its time) and threads of the web server, that the lock file's holders
are distinct, that a missing or a torn file is no settings object, no time and no report, nor is a foreign state file, that an instant has one `.gps` file,
which is named for it (`SidecarAssumption`, `server/viewer_index.py:89`), and `WindowAssumption`. Each component's inductive invariant `Inv` begins with its type invariant and was
checked by TLC on the instances above before it was proved; the runs list the properties that follow from it.

**SyncRun.** `FinalIsWhole` is not inductive: whether `Install` installs a whole
file depends on the length check, that on `expected`, that on the answer and on
the length of the partial at the time of the request. `Inv` adds:

- every content under a final name is a beginning of the file (`Contents`);
- `PartialIsPrefix`, so that a length determines a content (`PrefixGrows`,
  `PrefixShrinks`): a body that starts where the partial ends continues it;
- `TransferInv`: between the request and its answer nobody changes the partial;
  an open partial is as long as what is on the wire; and `expected` is the size;
- `LoopInv`: what is in hand is in this run's listing, hence not an orphan and
  not too old, and is not under its final name yet;
- `RetentionInv`, which carries `RetentionHolds` from the removal of old files
  over the places where nothing is installed yet.

`NextInv` has a lemma for each action that disturbs a part of `Inv`; the others
are grouped by what they leave alone. From it:
`Invariance`, `TypeCorrect`, `Integrity` (`FinalIsWhole`), `Resumable` (`PartialIsPrefix`),
`CleanArchive` (`NoOrphans`, `RetentionHolds`), and `Implements`: `Spec =>
ArchiveSpec`, from `StepImplements`, which maps `Install` to `Store`, the two
removals to `Expire` and `Discard`, `Start` to `SetLimit` and all else to
stuttering. They hold for every set of recordings, every size, sort order,
retention limit and number of faults.

Three more rest on it. `CountsAgree` (`CountersAgree`): the count of what is left is a sum over the listing,
so `CountInv` must know that a file in hand is one of those that are left; `Left` is what
`NextArtifact` and the outcomes take one from. `DryRunIsHarmless` (`DryRunKeepsFiles`)
goes through all actions. `RetriesWait` (`RetryWindow`) follows a file that failed over
any number of runs: `CoolingInv` says that its marker still tells so unless it was swept, and that what is in hand beyond
`_precheck_download` is not such a file. `CoolingKept` and `CoolingStep` carry that through every action, `OnlySendRequest`
says that no other one sends a request. It needs no condition: the disk may fail, groups may be cleaned, the limit may move.

**SyncService.** `MutualExclusion` needs the two locks each with its owner:
`LockInv` (a caller that took the lock, or the one living thread it started,
never both) and `FileInv`. `JobInv` makes a new thread's id new. `UnbegunInv`
says that nothing is known of a job that has not begun, so that it can be neither
shown nor stopped early; `StopIsNotLost` follows from it, since the flag is only
cleared where no job is past its beginning. `RunningIsShown` is inductive with
`LockInv`: a timer that fires late finds a running job and leaves it
(`Superseded`). `ResultInv` is the timing argument: as long as the thread is
between `end_job` and its last check, the timer waits. From it: `Invariance`,
`TypeCorrect`, `Exclusion`, `Running` (`RunningIsShown`), `Stopping`, and `Surfacing`, which
assumes `CleaningIsQuick`.

Under the same assumption `Implements` is `Spec => BoardSpec`. The converse of `RunningIsShown`, that what is shown as running does
run, keeps a second job from beginning beside it and makes the end of the process an outage; `StoryInv` adds it, and that a job taken for one that
never began was indeed never shown, and that how it went is settled once. `StepImplements` maps `SyncBegins` and
`LateBegin` to `Begin`, `SyncEnds` and `LateEnd` to `End`, a failed `Configure` or `TakeFileLock` and the two ways a sync is over to
`Settle`, a timer that finds its own ended job to `Forget`, `Exit` and `Crash` to `Outage`, all else to stuttering.

**SettingsStore.** `PromiseKept` is about a file that a save is about to
replace, so it needs to know what is in the save's hands: `SaveInv` (at each
place of `_save`, which of the temporary file, the name and the durable name
hold the new settings), `LockInv` (one save at a time, made by the lock's
holder), and `OrderInv`, a chain: both names of the file are at least as new as
the memory, the memory as every promise and every value still on its way to
listeners, and what is being saved as the memory. `ValueInv` says that no value
is newer than the last one given, so that a mutation is always newer.
`FirstInv` says that an overtaken first-run form saves what is there.
Each action has a lemma with one step per conjunct. From it: `Invariance`,
`TypeCorrect`, `WholeFile`, `Durability`, and the action properties
`UpdatesLast` (`NoUpdateUndone`, which no run lists because `RegisterSpec` implies it) and `FirstRunWins` (`FirstRunOnce`), for every
number of requests, fields and listeners.

`Implements` is `Spec => RegisterSpec`. Most steps of a save change nothing the register knows of. A replacement is
its `Store`, which is where `OrderInv` is needed: what is put in place is not older than the memory it was made of and, at a start, than
the file that was found. The `fsync` of the directory is `Secure`; the `Commit` that follows is `Adopt` or, at a start, `Start`, of which `SaveInv` says that it finds
both names to hold the new settings (`CommitAdopts`). `Load` is a `Start` that promises nothing (`LoadStarts`). A response is `Promise`, an end of the
process `Stop`. That an answer tells of nothing unsafe (`AnswerIsSafe`) is in `OrderInv`: what is on its way to an
answer is on the disk under both names, though what is in force need not be. A failure after the
replacement (`InstallFails`) stutters: the register is then ahead of what is in force, and the next `Store` takes it back.

**ViewerIndex.** `TrustedIsTrue` is not inductive: that a directory still has the
modification time of its listing says that its contents are those of the
listing only if no change could have written the same time again. `ListingTrue` says
why: a listing that is not racy was made when its time lay at least `Window`
behind the clock, and stamps are written at most `Skew + Granule - 1` behind the clock, which never goes back;
so every later change writes a newer time, for as long as `WindowAssumption` holds. A racy listing may be
anything. `FoundIsCurrent` needs that the walk of an index is its lock's holder's (`LockInv`),
that an unchanged signature means unchanged listings, numbered by scan (`ViewsInv`), and that
whatever was there all along is listed, or lies where the walk will still come, perhaps by way of the root
(`WalkInv`, `HistoryInv`). `GpsIsServed` is inductive with it: of the directories that may have the instant there is
one, so that the lookup names it (`FoundInItsDir`), and the file that is read is the one that was looked up, still
there. From it: `InvHolds`, `TrustedIsTrueHolds`, `FoundIsCurrentHolds`, `GpsIsServedHolds`, for every tree of
two levels, every granularity and skew, and any number of requests and indexes.

`JourneyIsMaximal` is about lists first. `OldestFirst` sorts by counting: the place of an entry is the number of those
that do not come after it. That each place has one entry, so that the sorted list is a bijection that respects the order, is
the pigeonhole principle of the library's `FiniteSetTheorems`. In a list sorted by
strictly increasing times the entries from the start to the first gap are those that `Reached` defines: each of them is reached step by step,
and if one beyond the gap were reached, the earliest such one would have to be within `Gap` of the one
before it. "The earliest", "the first", "the last before a gap" exist by well-foundedness of the numbers (`Least`, `MinMax`), in
place of an induction over the list. `JourneyComplete` puts this together; `Told` says it of every journey that was answered, and no step
changes what one was made of. From it: `JourneyIsMaximalHolds`.

**LogStream.** `NothingLeaks` follows from `PlaceInv`: which streams have a slot and which a queue. That
rows neither repeat nor skip is a property of one chain that is broken over the ring, a queue, the frames on their way and
the page. `NetInv` says of every frame that it goes on from the one before it, or from what the page has shown
(`MarkBefore`), and that what lies between may be missed (`Covered`); `StreamInv` says so of the lines that are still queued,
counted from the last line that was sent (`EndMark`); `RingInv` and `PageInv` give the two ends. Each step moves a
piece from one place to the next. `Fresh` keeps the lines above the watermark: that it filters is proved by counting
(`FreshPicks`, `FreshFilters`, with `Least`, a least counterexample, in place of an induction), and TLC
compares it with `SelectSeq` (`FreshFilters` in `MCLogStream`). From it: `TypeCorrect`, `SlotsComeBack`, and, as long as
`GapFitsQueue`, `ChainsUnbroken`, `LinesShownOnce` (`RowsInOrder`) and `NoLineSkipped` (`NothingMissed`), for every
number of pages, streams, lines, restarts and lost connections, and every queue and ring size.

**ProgressStream.** `NeverAbandoned` is inductive. `OnlyBeginsLookStale` compares a frame with all a page has had before,
so `StaleInv` follows stamps from the clock to the page: none is ahead of the clock (`ClockInv`), what a job's thread
is about to report has the latest there is (`WriterInv`), and nobody has news later than the publisher's
state unless that is a job's first (`LatestInv`). From it: `TypeCorrect`, `DashboardsKeepLooking`, and `StaleIsFirst`, which assumes
`~HostMayReboot`; with a reboot it is false (`prog_v_reboot`).

**RunRecords.** `PullIsTrue` follows from the same of every place a time may come from or go to: each
run's metrics, and the temporary file, that another run may put in place (`PullInv`). `StepInv`
says so of any step that fills places from such places; each action is one of those, by `BusyInv`.
`ResultInv` says of each place of a run which error, exit code and outcome belong together: none before the sync is
over, from the `except` clauses on the code of the error it ended with (`Outcome`). The reports change none of the three
(`StepInv` asks it of every step, `LoadFailsInv` is the start that fails), so what is returned at the end is
the result of the sync. From it: `Invariance`, `PullsAreTrue`, and `ResultsAreKept` (`DeliveryKeepsResult`), without any condition.

Three more are inductive with what else they need. `TimesAreKept` (`StateKept`), for as long as no two runs overlap: a run that
has pulled anything has a later time than was ever kept, and whatever it loaded is the latest (`KeptInv`).
`MetricsStayWhole` (`MetricsFileWhole`), for as long as no two report at once: the temporary file is as the one that
reports has left it, and its report is later than any shown (`ReportInv`). `SeriesAreComplete` (`SeriesIsComplete`), without any
condition: the server's report is later than each of its rows, so that `INSERT OR REPLACE` replaces none (`RowsInv`).
They hold for every number of runs, kills and failures.

**SignIn.** A response sets the session its request loaded or earned, so `SessionIsEarned` needs to speak of
requests under way too: whatever one will set is none, or of a password its client has proved
(`SessionInv`), and proofs are never taken back. From it: `Invariance` and `SessionsEarned`, for every number of
browsers, threads and changes of the password.

The tables have an invariant of their own, `TablesInv`. `TablesBounded`: the bound on lockouts is not looked at for an
address that has failures, so `BoundInv` bounds the failures and, apart from them, the lockouts without any; that the pruning
leaves fewer than `MaxTracked` entries is proved from their turns (`NewestFacts`, again by a least counterexample).
`LockoutIsDeserved` and `AttemptsBounded` speak of all the failures of an address, of which the table has only a part.
`EndOf` says which: the last ones, in order; those before are older than the window, or were gone when an entry
of the address was evicted (`TimesOf`). It is a constant operator of a list, a table's part of it and the time, so its
lemmas (`EndRecent`, `EndGoesOn`) are about lists and hold of every step's. `LockoutOf` keeps the failures that set a lockout,
which outlive the entry. `TriesOf` counts a thread that has passed the check with the failures in the window: a check that lets it pass saw
fewer than `Threshold` of them. From it: `TablesSound`, `TablesStayBounded`, `LockoutsAreDeserved`, `AttemptsAreBounded`,
for every number of addresses, finitely many threads and any window shorter than the lockout.

**Model-checked only:** the liveness properties (`RunEnds`, `ArchiveCompletes`,
`LockIsReleased`, `EndedIsForgotten`, `LinesArrive`, `DepartedStreamsEnd`, `CatchesUp`,
`ComesToRest`), which need ENABLED. Every safety invariant and action property that a passing run checks
is stated by a theorem.

## Disagreements between the code and what is said of it

Three are runs whose counterexamples TLC prints; `PROJECT.json` ("findings")
quotes the sentence.

| Run | What happens |
| --- | --- |
| `run_v_window` | `clean_destination` removes a group directory without a video together with the failure markers in it, so that the next run requests the failed file at once, although it "is skipped until the retry window passes" (`docs/guide/troubleshooting.md:138`). |
| `set_v_followers` | `update` calls listeners after releasing its lock: of two updates of one section the older may be heard last, and the signing key or the schedule in force is not the one in the settings until the next change or a restart. |
| `prog_v_reboot` | The dashboard ignores every frame whose stamp is not above the highest it has seen. The stamps are the server's monotonic clock, which starts again when its host reboots: an open page then shows the old state until the new clock has passed the old one. |

Others are in the models without a run. Most are found by checking the property or changing the
constant that is named:

- A failure is remembered by its marker only, which is opened, and so emptied, before the time is written
  (`sync.py:516-518`): after a kill in between, or when the disk refuses either, the next run retries at
  once (`OpenMarker`, `MarkFails`). `RetryWindow` begins when the time has been written.
- When cleaning takes longer than 10 s, the timer has reset the publisher by the
  time the thread asks whether its job ever began; a completed job is published
  again, as failed (`server/sync_runner.py:181`): `ResultShown` with `CleaningIsQuick = FALSE`.
- A `stop_sync` that read the first job may set the flag after the second has
  cleared it, and stops the second (`server/routes/api_sync.py:144`): `StopsOnlyWhatWasAsked`.
- `scheduler.shutdown(wait=True)` waits for a thread that only starts the sync
  thread; the process exits under it (`__main__.py:558`): `ShutdownWaits`.
- A page that was too slow does not "re-sync from `snapshot()` on its next
  reconnect" (`server/log_buffer.py:83`): what overflowed lies below the
  watermark once a later line is shown, and `logs.js` drops it: `ReceivedIsShown`.
- `write_metrics_file` writes "atomically" (`metrics.py:355`), but through one
  name for the temporary file, so two runs that report at once may publish a text that is torn:
  `MetricsFileWhole` without `~clash`. Likewise `StateKept` without `~overlap`: the state is loaded
  before and saved after the lock, and a run may put an older time back.
- "Metrics delivery failures are logged as warnings and do not replace the sync
  exit result" (`README.md:285`): `push_metrics` catches `OSError`, and what
  `http.client` raises of its own when the answer is no HTTP is none. It leaves `cmd_sync` as a
  traceback (`PushFails`).
- A metrics state file that cannot be read is ignored with a warning (`metrics.py:134`), but one that is JSON and no object has
  no `get`, and one that is not UTF-8 raises a `ValueError` of another kind: the command line ends in a traceback before
  it syncs (`LoadFails`). These two are the exceptions (`alien`) that `DeliveryKeepsResult` states.
- When only cleaning fails on a command line, its reports say that the sync succeeded, with exit
  code 3 (`SyncReturns`, `Clean`).
- A `KeyboardInterrupt` is not caught, and the reports of that run, made in `finally`, say exit code 0
  (`SyncRaises`, `Caught`).
- In the server a failure of cleaning after a sync that worked is reported
  as a success with a failure reason (`Caught`).
- A thread that cannot be started leaves `_sync_lock` taken (`SpawnFails`).
- A stop acknowledged after the last chunk is never looked at (`StopSeen` needs
  a non-empty read).
- A second `trigger_sync` that finds the lock taken before the first has named
  its job answers with an old id, or none (`AnswerBusy`).
- A dry run makes the group directories of what it would download (`EnsureGroup`
  comes before the look at `dry_run`), although `README.md:168` says that it
  does nothing.
- An update that fails at the directory's `fsync` is refused, yet is in the file:
  a restart puts it in force, the next update takes it back (`InstallFails`).
- A session is in the cookie alone: the answer to a request that was under way when its browser logged
  out or changed the password puts the old session back (`Respond`). After a change of
  the password it is worth nothing any more; after a logout it is.
- `_sidecar_path` reads the destination from the settings anew (`server/routes/api_viewer.py:84`): when that was changed after the
  lookup, the track is looked for in the new one and the request fails although the file is still there.
  The model changes settings between lookups (`ChangeSettings`), to another index of the same directories; `GpsIsServed` is about those.
- In a chain of two lookups the second may not find the start of the first: `journey` then
  answers 200 with nothing in it (`AnswerChain`).

## What is not modelled

- Formatting, logging, pages, cards and health endpoints, which render what other components hold.
- `gps.py`, `gsensor.py` and `forecast.py`: byte decoding and floating-point arithmetic without state.
- Parsing of names, of the dashcam's index, of arguments, of settings and their migration, of cron
  fields; affinity keys, which are stripped from names.
- `auth.mode` `none` and `proxy`, which keep no state.
- The swap of the rotating file handler in `_reconfigure_serve_logging`: two threads may each
  remove the same handler and add one, of which only the last is remembered. The root
  logger's list of handlers is state that no other component reads.
- The sums and the plateau estimate of the statistics page, the calendar and thumbnails of the viewer.

Components of which only such parts are left out are `modelled` in `PROJECT.json`;
those of which an operation that changes state is left out are `partly`.

## Plan

The sync engine, the service, the settings, both streams, the viewer, the
records of runs and signing in are modelled; every safety property of the passing runs is
proved, and three of the components are shown to implement an abstract specification. What would come next:

1. **An abstract log** (a prefix of what was logged, less what overflowed) that `LogStream` implements.
2. **Pure algorithms**: the cron field parser, the retention date, each
   against a reference definition over bounded inputs.
3. **The swap of the log handlers** in `_reconfigure_serve_logging`, as a component of its own.
