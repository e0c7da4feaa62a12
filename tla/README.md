# Argus NVR: a verification development

Argus is a network video recorder for a fleet of small cameras: a Go service
(`src/backend`) that polls them, fans their live streams out, pulls the
recordings off their cards, records for those that have none, transcodes and
ages out what it holds; and a Vue front end (`src/frontend`). This directory
holds TLA+ models of the parts of the service where several goroutines, a file
system, a network and cameras that fail meet, and of the files and listings they
work on; the TLC runs that check them, and proofs that TLAPS checks.

    tlc -workers 2 -config MCArchivePull.cfg MCArchive     # a run
    tlapm ArchiveProofs.tla                                # the proofs of a module

Contents: [1 Inventory](#1-inventory) · [2 Modules](#2-the-modules-and-the-code)
· [3 Runs](#3-the-runs) · [4 Fairness](#4-fairness) · [5 Proofs](#5-what-is-proved)
· [6 Findings](#6-where-the-code-and-its-comments-part)
· [7 Limits](#7-what-is-not-modelled-and-why) · [8 Plan](#8-plan)

## 1 Inventory

Paths are under `src/backend/internal/` unless they say otherwise.

| part | state it keeps | operations | shares it with |
|---|---|---|---|
| archive store (`archive/`) | files on one volume: `<camera>/<day>/<at>.avi`, `.mp4`, a `.json` sidecar, `.part-*` temporaries, a day's `.aged` note; `Store.mu` | `Save`, `Create`/`Commit`/`Abort`, `Has`, `Held`, `List`, `Transcode`, `Sweep`, `MoveCamera`, `Open` | puller, stand-in recorder, transcode worker, the sweep's timer, handlers |
| transcode queue (`transcode/queue.go`) | a bounded channel, `waiting`, `failed`, `running` under `Queue.mu` | `Add`, `Run`, `Backfill` | everything that stores a recording; the archive |
| encoder (`transcode/ffmpeg.go`) | an external process | `Encode`, probe | the queue's worker |
| stream hub (`camera/stream.go`) | `subs`, `running`, `cancel`, `pumpDone` under `Hub.mu`; a channel of one frame per viewer | `Subscribe`, its `remove`, `Close`, `pump` | handlers, snapshots, stand-in recorder; the camera's one stream socket |
| camera session (`camera/client.go`) | `sid`, `gen` under `Client.mu` | `do`, `session`, `relogin`, `login` | poller, puller, hub, handlers; the camera's table of sessions |
| camera calls (`camera/recordings.go`, `settings.go`, `firmware.go`) | none; a listing's offset, the `/config` that was read | listings by page, downloads, `/config` read and both forms posted, OTA | session |
| puller (`manager/pull.go`) | locals: the days to go, the page in hand, the day's `Held` set | `pull`, `pullOnce`, `pullDay`, `download` | archive, queue, camera |
| stand-in recorder (`manager/standin.go`) | locals; a pending recording | `standIn`, `standInOnce`, `freeID`, `finish` | hub, archive, queue |
| manager (`manager/manager.go`, `addresses.go`, `bulk.go`) | `devices`, `closed` under `Manager.mu`; per device a context, a done channel, status | `Sync`, `Close`, `stop`, `WatchAddresses`, polling, bulk settings and firmware | store, archive, clients |
| camera list (`store/store.go`) | `cams` and its JSON file under `Store.mu` | `Open`, `List`, `Add`, `SetAddress`, `Delete` | handlers, the watcher, `main` |
| discovery (`discovery/`) | `hosts`, `addrs`, `wanted` under `Discoverer.mu`; the sighting of one browse | `Run`, `browse`, `record`, `expire`, `resolve`, `want` | watcher, handlers |
| AVI files (`avi/`) | a writer's lengths and times; the file's chunks | write, close, read the index, walk the movie | archive, stand-in, replay |
| HTTP API (`httpapi/`) | none of its own | add, delete, live, recordings, replay, static files | all of the above |
| process (`src/backend/main.go`) | loops and wiring | start, the sweep's and backfill's timers, shutdown | all of the above |
| front end (`src/frontend/src`) | composables' caches, a pool of stream slots | fetch, page, subscribe, focus | HTTP API |

How they meet, and what is hard about it:

* **The archive has five writers and a lock that covers little of it.**
  `Store.mu` covers making a day directory, a whole `Sweep` and a whole `MoveCamera`; downloads,
  stand-in recordings and transcodes create, rename and remove files with
  nothing held, each step can fail, and the process can die between any two.
  What should hold: a finished name means a whole file; footage goes only when
  retention takes it and never the newest; nothing is fetched that is held; the
  archive comes back under its limit; the cards get emptied.
* **The queue drops offers rather than block.** Its marks, the channel and the
  worker are three places, looked at one after the other by goroutines that
  store and by a backfill that looks at the disk in between. What should hold:
  a mark is an offer that is on its way, the backfill trickles, failures are
  not repeated for ever, the backlog drains.
* **The hub hands one socket from pump to pump.** The last viewer out cancels a
  pump that is still dialling or reading; the next viewer in starts another.
  What should hold: at most one live pump, one exactly when somebody watches,
  no send on a closed channel, every viewer a frame or the end of the stream.
* **One session per camera, many callers.** The camera forgets sessions when it
  reboots and evicts the oldest. What should hold: a lost session is made good
  without the caller noticing, with one login for all who lost it, and nobody
  waits for ever.
* **The list and the devices follow each other through two locks and a file.**
  What should hold: the list anyone reads is the one on the disk, the devices
  are those of the list, none outlives `Close`, and the shutdown ends.

* **A listing is an offset into a card that changes.** The puller asks for page
  after page while the camera records and deletes; exchanges fail, the service
  restarts in the middle and remembers nothing. What should hold: nothing is
  fetched twice, nothing that stayed is left out, the oldest goes first, what
  stays on the card is held in the end.
* **A setting is changed by reading all of them and writing all of them.** Two
  requests, a camera's own page and a deleted camera meet in between; one of two
  posts fails; an answer is lost. What should hold: what a request does not name
  it does not change, what is reported done is done, one camera's failure is
  nobody else's.
* **What is known of the network is put together from pieces.** Records come
  late, twice, in any order or not at all, from devices that move and leave.
  What should hold: an answer was true not long ago, pieces that were heard are
  put together, a goodbye is not undone by an older copy, a name that is waited
  for is found.
* **A recording is a file of sizes and offsets.** Chunks are padded, the index is
  written before the header, files lose their ends, times are divided four times
  over. What should hold: what was finished reads back, what was not is refused,
  a replay keeps the pace.

`PROJECT.json` lists every component with what is modelled of it, and the
hazards line by line with the properties that watch them.

## 2 The modules and the code

A definition has the name of the code it stands for where that is possible; the
`map` of `PROJECT.json` gives its lines. An action is the code between two
points at which another goroutine, or a crash, can tell the difference: two lock
operations, two file-system calls, a channel operation, an exchange with a
camera. Comments marked *Mutant* define an altered form of the action below
them, used to show that a property notices the alteration.

### ArchivePromise, Archive, MCArchive, ArchiveProofs

`Archive` is the data volume (`avi`, `mp4`, `meta`, `aged`, `dirs`, the `.part-`
files being written in `temp` and those that lie about in `left`) and
the program counters and locals of four goroutines:

| goroutine | actions | code |
|---|---|---|
| puller of a camera with a card | `PullReadNames` ... `PullRename`, `PullGiveUp` | `pullOnce`, `pullDay`, `Held`, `Save` |
| stand-in recorder of a camera without one | `StandTrigger` ... `StandRename` | `freeID`, `Has`, `standInOnce`, `finish`, `Create`, `Commit`, `Abort` |
| transcode worker | `TransStart` ... `TransRemoveAvi` | `Transcode` |
| retention | `SweepBegin` ... `SweepPrune` | `Sweep`, `scan`, `noteAged`, `pruneEmptyDays` |
| the process | `Crash`, `Open` | `Open`, `sweepTemps` |

A recording is a number, its identity in the order `sortNewestFirst` gives;
`DayOf` is its day directory. Of a file only `none`, `cut` or `whole` matters.
`Fault` marks a branch in which the environment fails (a transfer cut short, a
write, rename or remove that errors, a crash); their number is bounded by
`MaxFaults`. Removing a `.part-` file may fail as every other remove (`Discard`,
`Open`): the code ignores the error, and the file stays, counted by `Usage` and
holding its directory, until an `Open` can remove it; the history `stuck` names
those files, so that a file left for no such reason shows. `MuFree` is `Store.mu`: held from `SweepBegin` to `SweepPrune`, and
asked for by the two `mkdirDay` actions only, as in the code.

`ArchivePromise` is what all this is for, in three lines: a recording arrives,
or ages out while a newer one is held. `Archive` refines it with `held <- Held`,
a recording in either form (`KeepsPromise`, `PromiseKept`).

Modelling decisions: a directory read is one step, and so are the copy of the
body with its length check (the temporary is private until the rename) and the
two counts of frames with the size and the second look at the AVI
(`TransVerify`; the gap that matters, between that look and the rename, is a
step boundary). The callers of `Sweep` are one goroutine, since `Store.mu` lets
one run at a time and a sweep keeps nothing between calls. The card is static:
what the camera itself deletes would only shrink `PullReadAged`'s listing. The
puller and the stand-in recorder work for different cameras here; `Migration`
has both for one, as when its card breaks while it is being read.

### TranscodeQueue, MCTranscodeQueue, TranscodeQueueProofs

The channel `work`, the sets `waiting` and `failed`, `running`, one progress
variable per goroutine in `Add`, one for `Run`, one for `Backfill`. The archive
is reduced to the form each recording is held in; `Store.Transcode` is three
steps of the worker (its look, the encode up to the rename, the remove), and
retention is `Retire`, which may take either form between any two of them.
`Restart` empties the queue and its memory, as a new process does, at any step.
`failures` and `trickle` are history.

### Hub, MCHub, StreamProofs

Pumps are numbered in the order in which `Subscribe` starts them. `current` is
the pump whose done channel is `Hub.pumpDone` and that the next pump waits on;
`cancel` the one `Hub.cancel` stops. `stopped` are the cancelled contexts. A
pump waits, dials, reads, retries after an error, is refused
(`PumpDrop`), stands down under the lock (`PumpStand`) and closes its done
(`PumpClose`), in the order of the deferred calls. A viewer's channel of one
frame is `empty`, `frame` or `closed`; `broadcast` overwrites a frame that was
not read, as the code drains the channel before it sends.

### Session, MCSession, SessionProofs

A session is the number of the login that made it, which makes "an older one"
sayable. `alive` is the camera's table: `Admit` evicts the oldest when it is
full, `Reboot` empties it, `OtherLogin` is anybody else. A caller goes through
`Begin` (`session`'s look), `Attempt`, `Relogin` (the test of `gen`, and the
lock kept through the exchange), one of `LoginFails`, `LoginRejected`,
`LoginDone`, then `ReadGen` (`session` takes the lock anew) or straight to the
second `Attempt`. A lost answer to a login may have made a session all the same.
`troubled` and `rejected` are history of the calls.

### Fleet, MCFleet, ManagerProofs

The store (`cams`, `file`, `storeMu`), the manager (`devices`, `mgrMu`,
`closed`), the devices as slots with `run` and `cam`, and the callers: handlers
that add and delete, the address watcher, and `main` with the first `Sync` and
`Close`. An edit is made in memory with the lock held and then saved or rolled
back. `List` and `SyncDrop` are separate steps with nothing held between, as
`Sync(st.List())` is; `Sync` starts what is missing before it stops what it
dropped, and stops after it unlocked. A device's three goroutines end together.
`Restart` reads the file.

### Migration, MCMigration, MigrationProofs

One camera whose archive moves from the identifier the service gave it (`Id`)
to the MAC it says it has (`Mac`). `names[k]` are the recordings' files under a
key, `aged[k]` the note of what retention took there, `part[p]` the directory
that goroutine `p`'s `.part-` file is in, which a move may change under its
hands. `Learn` is `pollFirmware` up to `migrateArchive`; `MoveBegin`,
`MoveStat`, `MoveRemove`, `MoveRename` and `MoveDone` are `MoveCamera`, one
file-system call each, over every entry of the directory including the note and
the temporaries. Each writer has the key it read (`ArchiveKey`) when it began:
the puller twice, for its listing (`PullKey`) and after the camera answered the
download (`PullOpen`). `MuFree` is `Store.mu` again, held through a move. A
sweep holds it too, so that it is one step for a move; the order of the steps
within it is `Archive`'s matter, as are the contents of files and a temporary
whose removal fails. `Listed` is what `scan` returns: a recording that both keys
have is there twice, which are two recordings to `Sweep`, ordered by their keys
(`FirstKey`); it takes the last of the list and never its only entry. `late`
and `taken` are history: what was written under the old key after the move had
read it, and what retention removed a file of. `ArchivePromise` is not kept here
(section 6).

### Discovery, MCDiscovery, DiscoveryProofs

`net` is the network: which device has which address. A sweep of `Run` is
`Browse` (the questions), records heard one a step (`HearName` for PTR,
`HearPlace` for SRV, `HearAddress` for A; a record with TTL zero is a goodbye),
`AskAgain` for what is still unresolved, `Record` with the fold of a sighting
into `hosts` and `addrs`, and `Expire`. A record may be heard twice or never, of
any device, in any order: that is UDP. Ages are counted in sweeps.
`Watch` is a round of `resolveAddresses` over one camera with `ResolveAddress`
and `want`. `had`, `last` and `told` are history: where a device was and how long
ago, its last word in a window, and the records it gave there.

### Bulk, MCBulk, BulkProofs

A request is a list of ids with the patches of the two forms, or a list to
flash; a call is one id of one request. `ApplySettings` starts every call at
once, `Flash` one after the other (`Turn`). A call of settings is `Config` (the
read), `Post` of the image form, `Post` of the recording form, each of which may
fail before or after the camera has done it. `Merged` and `Build` are
`BuildImageForm` and `BuildRecordingForm`: the patch over what was read, which
fails at a value that fits no field, asked for or read (`IsBad`), and where a
checkbox that is off is left out and the camera reads what is left out as off.
A camera that answers may still leave some of the form's fields as they were
(`kept`, of the constant `Refusable`): a control its sensor refuses, which it
lists in its answer and the service logs (settings.go:137-143), `ael` and `gc`
while `autoimg` is on (docs/bulk-api.md:48-49), or a field passed through that
it does not know (settings.go:205-209). `Edit` is a change on the camera's own page,
`Delete` a handler that removes the camera, `Cancel` an operator who closes the
page. `changed`, `refused` and `hurt` are history.

### Avi, MCAvi, StreamProofs

A file is the set of its chunk headers with their offsets, sizes and, for the
first 224 bytes, how much of the header is there; the bytes of a picture are left
out. The writer's `WriteFrame`, `CloseIndex`, `CloseHeader`, with a `Crash` that
may leave any part of the header; the reader's `Walk`, `FromIndex` with its base,
`FromMovie`, `UsPerFrameExact` and `AtMs`, as functions of a file; and the replay
(`Open`, `Send`, `Over`, `Gone`) by a clock whose timers are late. Times are
microseconds of which a small number make a millisecond, so that every division
rounds. The reader's recursion into lists is a stack of levels (`lists`), and one
look at a chunk, or the return from a list, is a `Turn`; `Walk` is the states after
each, a function over the numbers rather than a `RECURSIVE` operator, so that it
can be reasoned about. `Sought` takes twice as many turns as chunks of eight bytes
fit into the file, after which every list has been left. `Wrap` is the width of the container's sizes. The writer is the stand-in
recorder's; the camera's own files have the same shape and may lack their end
(`Shorten`).

### Card, MCCard, ManagerProofs

The camera's card with what it records (`Records`) and deletes (`Deletes`), the
two paged listings as functions of the card at the moment they are asked, and a
pass of the puller over them: `DaysPage`, `DayBegins` (`Held`), `DayPage`, and a
step per recording (`Passed`, `Downloaded`, `NotDownloaded`). `Archive` has what
one of those downloads does on the disk, call by call, against the other
goroutines; here it is one step, and the matter is which recordings are asked
for. `Undated` are the directories numbered before the camera's clock was set,
which `validDays` drops. The camera's order is a parameter: `DirListedAt` for the
days, the order of a FAT directory, and `ListedAt` for the recordings of one, the
order of its summary file (docs/islanding.md:61-63, which does not say what that
order is; appended to, it is the order of recording); `Place`
is how many a list has up to one that it lists, and a page is what lies between two
places (`OnPage`). `days` says how often each day is to be walked: one that is
listed on two pages, as the list grew between them, is walked twice. That it
is sorted (pull.go:104) is that the next one, `Day`, is the least of them. `Replace` is `Sync` for a camera whose address changed:
its new device starts before the old one is stopped, and until `OldStops` the
old one may store anything that is on the card (`OldStores`, more than its own
pass would let it). `owed` and `late` are history: what the pass has still to look
at, and what an old device stored since this one last asked the archive.

## 3 The runs

Each listed run finishes in at most about two minutes with two workers. `cfg`
files have the bounds; all are named constants.

| run | asks | bounds |
|---|---|---|
| `archive_pull` | pull, transcode and retention against each other, with faults: the safety properties, the refinement, and that retention and the puller get there | 2 recordings on the card sharing a day and one more day, 2 faults; sizes 4/2/1 against a limit of 6 |
| `archive_standin` | the stand-in recorder likewise: the refinement | 2 start times of one day, triggers in the same second, 1 fault; same sizes |
| `queue` | marks, trickle, retries, progress | 3 recordings of which the newest cannot be encoded, 2 storing goroutines, channel of 1, backfill of 2, 1 restart, 1 retirement |
| `hub` | pumps against viewers | 2 viewers, 3 pumps, 1 broken stream or dial, 1 refusal, 1 `Close` |
| `session` | calls against logins, reboots and evictions | 2 calls at a time, any number after each other; table of 2, 4 sessions, 2 reboots, 1 lost exchange, the password changed once |
| `fleet` | edits, syncs and devices | any list of 2 cameras with 2 addresses, a handler, the watcher and `main`, 4 slots, 2 edits, 1 failed save, 1 restart |
| `migration` | a change of key against every writer | 1 recording on the card, under neither, one or both keys in any form at first, 1 stand-in recording, 1 pass of retention, 1 error or start of the service |
| `discovery` | records and sweeps against devices that come and go | a camera and another device, 2 addresses, 2 records a window, 2 moves, 1 browse or save of an address that fails, entries that live 2 sweeps |
| `bulk` | requests over several cameras against each other and their users | 2 requests at once out of six pairs, with an unknown id, a repeated one and a value that fits no field; 2 cameras, one of which may have such a value itself, 3 fields of both forms, one a checkbox and two that may be refused, 2 failures, 1 edit or delete |
| `avi` | files and their replay | up to 3 frames of even, odd and no length, at once or 90 microseconds of a ten-to-the-millisecond clock apart, every prefix of the file, 15 marks within the header, 3 speeds, late timers |
| `card` | paging over a changing card | 7 recordings in 3 days and an undated directory, pages of 2, one recording with an odd name, 2 among failures, restarts, replaced devices and what those store, 1 deletion |
| `migration_standin` | a statement of the comments that the code does not keep, section 6 | the smallest instance that shows it |

Why these bounds are enough to mean something:

* *Archive.* Sizes are chosen so that one recording as AVI with its sidecar (5)
  fits, two (10) do not, one of each form (8) does not, and two as MP4 (6) just
  do: the sweep runs with and without a transcode in reach, and
  a `.part-` file tips it over. Two recordings are the least with a newest one
  to keep and one to take; two on one day make the `Held` set go stale within
  the day's work; the second day makes the empty directory. Two faults allow one in
  a write and a crash, or a fault in the recovery from the first. Locals do not
  survive a crash and the disk states recur, so further faults lead to states
  that shorter runs reach.
* *Queue.* A channel of one is full whenever a recording is queued. A batch of
  two with one failing recording is the largest number of failures the code
  promises progress for; two of two is `MCTranscodeQueueStuck`, section 6.
* *Hub.* Three pumps give a cancelled one between two others, the least for
  which the hand-over can go wrong. Once `MaxPumps` is reached a viewer that
  would need another pump does not come back, which is a stop of the model, not
  of the program (hence `CHECK_DEADLOCK FALSE`).
* *Session.* Four sessions in a table of two evict two times; beyond them the
  camera answers no login (counted as a failed exchange), so that calls still
  return at the bound.
* *Fleet.* Four slots are enough for two cameras each replaced while the old
  device still ends: a stale `Sync` and the current one hold at most four at a
  time with two edits. The system stops after `Close`
  (`CHECK_DEADLOCK FALSE`).
* *Migration.* One recording per writer meets itself under both keys and in both
  forms, which is all that `MoveCamera` tells apart; the stand-in's is the newer
  one that lets the other age out, and the other, under both keys, is the newest
  itself and listed twice until the stand-in's is there. A move that a crash or an error cut short is
  begun again only after a restart, as in the code. The camera that never says
  its MAC, and is never triggered, leaves nothing to do
  (`CHECK_DEADLOCK FALSE`).
* *Discovery.* Two devices are the least for which one may have the other's old
  address; two records a window leave a device half heard, which the next window
  completes. Two sweeps of life let an entry miss one sweep and be renewed, or
  two and go.
* *Bulk.* Two requests over two cameras race each other for one camera and pass
  by each other on the other. A field of each form may be refused, in any of the
  posts. The requests are six chosen pairs, so that every
  kind meets every other; a field of each form and a checkbox are all that the
  forms tell apart. The requests are answered and nothing is left to do
  (`CHECK_DEADLOCK FALSE`).
* *Avi.* Three frames have a first, a last and one between, of both parities; the
  cut is tried at every byte. Ten for a thousand makes every quotient round at
  these sizes. A replay ends (`CHECK_DEADLOCK FALSE`).
* *Card.* A day of three recordings takes two pages of two, the last of them
  short; an arrival or a deletion between the two shifts them. One undated
  directory is less than a page of them, so that no page is without a date: the
  other case is `MCCardDays`, section 6. Two failures let a recording be missed,
  and missed again. Once the camera has recorded everything and deleted what it
  may, passes that change nothing go on (`CHECK_DEADLOCK FALSE`).

What the properties say:

* **WholeFiles**: no finished name on a short file. **SidecarFirst**: a
  recording is stored, by `Save` or `Commit`, with its details there before its
  name (`MoveCamera`, which renames the AVI of a directory before the JSON,
  archive.go:939-957, is `Migration`'s: until it has come to the sidecar a
  listing under the MAC shows the recording without). **NeverFetchedTwice**: what the
  puller is about to store is not held, however old its listing.
  **NoLeakedTemp**: while the service is up a temporary belongs to a write
  that is under way, or is one whose removal failed.
  **KeepsPromise**: the refinement. **LimitRegained**, **CardSettled**: again and
  again within the limit (or down to one recording), again and again each
  recording of the card held or noted as let go.
* **WaitingExact**: the marks are exactly the offers in the channel, in an `Add`
  or just received, each once. **OneAtATime**: the backfill never has two of its
  own queued or running. **FewRetries**: at most two attempts at a recording
  that fails (the second is the backfill's that had picked it already).
  **BacklogDrains**: every recording that can be transcoded leaves the AVI form.
* **OneLivePump**, **OpenChannels**, **ServedUnlessRefused**,
  **PumpsEnd**: section 1's promises of the hub; a refusal of the credentials is
  excepted in one of them, for the reason given in section 6.
* **QuietCallsSucceed**: a call fails only if the camera lost a session during
  the call, or an exchange failed or a login was rejected; a session lost
  earlier is always made good. **NeverTheDeadOne**: what `relogin` hands back is
  never the session found dead. **CallsReturn**.
* **NoOrphans**: every running device can be found by the next `Sync` or is
  being stopped.
  **FollowsUnlessStale**: at rest, memory is the file, and the devices are the
  list unless the last `Sync` worked from a list that had changed. **ShutdownEnds**.
* **FootageKept** (of `Migration`): no interleaving of a move with the writers
  and the worker loses a recording, unless retention took a file of it. **Moved**: a move that returns without an error leaves
  behind only what came during it. **CardFiled**: what is on the card comes to be
  settled under the MAC, whichever key a round of the puller began with.
* **AnswersWereTrue**: `ResolveAddress` answers with addresses a device had at
  most an entry's life ago. **AnswersAssembled**: a place and an address heard in
  one window, in whatever pieces, make a host. **GoodbyeNotRenewed**: nothing is
  offered anew for what it said before its goodbye. **NamesResolved**: a camera
  stored by name gets an address.
* **KeptUnlessRaced**: a setting a request does not name changes only if somebody
  else changed it since the request's read. **DoneIsApplied**: what is reported
  done is at the camera, all of both forms, but for what others changed later and
  what the camera itself refused or ignored, of which the result does not tell.
  **OwnFailures**: a failure is the camera's own. **FleetKnown**: whatever Flashes
  run at once, each fails at one camera at most, and a camera at which none failed
  runs the image of one that reports it done, or what it ran before if none does:
  those after a failure are untouched.
* **CutIsKept**, **UnfinishedRefused**: a finished file, whole or without its end,
  reads back as far as it goes; one that was never finished is refused.
  The sizes in the container have 32 bits: what a file of more than 4 GiB is read
  back as is not said (`file.len <= Wrap`; the writer's only limit is on frames,
  200,000 of them).
  **TimesTrue**, **NotRushed**: a frame's time is true to two milliseconds and two
  microseconds a frame, and it is not sent before it at any speed. Both are about
  a recording of which the reader believes the rate (`Believed`): no time between two
  frames that were sent is longer than the ten seconds of `standInIdle`, but
  empty frames, which are not written, keep a connection from being idle, and a mean gap
  of more than ten seconds is read as the default.
* **FetchedOnce**: no download of what is held, through pages, passes and
  restarts, unless a device that is being replaced stored it in between.
  **WholePass**: a pass that ends well looked at everything that was on the card
  when it began, and never stores of a day while it owes an older one. A pass
  during which the camera deletes anything, before or after the page in hand,
  is promised nothing: `Deletes` empties `owed`. That such a deletion costs no more
  than a later pass is what **CaughtUp** says.
  **CaughtUp**: what stays on a card that is listed is held in the end, pages
  that moved under a deletion included.

Each has a mutant, an altered action under which TLC finds it violated in the
same run.

## 4 Fairness

Only what a scheduler and the code's own loops give:

* *Archive*: weak fairness of the puller and of retention (a goroutine that can
  run does; the pull timer and the sweep's, every five minutes, keep firing), of `Open` (a
  service that died is started again), and strong fairness of the puller's
  `mkdirDay`: `Store.mu` is a `sync.Mutex`, whose starvation mode hands it to
  who has waited, while retention takes it again and again. No fault is bound to
  happen, and no transcode either.
* *TranscodeQueue*: `Run` receives what is there, `Backfill`'s timer fires, an
  `Add` that has begun returns. Storing, retention and restarts need not happen.
* *Hub*: a pump goes on (`RunOn`), a camera that was reached sends, a viewer
  reads. The conjunct `UNCHANGED errors` takes the failing outcomes out of the
  fairness: no error is ever bound to come.
* *Session*: strong fairness of a call's next step. Every exchange has a
  timeout in the HTTP client, and `Client.mu` is a `sync.Mutex` as above.
* *Fleet*: `main` goes on, and a device whose context is cancelled returns.
* *Migration*: weak fairness of a move that has begun and of the puller's rounds.
  The camera need not ever say its MAC, and nothing else need happen.
* *Discovery*: weak fairness of the sweep's steps (`Run` is a loop on a timer) and
  of the watcher's rounds (every 30 seconds, while an entry lives for 90: an
  answer stands through two rounds at least, hence the strong fairness of a round
  that finds one), and strong fairness of a camera's answer about its own name:
  asked again and again, some answer gets through. No advertisement need ever
  arrive.
* *Bulk*: weak fairness of each call; each exchange is under a timeout
  (`settingsTimeout`, `flashTimeout`). No failure is bound to happen.
* *Avi*: none; its properties are safety properties.
* *Card*: weak fairness of the puller, whose loop has a timer and whose exchanges
  have timeouts, and of the poll that finds a camera back. Nothing says that an
  exchange succeeds but the bound on failures.

## 5 What is proved

By TLAPS, for every value of the constants that the named `ASSUME`s admit (any
number of recordings, days, viewers, pumps, callers, cameras, any sizes and
limits, any bound on faults). All are safety properties of `Spec`, which has no
fairness.

| module | theorems | argument |
|---|---|---|
| `ArchiveProofs` | `TypeCorrect`, `FilesAreWhole`, `FootageIsKept`, `NotFetchedTwice`, `DetailsComeFirst`, `TempsAreInUse`, `NewestIsKept`, `PromiseKept` | `Inductive`, `SidecarInHand` |
| `TranscodeQueueProofs` | `TypeCorrect`, `MarksAreExact`, `BackfillTrickles`, `RetriesAreFew` | `Trickles`, `FailuresCounted` |
| `StreamProofs`, of `Hub` | `TypeCorrect`, `AtMostOneLivePump`, `AttachedIsPumped`, `SubscribersAreOpen` | `OnlyCurrent` and its companions |
| `StreamProofs`, of `Avi` | `UnfinishedIsNeverShown`, `TimesAreTrue`, `CutsAreKept`, `ReplaysAreNotRushed` | `WriterInductive`, `Complete`, `Placed`, `Paced` |
| `SessionProofs` | `TypeCorrect`, `QuietCallsAreAnswered`, `NotTheDeadOneAgain` | `Known`, `GenFits`, `Fresh` |
| `ManagerProofs`, of `Fleet` | `TypeCorrect`, `ListIsDurable`, `DevicesAreAccountedFor`, `DevicesFollowTheList` | `EditorHolds`, `SyncerHolds`, `Settled` |
| `ManagerProofs`, of `Card` | `PullsAreTyped`, `FetchedOnlyOnce`, `PassesAreWhole` | `PageInHand`, `FetchedBehind`; `OwedIsToCome` |
| `MigrationProofs` | `TypeCorrect`, `FootageIsKept`, `MoveIsComplete` | `DropSafe`, `RemoveSafe`, `MoveSees` |
| `DiscoveryProofs` | `TypeCorrect`, `AnswersAreTrue`, `AnswersAreAssembled`, `GoodbyesNotRenewed` | `Fresh`, `Kept` |
| `BulkProofs` | `TypeCorrect`, `SettingsKept`, `DoneIsDone`, `FailuresAreOwn`, `FleetStaysKnown` | `Current`, `Applied`, `Blame`, `Ran` |

* **Archive.** `WholeFiles` is not inductive: a rename could be about to publish
  a short temporary. `WholeInHand` says that what has passed its check stays
  whole until it is renamed. `FootageKept` needs `DropSafe`: an AVI about to be
  removed has its MP4 beside it, or retention took that MP4 and left something newer.
  `NewestStays` and the refinement need `SweepSafe`: each recording the
  sweep has left to remove has a newer one beside it *now*, though the listing
  is old; it survives its own removals because they go oldest first, and a
  transcode because that changes the form and not the recording.
  `FetchSafe` says that neither the day's work list nor the recording in hand
  was held, since no other goroutine stores what is on that card. For
  `SidecarFirst`, whoever is about to give a recording its name has written its
  sidecar, and a sweep takes that of nothing it has not begun to take
  (`SidecarInHand`). `NoLeakedTemp` follows step by step from where each goroutine
  is: every way out of a write renames what it made, or removes it, or tried to,
  and `Open` comes to nothing but what is left (`WholeInHand` says that a service
  that is down writes nothing). With
  `Inductive`, each step of `Archive` is an arrival, an ageing out, or a stutter
  of `ArchivePromise`.
* **TranscodeQueue.** `WaitingExact` is inductive once it is known that whoever
  is in `Add` or in a job has a recording in hand (`HandsFull`). It is what makes
  the backfill's look sound: while a recording of its own is in the channel or
  with the worker, it is marked or `running` is set, so that no second one is
  picked (`Trickles`, `RunningSet`). For `FewRetries`, what is in `failed` gets
  no new mark; so only an offer and a job that were under way when a recording
  first failed can fail again, and there is at most one of each
  (`FailuresCounted`).
* **Hub.** Pumps start in order, and only the current one can be the one that
  `Hub.cancel` cancels (`StartedInOrder`). A pump that was not cancelled is the
  current one, and `running` says so (`OnlyCurrent`): this is why starting one
  when nothing runs never makes two. Until the camera has refused the
  credentials no pump stops before it is cancelled (`NoneGivesUp`), so that
  whoever is attached is pumped for.
* **Session.** Sessions in anyone's hands were made (`Known`). A call that holds
  the client's session holds its `gen` (`GenFits`), though it read the two in
  different critical sections: when the numbers differ, so do the sessions. And
  a session that came while an untroubled call was under way is alive (`Fresh`).
* **Fleet.** Who is in the middle of an edit holds the store's lock and has the
  list of the file to go back to (`EditorHolds`); who is in the middle of a
  `Sync` holds the manager's, and the manager is not closed (`SyncerHolds`).
  `FollowsUnlessStale` looks at states in which nobody does anything; between
  them, whoever has changed the list is still going to hand it to a `Sync`
  (`SyncToCome`), and when no one is, and the last one was not given an old list,
  every device is of the saved list, and every camera of it has a device or is
  one of those the `Sync` under way has left to start (`Settled`). That a
  lock is held only by someone on the way to let it go (`LocksAreHeld`), and that
  a device of the manager's map is nobody's to stop (`KnownRun`), carry it.
* **Card**, in the same module; its names are its own so that the two can be
  reasoned about together (`PullSpec`, `PullInductive`). While a day is paged, what is held and was not when the
  names were read lies within the places already gone through (`FetchedBehind`),
  and so does what is left of the page in hand (`PageInHand`). A deletion only
  moves recordings to lower places, and what is recorded gets a higher one than
  all of its day. A page is without gaps (`PageIsFull`): what is on it lies within
  as many places after its beginning as it has recordings, which is by how much
  `start` is moved. The theorem assumes
  `OldestFirst`, that the camera lists a directory in the order of recording,
  which is the camera's to keep and no document of the repository promises (that it
  reads the day's summary file, docs/islanding.md:61-63, suggests it); without it
  the property is refuted (`MCCardNewest`, section 6).
  `WholePass` goes the other way: what a pass owes is on a day that is in
  `days`, or after the pages of days that were read; and of the day in hand it is on
  the page in hand, or after it (`OwedIsToCome`). What is recorded meanwhile moves
  it to a later place if it moves it at all, and a page that something comes after
  is full (`PageIsWhole`). So the listing of a day cannot end early, in whatever
  order the camera lists it. That of the days can, by a page without a date or by
  the limit of pages, and the theorem assumes that it does not (`DaysFit`): fewer
  undated directories come before a date than a page holds, and `MaxDayPages`
  pages have room for all the directories when those are counted on every one.
  The run's constants satisfy it; where they do not, the property that the
  days are all listed is refuted (`MCCardDays`, section 6).
* **Migration.** An AVI that the transcode is about to remove may have lost the
  MP4 beside it to a move, in which case it is under the new key, or to
  retention (`DropSafe`). A file that the move is about to remove as a duplicate
  is held under the new key, an MP4 as an MP4; an AVI may have become one since
  the look (`RemoveSafe`): without the distinction a transcode and a move could
  each rely on the file the other removes. Both allow for retention to have
  taken a file of the recording, and `taken` only grows. What is under the old
  key is in the move's list, in its hand, or came later (`MoveSees`).
* **Discovery.** What a sighting holds was heard within this window, so it is of
  age zero; each entry of `hosts` and `addrs` is no younger in truth than it says
  (`Fresh`), and `Expire` lets both grow by one. Within a window a device's
  records are kept unless it says goodbye, and another device that takes an
  address gave the same one (`Kept`).
* **Bulk.** The configuration a call has read is that of its camera, but for what
  others changed since (`Current`); so a form built from it changes what the
  patch names and what was raced, and no more. `SettingsKept` assumes that the
  service knows every field of the camera's forms: a field of a newer firmware
  is left out of the form, and a checkbox that is left out is off
  (`MCBulkNewField`). A call has posted the forms before the one it is at, and
  what these asked is at the camera, or noted as changed or refused (`Applied`).
  Flashing calls end in the order of the ids (`InOrder`), so the first error is
  the last camera written (`Blame`); what a camera runs changes with the result
  that tells of it, and no result is ever taken back (`Ran`).

* **Avi.** What is on the disk is what the writer put there, at the places it
  says (`Laid`), and a header that is not all there has no movie list, which is
  its last chunk (`Sound`). So the walk over an unfinished file finds none,
  whatever the rest of the header holds and whatever bytes are in its place: by
  induction over the turns (`TurnFindsNone`). For the times, the header is
  complete unless the file is refused, also when its end was cut off, for a file
  that ends within the header is refused (`ShortIsRefused`); the walk's first four
  turns then read the rates (`FourTurns`), and no later one changes them, as every
  `avih` and `strh` is read from the same bytes (`StaysSetUp`). What is left is
  arithmetic: the writer's division of the span by the gaps (`Rounded`), its
  duration in milliseconds and the reader's division of that (`Stated`), and a
  frame's own time (`Sums`). An index entry is where its frame is, through a sum
  that wraps at every step (`Entries`). The induction theorems of the library
  cannot be used with the provers at hand; that the walk, a recursive function,
  is what its definition says is proved by the least turn at which it would not
  be (`WalksExist`, `WalksAgree`, `WalkGoesOn`). For `CutIsKept`, the file holds
  the chunks of its frames and its index, each where the one before it ends
  (`Placed`, `PlaceTyped`), and what is left of it when it is cut is the same but
  for its length (`Leftover`). The walk is then followed chunk by chunk: seven
  turns to the movie list (`BeforeMovie`), one past it, and one past the index if
  its header is left (`AllIsFound`). What is left of the index is read as that many
  first frames (`IndexIsRead`). Without it the movie list is walked: it takes the
  frames that are whole and stays at the first that is not (`MovieIsWalked`), and
  the file has as many steps as that needs (`EnoughSteps`). The header's sizes are
  taken modulo 2^32, so that all of this is about files no longer than that.
  `NotRushed` needs no such bound: wherever a wrapped size leads the walk, it finds
  no more frames than were written (`FramesAreFew`), so that the header's rate is
  at least that of the frames in the list. The viewer starts at one of these,
  on a clock of numbers (`Paced`), and the rest is the
  arithmetic of the two divisions (`DueInTime`).

Model-checked only: every liveness property, which the prover cannot reach. All
other properties that a listed run expects to hold are also theorems, those of
`FetchedOnce`, `WholePass` and `CutIsKept` under the assumptions above.

Proved and not run: each module's `TypeOK`, which its `TypeCorrect` states
(`PullTypeOK` in `PullsAreTyped`; that of `Avi` has no theorem and holds under `MCAvi`),
`FootageKept`, `NewestStays`, `WatchedIsPumped` and `ListedIsSaved`. TLC agrees
with each when it is added to the module's `.cfg`, and so it does with
`Archive`'s `Inductive` and `SidecarInHand`, `Card`'s `PullInductive` and `PassInductive` and the liveness properties `StaleAnswersEnd` of
`Discovery` (what nobody renews is answered no more) and `RequestsReturn` of
`Bulk`. The listed runs keep to the properties that no proof covers and to those
that say most.

## 6 Where the code and its comments part

Listed as a finding, with a run whose counterexample shows it:

* **migration_standin**, `archive/archive.go:955`. A stand-in recording began
  under the identifier, because the MAC was not known yet; when the camera says
  it, the move takes the `.part-` file along and `Commit` has nothing to rename.
  The footage lies under a temporary's name until the next `Open` deletes it
  (standin.go:97-98, 144-145).

Further statements TLC refutes. Where the `.cfg` named is that of a listed run,
the property is put in place of its own; the others name the property already.
TLC stops at the counterexample.

| cfg, property | what happens | comment |
|---|---|---|
| `MCTranscodeQueueStuck`, `BacklogDrains` | `Backfill` asks for the newest few AVIs and leaves out the failed ones afterwards: when all of those few fail, it concludes that nothing is left, and older recordings stay AVI | queue.go:57-59, 175, 182-184 |
| `MCHubTwoSockets`, `OneUpstream` | a pump cancelled while it waits for its predecessor closes its own done at once, and its successor takes that for the socket being free: a viewer that leaves and comes back twice during the first dial gets two connections open | stream.go:45-49, 149; README.md:31 |
| `MCHubStuckViewer`, `ViewerServed` | after a refusal the pump drops its viewers, and only then takes the lock to clear `running`: who subscribes in between is told nothing and served by nobody until another viewer leaves and comes | stream.go:67-68, 73, 162-163 |
| `MCFleet`, `NoDrift` | the watcher reads the list; a camera is deleted and synced; the watcher syncs its list and the deleted camera has a device again | manager.go:177-178, api.go:155 |
| `MCCardDays`, `DaysListed` | the offset counts the days that are dates, and a page of directories numbered before the clock was set ends the listing: the days after it are not pulled, this pass or any other | recordings.go:38-44, 53-56 |
| `MCCardNewest`, `FetchedOnce` | a camera that lists the newest first and records while a day is paged: the last of one page is the first of the next, and the names read before are asked: it is downloaded again | README.md:25, pull.go:135 |
| `MCDiscovery`, `Followed` | a camera stored by its address moves; `ResolveAddress` returns an address as it is, so the stored one is never changed | README.md:93, discovery.go:286-288, addresses.go:43 |
| `MCDiscovery`, `GoodbyeIsGone` | `record` looks for the goodbye under the host's name, `note` filed it under the instance's: the host stays until it expires | discovery.go:213, sighting.go:103-107 |
| `MCDiscovery`, `ReturnListed` | a device that says goodbye and comes back within one window is not noted for the rest of it | sighting.go:107, 111 |
| `MCDiscovery`, `NewestAnswer` | a host that moved is answered with the entry under its old address until that expires, though its new address was heard | discovery.go:330 |
| `MCDiscoveryStarved`, `NamesResolved` with `MaxDirect` of 1 | as many names as are asked at once never answer: others are not asked about | discovery.go:87-90, 302 |
| `MCBulk`, `NothingFlattened` | a change between the read of `/config` and the post is undone | README.md:105-107, settings.go:111-113 |
| `MCBulk`, `OneAtATime` | two requests flash two cameras at once; the order is kept within one request only | docs/bulk-api.md:127 |
| `MCBulk`, `NeverCutOff` | the upload is under the context of the request: who closes the page cuts the flash off | bulk.go:19-21, api.go:336 |
| `MCBulk`, `ReportedUntouched` | an id that is given twice is flashed, and then reported as not attempted after another failed | bulk.go:73-75 |
| `MCBulk`, `DoneIsTaken` | a camera answers 200 with the controls its sensor refused, and is reported done; the code means it so, and only its log tells | docs/bulk-api.md:59; settings.go:137-143 |
| `MCBulkNewField`, `KeptUnlessRaced` with a checkbox the service does not list | every application of settings turns it off | settings.go:111-113 |
| `MCAviFraction`, `FractionIsFiner` | the stream header's fraction is made from the whole microseconds and cut to the millisecond, so the reader that prefers it is farther off | reader.go:345-347, avi.go:216-218 |
| `MCAvi`, `WholeFramesRead` | a file cut within its index is read by the part of the index that is left, and the frames of the rest, which are whole, are not found | reader.go:223-225, reader_test.go:71-73 |
| `MCAviWide`, `ReadsBack` with a narrow `Wrap` | sizes wrap and the file cannot be read; ten minutes (`maxStandIn`) keep a stand-in recording far from 4 GB | avi.go:121, 218 |
| `MCArchivePull`, `NotFetchedBack` | `Held` reads the names after `Sweep` removed a recording and the `.aged` note before `Sweep` wrote it: the recording is on neither and is fetched again | `Held`, archive.go |
| `MCArchivePull`, `NoResurrection` | retention takes the AVI and notes it after `Transcode`'s second look and before its rename: the MP4 of a recording that was let go appears | `Transcode`, transcode.go |
| `MCArchivePull`, `SidecarSwept` | `Save` wrote the sidecar and its rename failed: no recording is there for a sweep to find the sidecar by | `writeMeta`, archive.go |
| `MCArchivePrune`, `AgedOutDayPruned` | a day emptied by retention holds its `.aged` note, so `os.Remove` of the directory fails for ever | `pruneEmptyDays`, archive.go |
| `MCArchiveMkdir`, `DayIsThere` | the lock is let go between `mkdirDay` and `CreateTemp`; a sweep prunes the day and the write fails with an error (the puller tries again, a stand-in recording is lost) | `Store`, archive.go |
| `MCArchiveOverwrite`, `StandInNeverOverwrites` | `Has` looks for the MP4, a transcode renames it in and removes the AVI, `Has` looks for the AVI: the name counts as free | `freeID`, standin.go |
| `MCTranscodeQueueBoth`, `JobFinished` | after a restart a recording in both forms is listed as MP4 and never offered again, so nobody removes its AVI | `Transcode`, transcode.go |
| `MCArchiveBothForms`, `AgedOutWhole` | the process dies between a transcode's rename and its remove; the sweep that reaches the recording removes the MP4 and the sidecar, notes it as aged out, and leaves the AVI | `scan`, archive.go:708-710 |
| `MCSessionOneRelogin`, `OneRelogin` | a call that logged in reads `gen` in another critical section; with a reboot and another call's login in between it has its old session under the new number, and logs in although the client's session is good | `gen`, client.go:64-67 |
| `MCMigration`, `KeepsPromise` | both keys have the newest recording, as AVI: the worker renames its MP4 in under the MAC, `Sweep` takes that MP4, for the copies are two recordings to it, the move counts its own copy as a duplicate of the AVI that the worker then removes, and removes it too: the newest recording is gone | archive.go:811-815 against 673-683 and 832-847 |
| `MCMigration`, `AllFiled` | a recording that was under way when the move read the directory lands under the old key afterwards, and the device does not move again before the next start | `archiveKey`, manager.go:455-461 |
| `MCMigration`, `NotOverwritten` | the puller stores a recording under the MAC between the move's look and its rename, which replaces the file (with the same recording) | `MoveCamera`, archive.go:901-904 |
| `MCMigrationNote`, `NotesKept` | both keys have a `.aged` note for a day: the old one counts as a duplicate and is removed, and what it named may be fetched again | `Held`, archive.go:283-286 |
| `MCHubUnwatched`, `NotUnwatched` | a pump that was cancelled, and then refused, drops the viewers of the pump that replaced it; that one runs on for nobody | `Subscribe`, stream.go |

`Session` also defines `UnauthorizedIsRejected`: a session lost twice within one
call ends it in `ErrUnauthorized` though no login was rejected, against
client.go:41-43.

## 7 What is not modelled, and why

* Sockets, packet parsing (`mdns.go`), the encoder and JSON: pure I/O whose outcomes are
  choices of the models that use them.
* Presentation: Vue templates, routes, form fields, styles.
* The poller's status; the archive's own listing by page (`List`, `Days`), which
  reads only; `Unconfigured`; the size of the picture in an AVI; the front end's
  stores.
* A camera that answers against its own contract, such as `more` on every page
  of a day: `pullDay` has no bound on pages where `Days` has `maxDayPages`.
* Time: a timer is an action that may fire whenever its loop waits; day rollover
  is the order of recording numbers. Clock changes are left out.
* Byte contents, names and wording.
* In `TranscodeQueue`, a removal of the AVI that fails for the disk's own reasons
  (transcode.go:145-147, and 76 where the error is ignored): `Archive` has it. The
  recording counts as failed until a restart, and held in both forms it is not
  listed as AVI; should retention then take its MP4, it is one more of the failing
  recordings of which `BacklogDrains` allows fewer than a batch.

## 8 Plan

Done in this order: Archive (with its promise), TranscodeQueue, Hub, Session,
Fleet, Migration, Discovery, Bulk, Avi, Card; their proofs.
Next, most important first:

1. **Two devices of one camera**, beyond the puller: two stand-in recorders that
   look for a free name in the same second, and a move that meets the old
   device's writers. Composes Fleet's start and stop with Migration's writers.
   To show: which footage survives.
2. **Listing** of the archive by offset while recordings arrive and are
   transcoded, with the front end's **Recordings** that follows it; then
   **CameraStore**, **StreamSlot** and **FocusEngine**.

Runs are few and each asks a question of its own; a later module's question
replaces a listed counterexample that has become a line of section 6, and small
components share a run.
