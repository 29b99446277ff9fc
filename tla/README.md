# Verification of AVA Capture

AVA Capture records multi-camera takes on a set of capture nodes, keeps them in
a web backend, and processes them on a farm of job clients. This directory holds
TLA+ models of it, the TLC runs that check them and proofs for TLAPS. Paths below
are relative to `src/`; the Python is read as Python 2.7.

| If you want to know ... | read |
|---|---|
| what the system is made of, and what can go wrong in it | section 1 |
| which module models what, and what was planned and left | section 2 |
| how a variable or an action corresponds to the code | sections 3 to 9 |
| what was checked, on which instances, under which fairness, and what was found | section 10 |
| what is proved for all values of the constants, and how | section 11 |
| what is not modelled, and why | section 12 |

## 1. Inventory

### Job farm backend: `website-backend/ava/jobs/`
*State*: rows of `FarmJob` (status, node, parent, dependencies, priority, ...) and of
`FarmNode` (last_seen, status, req_restart, version, AWS fields).
*Operations*: `post_client_discover` (the poll of a client: clean-up of dead jobs,
node update, running jobs, finished jobs, lost jobs, scheduler), `kill_job`,
`delete_job`, `restart_job` (with clone), `restart_job_failed_child`,
`post_reload_client`, creation of jobs and the `PATCH` that releases them.
*Interactions*: ten uwsgi processes share one database; only the scheduler is
inside `transaction.atomic()`. Everything else is a sequence of autocommitted
queries that requests of other nodes and of users interleave with, and `save()`
writes whole rows that were read earlier.
*Correct when*: one machine at a time runs a job; a job is never failed or settled
while it runs; a parent settles exactly when its children have; dependencies hold;
nothing that was given to a machine stays unsettled.

### Job client: `job_client/`
*State*: `running_jobs` and `finished_jobs`, shared by the polling loop and one wrapper
thread per job; `first_update`, `need_restart`; one child process per job.
*Operations*: `phone_home`, `submit_job`, `kill_job`, exit on request, `launch_job` and
`yieldToChildren` from a job's process.
*Hard*: the request is a snapshot of moving containers; requests and replies get
lost; a client dies with all its jobs; replies are handled after threads moved on.

### Archive and export jobs: `job_client/jobs/archive.py`, `website-backend/ava/archive/`
*State*: take rows with one export path, files on the recording machines and at the
export paths, the jobs in the farm, the list a running job works through.
*Operations*: `post_export_takes`, `post_delete_takes`, the upload of a thumbnail;
`ExportTake`, which yields to one `CopyFiles` per machine; `DeleteFiles`;
`GenerateThumbnail`, which depends on the export.
*Correct when*: no file is deleted before a whole copy exists, unless its take was
deleted; a copy that succeeded is whole; what was deleted stays deleted.
*Hard*: jobs are killed and restarted, with or without their machine, in the middle of a
file; a deletion overlaps an export; whole take rows are saved over each other.

### Capture backend: `website-backend/ava/capture/`
*State*: nodes, cameras and their settings, the location with its options and its
current session and shot, takes and what each camera recorded.
*Operations*: start and stop of a take over all nodes (phases with one thread per node),
single images, sessions, shots, options of a location, parameters of a camera, discovery
of nodes, closing of nodes.
*Correct when*: every clip is filed in exactly one take; takes are numbered without gaps
in their shot; a node's settings are those of its rows.
*Hard*: no result of a node is checked between phases; counters of takes are read and
written by different queries; whole rows are saved; nodes come and go.

### Capture node: `capture-node/source/capturenode.cpp`, `cameras.cpp`, `nodehttpserver.cpp`
*State*: state machine of the node, list of cameras and list of recording cameras, per
camera: capture thread, recorders, trigger, bit depth, hold.
*Operations*: the HTTP requests of the backend; frames delivered on capture threads.
*Correct when*: a clip is reported once; a recording starts with the settings asked for.
*Hard*: `finalize_single` waits for frames that may not come; a camera can be unplugged
or switched off in the middle of a recording.

### Recorders and video writers: `recorder.cpp`, `video_writer_*.cpp`
TBB pipelines behind queues of bounded length, with a terminator packet and pools of
objects. *State*: queues, pools, what is in the pipeline, counters, the file's index.
*Operations*: `append` (capture thread), the filters, `close` (an HTTP thread).
*Correct when*: every accepted frame is in the file once and in order, the counters of the
summary agree with it, and every close ends.
*Hard*: a queue that fills up, a frame dropped when the pool is empty, a close that blocks.

### Readers of raw files: `capture-node/raw_file_format_readers.py`
Index arithmetic over the files of the recorder, and the development of samples to
linear light. *Correct when*: a film shows each packet once and the integer development
shows the light that the floating point one computes. *Hard*: frames that are missing
from the index; products that leave 32 bits.

### Node keepalive: `server_uplink.cpp`, `main.cpp`
Periodic announcement of the node to the backend, with its cameras; the answer carries
all settings of the node when it asks for them. Notice of a shutdown.

### Hardware sync: `hardware_sync.py`, `autorun.py`, `hardware/ximea_camera_sync/`
*State*: the pulse sources and timer of an Arduino, the bytes on its serial line, what the
node believes of it. *Operations*: discovery of the box, start and stop of pulses with
retries and timeouts. *Correct when*: the box does what the node believes, and pulses fit
their period. *Hard*: boards that reset when their port is opened, answers that come
late, `int` of 16 bits.

### AWS integration: `website-backend/ava/jobs/aws.py`, `models.py`, `views.py`
*State*: EC2 instances, and the state, the clocks and the instance id in a node row.
*Operations*: look-up of an instance, stop when it is idle (from within the poll of its own
client), start by users. *Correct when*: idle instances are stopped, busy ones never.
*Hard*: calls to EC2 fail, replies are lost, rows of a poll and of a start are saved over
each other.

### Web frontend, accounts, site, migrations, static files, node tools
Presentation, configuration, generated and vendored files, a disk benchmark. The frontend
decides which buttons a status offers, which the constant `RestartFrom` of JobFarm and
`Offered` of AwsNodes take over.

### How they interact
The backend drives nodes by HTTP requests and never waits for one longer than its
timeout; nodes announce themselves by keepalives; job clients poll. The backend never
calls a job client. What the nodes recorded is known to the backend through the summaries
their stop requests return, and its files reach the archive through jobs that run on the
recording machines. The database is the only state all of them share.

## 2. Modules and plan

| Module | Subject | Composes or extends |
|---|---|---|
| `JobFarm` | backend and clients of the farm: polls, threads, users, faults | one module, since every property relates the two |
| `JobFarmProofs` | types, lost jobs; without users: one machine per job, what is done has stopped, parents wait, replies are new; with users: one machine per job, what is done has stopped, restarts of clients | JobFarm |
| `AvaVideoWriter` | the recorder of an .ava file | implements `RecordedClip` |
| `RecordedClip` | abstract: what a recorder promises | |
| `AvaVideoWriterProofs` | conservation of objects and frames, the refinement; what a film shows | AvaReader |
| `AvaReader` | playing what the recorder wrote | AvaVideoWriter, RawDevelopment |
| `RawDevelopment` | samples to linear light: pure operators | |
| `CaptureSession` | a recording over several nodes, takes, shots and sessions | backend, nodes and cameras |
| `CaptureSessionProofs` | types, a clip in one take, what each step does | CaptureSession |
| `CaptureSessionTakeProofs` | numbers of takes, shot and session, no clip of an untouched node is missing | CaptureSessionProofs |
| `CameraSettings` | settings of cameras and locations on their two ways to a node | backend, node and camera |
| `CameraSettingsProofs` | settled nodes agree with the rows, bit depth of recordings | CameraSettings |
| `ArchiveExport` | export and deletion of takes, over a reduced farm | implements `FootageCustody` |
| `FootageCustody` | abstract: what the archive promises about files | |
| `ArchiveExportProofs` | footage stays in custody: the refinement; deleted files stay gone; copies are whole | ArchiveExport |
| `AwsNodes` | starting and stopping of EC2 instances, over a reduced farm | backend, clients and EC2 |
| `AwsNodesProofs` | stopped machines hold no work, started ones stay up | AwsNodes |
| `HardwareSync` | the sync box, its serial line and the node | node and Arduino |
| `HardwareSyncProofs` | the box follows the node, pulses fit | HardwareSync |

The modules beginning with `MC` give TLC its instances. All modules that were planned are
there. What the plan leaves, in the order in which it would be worth doing: the Avi writer
against `RecordedClip` (its terminator packet and two queues); `UpdateParentJob` at the
granularity of its queries, with three generations; several cameras per node, with the
threads of one node. Section 12 says what stands in the way of each.

## 3. JobFarm

### State
| Variable | Code |
|---|---|
| `status`, `node` | the columns of `FarmJob`; "unborn": no row yet, "deleted": row deleted |
| `reqRestart` | `FarmNode.req_restart` |
| `overdue` | nodes whose `last_seen` is older than two hours |
| `up` | the client process runs |
| `firstUpdate`, `needRestart` | fields of `JobClient` |
| `worker` | `running_jobs` and where the thread of the job is: "working", "launched" (it has created children), "killed", "stored" (its result is in `finished_jobs`, its key still in `running_jobs`) |
| `result` | `finished_jobs` |
| `poll` | per node, the one request its client has under way: payload, locals of the handler, reply |
| `budget` | what is left of the faults and user requests a behaviour may have |

### Actions
* The poll is `ReadRunning`, `ReadFinished` (the payload reads one container after the
  other while threads go on), `BeginCleanup`, `CleanupDeadJob` (one turn of the loop),
  `DiscoverNode`, `FinishJob` (one turn), `FindMissingJobs`, `FailMissingJob` (one
  turn), `Schedule`, `HandleReply`. Loops over rows evaluate their query once, so the
  rows to treat are in `poll[n].todo` with the node read then, and a turn saves that
  node back. `DiscoverNode` joins the save of the node row, the reading of the jobs to
  terminate and the update of the running jobs; `FinishJob` joins the reading and the
  saving of one job, with the update of its parent; `Schedule` is the code's transaction.
  A handler that reaches a row whose parent row is gone stops with a database error
  (`RefuseOrphan`).
* `GracefulExit` and `StartClient`: the restart users ask for. The last request of an
  exiting client has no lists, and its handler ends after `DiscoverNode`.
* `LaunchChild`, `ReleaseChild`, `EndJob`, `ForgetThread`: a job's process and wrapper.
  A child with dependencies or tags is created first and released by a later request
  (`Tagged`, `DelayedStatus`); if its parent dies in between it stays "created".
* `KillJob`, `DeleteJob`, `RestartJob`, `RestartFailedChildren`, `ReloadClient`: users.
* `LosePoll`, `Crash`, `TwoHoursPass`: the environment. A crash leaves a handler at work
  for the dead client running. A poll lost in the middle of its handler stands for a
  handler that raised; what it wrote stays.

### Abstractions
* A reported job whose thread was told to stop counts as no longer running: in the
  phase "killed" the process has been terminated. (If the kill arrives before the
  process was created the code lets the process run to its end; its job stays
  "terminating" in the database until then.)
* `PromptWrapper = TRUE` assumes that the last two statements of a wrapper thread, the
  store of the result and the deletion of the key, are not separated by the start of a
  poll. `farm_live` is checked without the assumption, and the proofs do not make it.
* `CanRun` stands for the filters on version, class, tags and GPU. `RestartFrom` are the
  statuses for which the frontend offers a restart (`job_block.html`); the page also
  offers "Restart Failed Children" for parents that run, which the runs leave out.
* `clone_job` is in ArchiveExport, starting and stopping of AWS instances in AwsNodes:
  both are about what becomes of files and machines, which JobFarm has not.

## 4. AvaVideoWriter, AvaReader, RawDevelopment

One recorder of one camera: `SimpleMovieRecorder` (`recorder.cpp`) around one
`AvaVideoWriter` (`video_writer_ava.cpp`). Three parties share it: the capture thread
that appends, the TBB pipeline, and the thread that closes.

| Variable | Code |
|---|---|
| `lock`, `m_closed` | the mutex and the flag of `Recorder` |
| `appender`, `hand` | where the capture thread is inside `append()`, and the frame it has copied |
| `closer` | the closing thread: before `push(0)`, in `join()`, done |
| `queue` | `m_frame_queue`, with `Terminator` for the null pointer |
| `unused`, `packets` | how many objects are in `m_frame_unused` and `m_paquet_unused` |
| `encoding`, `compressed`, `encoded`, `writing` | the frames in the pipeline, by what they hold: a frame object, both objects, a packet that waits, a packet in the last filter |
| `written`, `index` | `m_written_packets`; the index `close()` writes |
| `dropped`, `frameCount` | `m_dropped_frames`, `m_frame_count` |

* `AppendFrame`, then `PushFrame` or `RefuseFrame` and `DropFrame`: `append()`, cut where
  other threads can come in between (the lock is held from the first to the last).
  `try_push` is one step; the push into the pool waits, so it is a step of its own.
* `PopFrame`, `PopTerminator`: the first filter. `Compress`, `ReturnFrame`: the second, cut
  at the push that may wait. `WritePacket`, `ReturnPacket`: the third. `Turn` is
  `serial_in_order`, `Tokens` the argument 32 of `parallel_pipeline`.
* `BeginClose`, `PushTerminator`, `EndClose`: `close()`, which holds the lock until the
  pipeline thread has ended. It is called once.
* A frame is the number of its period, timestamp times frame rate. `WriteIndex` computes
  with these numbers what the code computes with `int(ratio - 0.5)`.

`RecordedClip` is the abstract specification: `pending` frames are accepted in increasing
order while the clip records, are stored oldest first, and the clip closes when none is
left. `KeepsClip` maps to it the queue, the frames with a frame object and the packets
that wait as `pending`, `m_written_packets` as `stored`.

`AvaReader` reads the file the model wrote: an offset is the number of a packet, an entry
of the index is one or `Missing`. `FrameOffset` is `_get_frame_offset_skip` with its two
directions, `NextOffset` and `FrameSize` the size computed from the neighbours,
`RefusesMissing` what a reader told to skip missing frames does. The writer puts the zeros
of a gap behind the packet that follows the gap; `EveryPacketIsShown` says that playing
the film is right all the same.

`RawDevelopment` has the two developments of a sample as operators: black point, the
alignment of words, the integer gain with its product in 32 bits and the clipping; and the
floating point one, rounded down to units of 16-bit white. `Faithful` compares them on every
sample of a format: black is black; unless the product leaves 32 bits (`Overflows`) the two are
near each other and no brighter sample is darker; and the product leaves them only for what
is whiter than white. `DevelopmentsAgree` takes samples of 8, 10 and 12 bits, the gains the
cameras have by default, and two black levels.

## 5. CaptureSession

| Variable | Code |
|---|---|
| `loc` | the `CaptureLocation` row: project, `cur_session`, `cur_shot` |
| `sessions`, `shots`, `takes` | rows; a shot has its name and `next_take`, a take its `sequence` and the clips of its camera rows |
| `online`, `row` | the online flag of a node, whether its camera has a row |
| `cam` | a node and its camera: plugged, capturing, recording, for a single image, with its trigger held, in the list of recording cameras; the clip of the last summary, the clips made, whether the sync box of the node pulses |
| `late` | requests that timed out and that the node may still execute |
| `h` | the open requests: their phase, the location and shot they read, answers they got |

A handler is a list of phases (`Steps`). A phase that talks to nodes sends to all that were
online when the request was opened; each may answer (`Answer`, which does what the node
does, `Execute`), run into the timeout (`GiveUp`), or get lost (`Lose`, after which the
node may or may not execute it); `Barrier` ends the phase, as `g_pool.map` does. A phase
on the database is one action: `Slate` (`create_session_shot`), `FileTake`/`FileTorn`/
`Unfiled` (`register_new_take`), `CountTake` (`increment_take`), `CreateSession`,
`CreateShot`, `SaveOptions`, `DefaultProject`; each saves the whole row it read when the
request was opened. The nodes' own steps are `BurstEnds`, `Keepalive`, `LateRuns`; faults
are `Crash`, `CloseNode`, `Unplug`, `Replug`, `Toggle`, `Lapse`.

History variables say which promise is made when: `calm` (recording requests have not
overlapped), `fresh` (pages sent the current session and shot), `hurt` (nodes that a fault
has touched), `torn` (registrations that raised). Without `calm`, take numbers repeat and
shots stray from their session: two handlers hold the same rows. The frontend disables a
button while its own request is open, not the buttons of other pages.

Assumed: a node executes one request at a time and has one camera.

## 6. CameraSettings

| Variable | Code |
|---|---|
| `row`, `loc` | camera rows; the options of the location |
| `node`, `cam` | what a node and its camera hold: a bit depth each, the value of a setting, `using_sync`, an option |
| `mail` | the keepalive that asks for all settings, and its answer on the way |
| `req` | open requests that change a setting, or hold the row of the location |

A setting takes two ways: the handler that changes it also posts it (`SaveCamera`,
`PostCamera`; for a location the other way round, `PushOptions` to each node and then
`SaveConfig`), and a node that started or found a camera asks for all of them (`Ask`: the
rows are read into the answer; `Apply`: the node takes it). `Keepalive` makes and deletes
the rows of cameras, `Shutdown`, `Startup`, `Unplug`, `Replug`, `Lapse` are the life of
nodes, `Record` and `StopRecording` freeze and release the bit depth of a camera.
`missed` names nodes to which a post was lost or whose settings overlapped with another
request for them, until they ask again: nothing in the code repairs these earlier.
`fresh` names cameras plugged in that have not recorded since: they capture with the
depth of the camera until their first recording ends.

The options of a location have writers that do not know of them. Starting and stopping a recording,
a single image, a new session or shot and the page of cameras read the location row (`OpenRow`), the
stop of a recording seconds before it is done, and save it whole (`SaveRow`; `capture/views.py`
84, 198, 636, 782, 1003): what `location_config` has saved and pushed in between is reverted in the
row, and nobody tells the nodes. `due` remembers the options that a node was last to have
(when it asked, or when they were configured), `behind` the nodes for which the row has
been put back since.

## 7. ArchiveExport

| Variable | Code |
|---|---|
| `take` | the take rows: there or deleted, with cameras or not, the one export path |
| `src`, `dest` | files on their recording machine; files at each export path: none, a part, whole |
| `jobs` | farm jobs in the order they were made, with class, status, node, parent, dependency and arguments |
| `run` | what each machine does: which job, at which entry of its list, in which phase of it |
| `req` | open requests with the row they read |

The jobs go through their lists in order. `CopyFiles` copies all of them (`SkipFile`,
`MissFile`, `BeginFile`, `EndFile`, `LoseFile`) and then deletes the sources
(`EraseSource`, `FailRemove`); `DeleteFiles` goes through recorded and exported files;
`ExportTake` is `LaunchCopy` per machine and `YieldToChildren`. A copy is open between
`BeginFile`, which removes the destination and opens it again, and `EndFile`: a `Kill`
there leaves a part. `Settle` is `UpdateParentJob`. The requests are cut between their
queries: `SaveExport`, `SubmitExport`, `SubmitThumbnail`, `ReleaseThumbnail`;
`GatherFiles`, `DeleteRows`, `SubmitDelete`; `ReadUpload`, `SaveUpload`. `Crash` ends a
request where it is. `RestartJob` and `CloneJob` are offered for every job that has ended or
waits, the thumbnail among them; a clone has no parent and no dependency.

The farm is reduced to what these jobs see of it. That one heavy job at a time runs on a
machine is the channel capacity of the client, and JobFarm shows one way round it (two
jobs given out together after a lost reply, listed as a hazard).

`FootageCustody` is the abstract specification: a file is whole at some places, gets to a
place only as a copy of a place that has it, and leaves its last place only after somebody
asked for its deletion. The mapping takes the recording machine and each export path as
places: a file is at `Local` if it is in `src`, and at a path if `dest` there is whole.

`strayed` names takes that left the promises of the other properties: exported a second
time to another path (the row keeps one), restarted without their machine, resumed with a part of
the children, or with a file that `os.remove` failed to delete. Footage stays in custody of these
too. `overtaken` names takes with a deletion that found, when it deleted the row, that the row was
gone or that an export had saved its path since the list of files was made: the list lacks the copies
this export makes. `DeletedStaysGone` holds for these too, for what the list names.

## 8. AwsNodes

| Variable | Code |
|---|---|
| `inst` | the instances in EC2 |
| `row` | node rows: instance known, `aws_instance_state`, age of its last change (`MonitorField`), age of `last_activity` |
| `job`, `client` | a reduced farm: jobs made, reserved, running, ended; the client's two containers |
| `poll`, `start` | the open poll of each client and the open requests to start an instance, with the rows they read |

`ReadNode`, `LookUp`, `KeepUp` or `StopIdle`, `SaveNode`, `ServeJobs`, `Receive` are the poll;
`OpenStart`, `CallStart`, `SaveStart` the start by a user. Calls to EC2 fail (`LookUpFails`,
`StopFails`, `StartFails`), replies are lost, a handler dies between the call and the
`save()`. Time is `Tick`; `Idle` ticks are the ten minutes. A tick comes only while no
request is open, since requests take seconds: what is left out is a request that stays
open for minutes.
`cut` names machines with a poll that died between the call of EC2 and its `save()`, or that
were looked up in vain while they did not run; for these the code does take work to a stopping
machine. A start that dies there does no such harm, and is not in `cut`.

## 9. HardwareSync

| Variable | Code |
|---|---|
| `box` | the Arduino: booted or not, the sources it pulses from, `framerate`, `pulse_duration` |
| `inbox`, `port` | commands it has not read; answers in the serial port of the node |
| `link` | `find_hardware_sync`: port open, "I" sent, how often |
| `node` | `m_sync_active`, framerate, duration and mode of the node |
| `call` | the call of `start` or `stop` in progress: its command, its try |

`Serve` is `loop()` of the sketch with its arithmetic. Framerate and duration travel as two digits
in base 255 and are put together in an `int` of 16 bits (`Int16`), in which a duration above
32767 turns negative; so is the cap of a pulse; the two are compared as `unsigned long`
(`UnsignedLess`, `PulseWidth`, `ExternalWidth`). `Ticks` is how long the timer then counts, again in
16 bits. `asked` remembers the duration of the command that the box has obeyed. `OpenPort`, `Ask`, `Found`, `NotFound`
find the box; `Send`, `Acknowledged`, `TimedOut`, `PurgeFails`, `PortFails` are the tries
of a call. `SetFramerate`, `StopSync`, `StartRecordingSync`, `StartPreviewSync` are the
calls of the capture node, which believes in its pulses whatever became of the command.
Boards with and without a reset on opening the port, a reset at any time and an unplugged
box are there. Assumed: a box that has booted answers in time (20 ms against 500 ms), and a
command arrives whole or not at all. `slow` records that an answer was late or that the
box failed; from then on answers in the port may be those of earlier commands.

## 10. Runs

Every bound is a constant of its run. Requests of users are bounded in all runs but those
of the farm without users, and a system whose requests are used up comes to rest; these
runs do not look for deadlocks (`CHECK_DEADLOCK FALSE`), and say by properties what must
go on. The farm never rests, and its safety runs look for deadlocks.

| Run | Instance | Properties | Shows |
|---|---|---|---|
| `farm_live` | 2 jobs, 1 client, 2 lost polls, 1 crash, 1 silence of two hours, slow wrapper threads, fairness | `StartedJobsSettle` `ResultsAreDelivered` | lost messages, restarts and silences delay jobs and results, nothing more: each job settles |
| `farm_users` | 2 jobs, one released late, 2 clients; 1 user request of any kind or 1 crash, or a crash and the deletion of the family | `TypeOK` `LostIsLost` `StoppedUnlessSilent` `ExclusiveExecution` `RestartLosesNothing` | users and crashes at any point of any poll never let two machines run a job; a requested restart abandons none |
| `farm_family` | 4 jobs: export, two copies, a thumbnail; 2 clients, one of which can export | `SubmitUnique` `DependenciesHold` `TerminalMeansStopped` `VerdictWaitsForChildren` | no job is started twice; success and failed are said of what has stopped, of a parent after its children, and are waited for |
| `farm_parent_stuck` | 2 jobs, no fault, fairness | `WaitingParentsSettle` violated | finding 1 |
| `ava_writer` | 6 periods, queue and pools of 3, 2 tokens, fairness | `TypeOK` `ObjectsBounded` `FramesAccountedFor` `EveryPacketIsShown` `FilmIsDeveloped` `KeepsClip` `CloseEndsIfPoolHolds` | a recorder implements `RecordedClip`; frames and objects are conserved; with few objects it closes; the reader plays what it wrote |
| `ava_close` | the same | `CloseEnds` violated | finding 2 |
| `capture_take` | 2 nodes, 2 open requests, 3 requests of 7 kinds, 1 of 7 faults; 2 places for requests that overlap and the fault | `TypeOK` `ClipInOneTake` `FaultStaysOnItsNode` `TakesNumbered` `ShotOfSession` `NoRequestHangs` | what is recorded is filed once and in order, and a fault of a node costs the clips of that node |
| `camera_settings` | 1 node, 2 open requests, 2 values, 3 requests, 3 events | `TypeOK` `SettingsAgree` `RecordsAtDepth` | a node that has settled has the settings of the database; options of the location that an older row has overwritten stay on the node |
| `archive_export` | takes from one and from two machines; 1 export, 1 deletion, 2 faults or a restart and a fault, 1 of them next to a deletion, but 2 while a deletion is on the wrong machine | `TypeOK` `FootageInCustody` `CopiedMeansWhole` `ThumbnailFindsFiles` `DeletedStaysGone` | the archive implements `FootageCustody`; copies that succeeded are whole; what a deletion has listed is gone for good |
| `archive_skip` | 1 take, 1 export, 1 kill, 1 restart | `EverythingCopied` violated | finding 3 |
| `aws_nodes` | 1 instance, 1 job, 2 users, 2 starts, 1 fault, fairness | `TypeOK` `StoppedHoldsNoWork` `StartedStaysUp` `IdleIsStopped` `ReservedEnds` | idle instances are stopped, busy ones never, nothing waits for a stopped machine |
| `hardware_sync` | rates {0, 14, 20, 60, 500}, durations {0, 2000, 30000, 40000}, boots of 6 timeouts, 2 faults | `TypeOK` `BoxFollowsNode` `PulseFitsPeriod` | pulses follow the settings of the node and fit their period, but for a duration that wraps at a rate whose cap overflows |

### Why the bounds are enough
*Farm.* The safety runs have two clients: fewer cannot compete, and a handler looks at its
own node and at "the others". The jobs are those of an export. Everything but faults and
user requests repeats for ever, so that one of these can meet every state. The two
clients are interchangeable in `farm_users`, the two copies in `farm_family`.
`OneThenDeletion` keeps `farm_users` to one incident, and to two where a deletion leaves a
handler with rows that are gone. A client cut off for two hours, lost polls and slow
wrapper threads, next to a second client, are not in the safety runs: the theorems of
section 11 have them, for any number of clients, jobs and incidents, as far as the
properties hold; "Known limits" below says where they stop. Liveness needs a single client:
what delays a job or a result is its own node, and a client that crashed is found by its
own next poll or by its own clean-up after two hours.

*Recorder.* The capacities keep the proportions of the code: a queue and two pools of one
capacity, and fewer tokens (300, 300, 300, 32 become 3, 3, 3, 2). Six periods fill the queue,
both tokens and the hand of the capture thread at once, refuse a frame, and skip periods;
the camera may stop at any of them.

*Capture.* Two handlers are what overlaps; three requests are a recording (start and stop)
with one of every kind inside or behind it. `AtMostTwo` lets three requests and a fault
follow each other, and overlapping ones share two places with the fault. Two nodes
tell a fault that stays on its node from one that does not. The settings of nodes are
independent of each other, so `camera_settings` has one node; one value to change to and
one to change from; three requests are two that change the options and one that holds the row; three events are a restart in the middle of a recording, or a camera
that is unplugged, plugged in again and lost.

*Archive.* The first take has a file on one machine, so that a job can be killed with a part
of it copied, and a second machine that does not see it; the second take has a file
on each machine, so that an export has two copies. Both are needed and never meet:
`OneTake` lets a behaviour name one of them, limits faults and restarts to two together, to
one with a deletion (unless that deletion was started again and has no machine or the wrong
one) or the second take, and leaves the deletion of the second take out.
`FilesStayInCustody` (section 11) has any number of takes, files, faults and restarts.

*AWS.* Two ticks of idleness tell "just now", "a while ago" and "ten minutes". Two users can
press the button for one instance. Machines share no row, so one is enough.

*Sync box.* The rates reach below and above what is clamped, either side of 28 Hz where the
cap of a pulse may overflow (14 and 20 Hz: only the second turns out too long), and the default;
every duration is below, at or above the cap of some, and 40000 us wraps.

### Fairness
`AvaVideoWriter`: weak fairness of every step of a thread that has something to do: the
scheduler of the system runs them, and TBB runs a filter whose input is there. Nothing
is assumed of the camera or of the request that closes the recorder.

`JobFarm`: weak fairness of the poll of each node (`loop_forever` polls for ever and the
server answers), of the end of every process and of the two wrapper statements, of the
release of a created child (the next statements of the same process), and of
`StartClient` (the client's machine starts it again). Nothing is assumed of users,
faults, or of the scheduler choosing a given job.

`AwsNodes`: weak fairness of the steps of a poll and of a request, of an instance coming up or
going down, and of the end of a job; strong fairness of `Tick`, since requests that keep
coming do not stop the clock. Nobody has to start an instance or to make a job, and no
call to EC2 has to succeed but those that are repeated without a fault of the budget.

`NoRequestHangs` is not about fairness: it says that the handler of an open request always has
a step to take, whatever its nodes do.

### Findings
1. *A parent whose children are faster than its own report waits for ever*
   (`website-backend/ava/jobs/views.py:661`, run `farm_parent_stuck`). Children can be
   scheduled as soon as they are launched, before the parent's "waiting" is recorded. If the
   last one is settled first, `UpdateParentJob` still sees a running parent, and nothing looks
   again once it waits.
2. *A recorder that fell behind never closes* (`capture-node/source/video_writer_ava.cpp:176`, run `ava_close`). Up to
   300 + 32 + 1 frame objects can exist, the pool takes 300, and the push that gives them
   back waits. While frames are appended the pool is emptied again; during `close()` it is
   not, the last frames in flight wait for ever, and `join()` with them. `FramePoolSuffices`
   proves which capacity is enough.
3. *A restarted copy takes a part of a file for the file* (`job_client/jobs/archive.py:179`, run `archive_skip`). A copy
   killed in the middle of a file leaves a part. Restarted without its machine, which is
   what the page sends unless told otherwise, it may run where the source is not visible;
   a file that exists at the destination and not at the source is skipped, whatever its
   size, and the job and its export succeed.

### Known limits
Met while the bounds were chosen, and listed as hazards with the property they limit:
* a clean-up holds the row of a job that a user restarts in the meantime, and fails it:
  `StoppedUnlessSilent` leaves users next to a crash out, and clients that are cut off;
* a reply that is lost leaves its results in the client, which sends them again: a result
  that a user has restarted in between settles the job a second time (so
  `StoppedUnlessSilent` leaves users next to a lost message out, too), and the second
  "waiting" of a parent that its children have settled makes it wait again, for ever;
* a job reserved for a machine that never comes back stays reserved
  (`StartedJobsSettle` assumes that machines come back);
* a channel counts running jobs, so that after a lost reply two jobs of one channel are
  sent together;
* takes that left the one-path, one-machine discipline (`strayed`), requests of pages that
  overlap or are out of date (`calm`, `fresh`), settings lost on the way (`missed`), and machines EC2 was told about
  without the row knowing (`cut`): each history variable is set exactly where the code
  loses the information, and the properties say what holds without it;
* a deletion lists the exported files of a take (`archive/views.py:201-220`) before it deletes the
  row (223); an export that saves its path in between (549-551) copies files that no list and no
  row names. They survive the deletion: `DeletedStaysGone` says that what the list names is gone, and
  everything if no export came in between (`overtaken`);
* an option of a location that is configured while a recording is being stopped is reverted in the row
  by the save of the whole row (`capture/views.py:438`, 198), but not on the nodes, which keep the new
  one until they ask again: a location then records at a bit depth that its row does not have.
  `SettingsAgree` and `RecordsAtDepth` say that nodes have the options last configured, and those of the
  row unless this happened (`behind`);
* products that leave 32 bits in the integer development (`Overflows`), which the default
  gains reach on bright pixels: those whiter than white come out dark;
* pulses of 32768 to 65000 us, which the page offers (`live.html:262`) and `hardware_sync.py:73`
  lets through, wrap in the 16 bits of the box (`ximea_camera_sync.ino:195`). Above 27 Hz, and at the
  few rates below whose cap does not wrap to something negative, the cap still shortens them; at 2, 4, 8, 9
  and 15 to 27 Hz it overflows too (132), and the pulse never ends, at 40000 us and 20 Hz for instance.
  `PulseFitsPeriod` says that these are all the cases;
* `purge_port` of the sync box calls a method that does not exist: one late answer makes the next
  start fail all its tries.

## 11. Proofs

All theorems are for arbitrary values of the constants under the named assumptions, which
TLC evaluates in the runs. TLC checked each invariant, and the inductive ones, before they
were proved.

**`JobFarm`** (`JobFarmProofs`). `TypeCorrect` (`TypeOK`) and `LostNeverRuns` (`LostIsLost`), for any sets of jobs and nodes, any parent and dependency relation
and any budget. Neither formula is inductive. `FinishJob` writes the result of a job
in the request's list into the status column, so that types need `FinishesReported`:
the loop only visits jobs with a result. `LostIsLost` compares the server's loop with
the client's threads; it follows from `ReportCovers` (from the moment the keys are read
until the reply is handled, the client's threads are among those in the request, because
only a reply starts threads) and `LosesUnreported` (the loop only visits jobs of this
node that are not in the request). `IInv` joins the three with `TypeOK`; the proof has a
lemma per group of actions, and one per operator of the handlers.

`ExclusiveWithoutUsers`: as long as no user has acted, no two machines
run one job (`ExclusiveExecution`), whatever is lost, crashes or is cut off. "As long as"
is the form of most theorems of the farm: `BudgetShrinks` says that what was used of a budget
stays used, so that an invariant which only the steps of users break holds until the
first of them, `Spec => [](Used("user") = 0 => ...)`, for every budget. The inductive invariant
`XInv` adds `Ownership`: whatever has a thread, is in a
reply under way, or is about to be saved by a loop over lost jobs belongs to that node in
the database and is not waiting to be given away. The key lemma, `OwnedForEver`, says
that no step takes an owned job from its node: jobs are given away only while "ready",
and only users make a job "ready" again.

*Settling*. Steps are first reduced to what they do: `StatusMoves`
says in which four ways the status of a job changes (`Advances` towards a machine,
`Marked` as running, `Saved` by a loop, `Judged` as a parent), `EveryMove` which
of fifteen moves a node makes. `RepliesBringNewJobs` (`SubmitUnique`, as long as no user has
acted) rests on `ReportInv`: what a request named is no longer "reserved" once its loops are
through, and a result that a request lacks belongs to a job it calls running.
`DoneJobsHaveStopped` (`TerminalMeansStopped`, as long as no user has acted and no client was
cut off) and `VerdictsWait` (`VerdictWaitsForChildren`, for budgets without these
steps) need `BInv`: a client that is overdue is down (`Down`), so that
the jobs a clean-up fails are gone from their machine (`CleanDead`); a reply under way brings
jobs that are still reserved (`ReplyReserved`); what a machine works on is not done
(`BusyOpen`), and what is reported has ended (`ResultEnded`); nobody but its own report
settles a job that waits (`LoopOpen`, `ResultSent`, `WaitKept`). Lost messages and
crashes are unlimited. Both conditions are needed (see "Known limits").
`DependenciesStayMet` (`DependenciesHold`) has one condition more, no lost message: the
repeated "waiting" of a settled parent is a success that ends. The scheduler compares
dependencies once, so that the property needs `SuccessStays`, and that needs `UnsettledOpen`:
while a handler may still hear of a job from its node, or mark it as running, the job is not
done. `DependenciesBorn` says that rows depend on rows that are there; for those of the initial
state it is a hypothesis of the theorem, the foreign key of the table.

*Users*. With any requests of users, but without lost messages, crashes
and silences, and if no poll begins between the last two statements of a wrapper and users restart
only jobs that are done or wait, as the page lets them (`Setting`): `ExclusiveWithUsers` (`ExclusiveExecution`) and
`DoneJobsHaveStoppedWithUsers` (`TerminalMeansStopped`). A deletion or restart can meet any
step of a poll, so that ownership in the database is no longer enough. `CInv` follows the
claims on a job instead: a node has a claim while its thread runs, its result is under way, or
a reply brings the job. `OneClaim`: no two nodes have claims on one job;
`ActiveLive`: a job that the database calls running has a claim at its node; `RunningLive`
and `LiveMarked` connect requests and claims. `StoppedWhenDone` joins the two halves
into `StoppedUnlessSilent`, the invariant of the run. `RestartsLoseNothing`
(`RestartLosesNothing`): a client that was asked to restart exits only when no job of
its node is open in the database; `RestartInv` says why nothing is reserved for it in between (the
poll that carried the request was answered without the scheduler, and what was reserved before
has a claim).

**Recorder** (`AvaVideoWriterProofs`): for any number of frames and any capacities that
satisfy `CapacityAssumption` (a queue of at least one, at least one token, and a pool of
packets no smaller than the number of tokens, as 300 and 32 are),
`WriterTypeCorrect`, `ObjectsAreBounded`, `FramesAreAccountedFor`, `PacketPoolSuffices`,
and `RecorderKeepsClip`: `Spec => KeepsClip`. One inductive invariant carries them:
`Locking` (a frame is in hand exactly while the capture thread holds the lock, and never
while somebody closes), `Ending` (the terminator is the last element of the queue, and
once it was popped nothing follows), `Filters` (a frame is in one filter), `InOrder`
(written < in flight < queued < in hand < to come) and `Counts` (sizes of these sets).
`Counts` needs the others: a set grows by one only if the new frame was not in it, which
is what `InOrder` says. The refinement maps each action to `Accept`, `Store`, `BeginClose`,
`EndClose` or a stutter (`ClipStep`): that the frame a packet belongs to is the oldest
pending one follows from `Turn` and `InOrder`, that nothing is pending at the end from
`Ending`. `FramePoolSuffices` states the repair of finding 2: with a pool of
`QueueCap + Tokens + 1` places no thread waits for room in it.

**Reader** (`AvaVideoWriterProofs`, second half): `FilmsShowEveryPacket` (`EveryPacketIsShown`) and
`FilmsAreDeveloped` (`FilmIsDeveloped`), also for any number of frames and any that are missing. The
invariant of the steps is short (`FileInv`: packets are written in increasing order, and a
closed file has the index of `WriteIndex`); the work is in what the index is and what the
walks over it find. Both are recursive: the writer flattens one
sequence of entries per packet, and the reader goes back or forth until an entry is
present. What they compute is shown by induction, which has to be derived first, as the library's
induction theorems take an operator and the provers cannot instantiate it. `Least` (a set of
numbers that is not empty has a least element) follows from facts about sets in the
library, `Inductive` from it. `Flattened`, `SkipsForward` and `SkipsBackward` then say that a function that
satisfies the recursive equation is the one that the definition chooses, so that it is
enough to write such a function down. `IndexWritten` gives the index
in closed form: packet `i` has the entries from `Begins(W, i)` to `Ends(W, i)`, its own first
and the missing ones behind it; `Slots` and `OneSlot` say that these ranges follow each
other and cover the index. `Skips` says where each walk ends: at the first entry of the same packet
and behind its last one. `Reads` concludes that the size computed from the two is one packet.
`FilmsAreDeveloped` is about arithmetic and does not depend on what was recorded: it states
`Faithful` for every sample of the three depths, the three gains and every black level, of which the
run takes two, and concludes `FilmIsDeveloped`. Its parts are `LightGrows`, `SameLight`,
`BrighterLight` and `WhiteOverflows`; `Products` bounds how far the 32-bit product is from the exact
one. The gains are not arbitrary: with some others bytes come out further apart than a hundredth.

**Sync box** (`HardwareSyncProofs`): for any framerates, durations, boot times and number of
faults, `TypeCorrect`, `PulseFits` (`PulseFitsPeriod`) and `BoxFollows` (`BoxFollowsNode`).
`PulseFits` rests on the arithmetic of widths: `Wraps` says what becomes of a duration in 16
bits, `CapSign` at which framerates from 1 to 300 the cap is negative, `WidthFits` that a width below a
period ends in time, `ShortEnough` that this is so of every duration that does not wrap or meets
another framerate, `TooLong` that the rest is not. `BoxFollows` needs
to know what is on the line. `Matches`: the last command of a call is what the node now asks
for. `Delivery`: that command is last in the line or has been obeyed, unless the box lost it when it
booted. `Prompt`: as long as nothing was late, at most one command or answer is under way
(so that an answer belongs to the last command). `LinkInv` and `WidthInv` carry discovery and
widths. Every action has a lemma per part.

**Archive** (`ArchiveExportProofs`): `FilesStayInCustody` (`Spec => FootageInCustody`: the archive
implements `FootageCustody`) and `TypeCorrect`, for any takes, machines, export paths, open requests,
restarts and faults, under `ArchiveAssumption` (there is a take, "no path" and "no
machine" are not among the paths and machines) and `LocalAssumption` (the disk of a
machine is no export path). `FootageInCustody` alone is not inductive: `EraseSource` deletes
a file without looking at the destination. Two facts carry it. `Copied`: the files a CopyFiles job
has passed are whole at its path, or gone from the disk, or of a take that was deleted.
`Write`: a machine that writes a copy still has its source. Both hold although other
jobs may copy, delete or overwrite the same files, because only the recording machine itself
touches its disk and writes copies of its files (`OtherFiles`), and it runs one of
these jobs at a time. For that the job of a machine must stay its job: `RunInv`, `Argued`
(jobs keep their arguments, only deleted takes have DeleteFiles jobs, only copies have parents)
and `Childless` (a job that waits for a machine has no children left, so that starting it
deletes nothing that runs). `Move` says once what every step may do to jobs and
machines; each action has a lemma that it moves so, `MoveKeeps` that the invariant survives it,
and `WorkCustody` maps the steps to `Copy`, `Drop` and `Release`. The theorem
holds for the restarts of finding 3 too: there an export may succeed with a part of a file, but the
source is still in its place.

`DeletedFilesStayGone` (`Spec => []DeletedStaysGone`), for any number of deletions, exports and
open requests: when the DeleteFiles job of a machine has succeeded, no file of the take that it
names, there or at its path, is left or comes back, and none at any path if the deletion was
not overtaken. `DInv` has these parts. `At` (`Placed`): the row of a take that was not overtaken, its jobs,
its open requests and its files name one path, or no path while it was not exported. `Owned`: a deletion
stays on the machine whose files it deletes. `Progress`: what it has passed is gone, there and at its
path. `Listed`: the property itself, for that path. The copies elsewhere follow from `At`.
`NothingReturns` says why that is enough: a step writes a copy only of a file that is still on its
machine. `At` is where requests that overlap matter: a request goes on with the row it has read, so
`Told` says of each step where the path of a request may come from (the request itself, the row
as it now is, or the row it has just deleted), and `PlaceKept` that the place then survives.
The second half of the property is false of overtaken takes, with a single deletion already (section 10,
"Known limits"), and so it is when two deletions overlap an export: the first to list may be the last
to find the row, and succeeds before the other deletes the exported files.

`CopiesAreWhole` (`CopiedMeansWhole`) and `ThumbnailsFindFiles` (`ThumbnailFindsFiles`) are action properties:
in the step in which a copy succeeds, or a thumbnail job starts, the files are whole at the
path of the job. They hold for takes that were not deleted and have not strayed. The job itself looks at nothing but the
file that it is copying, so that the argument goes the other way round. `Held` restates custody: a
file that is not on its machine is whole at some path, and by `At` that can only be the path of the
job. It is therefore enough that the machine is empty. `Emptied` says so of the files that
the second round of a running copy has passed, `Moved` of a copy that succeeded, and
`Complete` of an export that succeeded: while it waits it has a copy for each machine of the take
(which is what a `RestartFailedChildren` of a half launched export breaks, and why such a take has
strayed), and it succeeds only when all of these have. A clone of a thumbnail job needs no
export. `Viewed` says that the machines of a take are empty once its first thumbnail has begun, and
`Watched` that a step begins a thumbnail by `StartThumbnail` or by cloning one that has begun. `EInv` joins them; it needs both
`IInv` and `DInv`.

**AWS instances** (`AwsNodesProofs`): `NoWorkWhenStopped` (`StoppedHoldsNoWork`), `UpForTenMinutes`
(`StartedStaysUp`) and `TypeCorrect`, for any machines, jobs, users, length of the ten
minutes, starts and faults, under `AwsAssumption`. The backend decides on a row that it read
some steps ago and that a poll and several starts save over each other. `Known` says how far
the farm can be wrong: a row that says "running" is right except between the stop of an idle
machine and the save of the same poll, and its clock never runs ahead of the instance. That
needs `Opened`: while a start is open, neither the row nor the poll of its machine has said
"running" for ten minutes, so that nobody stops the machine under it; and `Read`: only a
start that saves "pending" or "running" comes between a poll and its row. `Held` relates
the jobs of client, poll and database: what a client runs was reserved for its machine,
what a reply brings is not what the client has already, and a client that is gone does not
hear it. Each action is first reduced to what it changes (`StepShape`); the parts of the
invariant are then shown of these shapes.

**Recording** (`CaptureSessionProofs`, `CaptureSessionTakeProofs`): for any handlers, nodes, kinds of
requests, and numbers of requests and faults, `TypeCorrect`, `ClipsFiledOnce` (`ClipInOneTake`),
`ShotsOfTheSession` (`ShotOfSession`), `TakesAreNumbered` (`TakesNumbered`) and `FaultsStay`
(`FaultStaysOnItsNode`). None of them is inductive. `TInv` adds to the types that the shots to which rows and
requests refer exist (`create_session_shot` indexes them). `ClipInOneTake` needs `SpentInv`: once a
clip was reported, its camera neither records it nor has it in its summary, whichever
requests it executes, and `ApartInv`: no other request or take has it. It holds without any condition.

The other three speak of requests that do not overlap (`calm`), since the known limits (section 10)
break them otherwise. `CalmInv` says what the one open request knows: from the
moment it has read the location row, its copy is the row, so that saving the whole row
loses nothing; a handler that made a session or a shot carries the pair that it
will save; a handler that is about to count its take has the counter of the shot as it is. With it,
`NumInv` counts: the takes of a shot have exactly the numbers up to its counter, one more
while a handler is between `register_new_take` and `increment_take`. Takes whose registration
was cut short are left out, as in the property.
`FaultStaysOnItsNode` is a ledger (`LedgerInv`): each clip of an untouched node is in the camera,
with an open request, or in a take. It needs that requests reach the node and do not time out there (`SoundInv`: it
is online, has its row, is in the list of every open request, and nothing late will reach it), that a
camera which closes its clip by itself has an `all_finalize_single` coming (`BusyInv`), that a node
that made a clip has a location with a session, so that the take is not refused (`BusyInv`, with `Whole`
in `CalmInv`), and that clips wait only with handlers that will file them (`BelongInv`). What a handler's
step does is stated once, in the lemmas `...Effect`; the later invariants are proved from these.

**Settings** (`CameraSettingsProofs`): for any nodes, open requests, values, and numbers of requests and
events, under `SettingsAssumption`, `TypeCorrect`, `SettledNodesAgree` (`SettingsAgree`) and
`RecordingsAtDepth` (`RecordsAtDepth`). The properties speak of nodes that have settled; the invariant has to
say what the rows and such a node have in common before. While a request is open for a node
that was told everything else (`Told`), they differ in what the request has done to one of them
only: `Under` says for each kind and stage of a request which. This needs that the node has one open request
(`OneRequest`; requests that overlap put it into `missed`), and for a node that has asked, that
the answer under way still has the rows as they are (`MailCurrent`): a request that opens in between makes the
answer count as one that may be old; and the row of a camera is deleted only while the camera is unplugged,
which makes the node ask again. All of this is said of `due`, the options last configured or asked
for; that `due` is the row for nodes that are not `behind` is a conjunct of its own. `AtDepth` (a camera that does not record has the bit depth of its node,
unless it was plugged in since) gives the last theorem; it is why `StopRecording` must set the depth.

**Not proved.** Only model-checked are the properties under fairness, `StartedJobsSettle` and
`ResultsAreDelivered` (JobFarm), `CloseEndsIfPoolHolds` (AvaVideoWriter), `IdleIsStopped` and
`ReservedEnds` (AwsNodes), and `NoRequestHangs` (CaptureSession), which is about `ENABLED`: the
prover has no rules for either. Every other property of a passing run is a theorem. The
properties of the runs that end in a counterexample are false, so there is nothing to prove.


## 12. Not modelled

* *`AviVideoWriter` and `SimpleImageRecorder`*: the first drives FFmpeg behind two queues
  of its own and is used for previews in H.264; the second has a queue of 30 images and a TBB
  pipeline of two filters in a thread of its own, which writes single images in parallel, has no
  pools and drops nothing: `append` waits for room. The .ava writer is the one every recording has.
* *Threads inside one capture node, several cameras per node*: `GotoState` takes no lock and
  camera objects are shared by HTTP and capture threads. What the node does to a camera
  is modelled as atomic per request.
* *`UpdateParentJob` cut into its queries, grandparents*: one step of `FinishJob`; jobs of
  the repository have two generations. The hazard is listed.
* *ROI, audio, roles of cameras, messages, pages, permissions*: one more setting of the kinds
  that are modelled, or read-only.
* *Creation of EC2 instances, changes made in the EC2 console, regions*: no state of the farm
  depends on them before the first look-up.
* *Import of sessions, scan and tracking assets*: rows copied or created by hand, with jobs of the kind
  that is modelled.
* *`SingleInstance`*, the lock that keeps a second client off a machine: JobFarm has one client per
  machine.
* *Demosaicing, resizing, rotation, sRGB*: pixel arithmetic without state.
* *Web frontend, accounts, site, migrations, static files, node tools*: see section 1.
