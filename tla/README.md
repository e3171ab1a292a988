# A formal model of HiStreamer

HiStreamer (multimedia_histreamer) is the streaming engine of OpenHarmony's
media stack: a pipeline of filters driven by threads, with a player and a
recorder on top of it, and plug-ins that do the work below it. This directory
holds TLA+ models of its components, TLC configurations that check them on
small instances, and proofs, checked by TLAPS, of what must hold for any number
of threads, buffers and sizes.

How to read it: section 1 is the system and what is hard in it, section 2 the
plan and how the modules depend on one another, section 3 the models one by
one, section 4 the runs with their bounds and fairness, section 5 what the
models found, section 6 the proofs, section 7 what is not modelled.

Paths below are relative to the repository, whose own `src/` directory holds
the newer inner library and whose `engine/` holds the player, the recorder and
their pipeline.

## 1. Inventory

### 1.1 Components

| Component | State | Operations | Interacts with | Module |
|---|---|---|---|---|
| AVBufferQueue (`src/buffer/avbuffer_queue`) | `size_`, `memoryType_`, `cachedBufferMap_`, `freeBufferList_`, `dirtyBufferList_`, listeners; `queueMutex_`, `requestCondition` | RequestBuffer, PushBuffer, ReturnBuffer, AcquireBuffer, ReleaseBuffer, AttachBuffer, DetachBuffer, SetQueueSize | producer, consumer and broker threads; calls their listeners | `AVBufferQueue`, `BufferHandoff` |
| Proxy, stub, Surface wrapper (`src/buffer/avbuffer_queue`) | copies of buffers on both sides; counts of surface buffers | the same calls through parcels, or turned into calls of a Surface | IPC, Surface | `RemoteQueue` |
| AVBuffer, AVMemory, AVSharedMemory (`src/buffer`, `src/common`) | base, size, offset, capacity, descriptor, mapping | allocate, read, write, travel, map, free | kernel | `BufferMemory` |
| Any, Meta, Format (`interface/inner_api/meta/any.h`, `src/meta`) | values in place or on the heap; maps of tags | copy, move, swap, put, get, to and from a parcel | everywhere; C API | `MetaFormat` |
| AVSharedMemoryPool (`src/common/avsharedmemorypool.cpp`) | idle and busy lists, one lock, one condition | Init, AcquireMemory, release by the last reference, Reset, SetNonBlocking | its memories call back from their deleters | `AVSharedMemoryPool` |
| Mutex, AutoLock, ConditionVariable (`src/osal`, `engine/foundation/osal`) | pthread handles, `condInited_` | lock, move, Wait, WaitFor, Notify | every lock of the engine | `OsalSync` |
| Task (`src/osal/task/pthread/task.cpp`, and once more in `engine/foundation/osal/thread/task.cpp`) | `runningState_`, `loop_`; `stateMutex_`, `syncCond_` | Start, Stop, StopAsync, Pause, PauseAsync, Run | used by nearly everything below | `Task` |
| Player state machine (`engine/scene/player/internal`), Synchronizer | `curState_`, `jobs_`, `pendingJobs_`; `waitSet_`, `syncMap_` | SendEvent, SendEventAsync, DoTask; WaitFor, Notify | runs in a Task; calls the executor (HiPlayer) | `PlayerStateMachine` |
| HiPlayer, lite (`engine/scene/player/lite`) | `pipelineStates_`, statistics, volume, duration, loop | SetSource, Prepare, Play, Pause, Stop, Reset, Seek, SetVolume, OnEvent | the machine executes its operations | `LitePlayer`, `PlayerStateMachine` |
| HiPlayer, standard (`engine/scene/player/standard`) | `pipelineStates_`, MediaStatStub | the same, PrepareAsync, OnEvent | PipelineCore, demuxer and sink threads | `HiPlayer` |
| Callback looper (`engine/scene/player/standard/hiplayer_callback_looper.cpp`) | a queue of events by due time | OnError, OnInfo, StartReportMediaProgress, Stop, loop | observer of the player | `CallbackLooper` |
| HiRecorder (`engine/scene/recorder`) | its machine and pipeline | SetSource, Configure, Prepare, Start, Pause, Resume, Stop, Reset | capture, encoder, muxer, output | `Recorder` |
| Pipeline core (`engine/pipeline/core`) | filters in order, `readyEventCnt_` | Prepare, Start, Pause, Resume, Stop, Flush, OnEvent, Add, Link, Remove | every filter; reports to the player | `PipelineCore` |
| Ports (`engine/pipeline/core/port.cpp`, filters) | links, work mode | Connect, Activate, Negotiate, PushData, PullData | neighbours in the graph | `Ports` |
| Pipeline, Filter (`src/pipeline`, `src/filter`) | the inner API's filters, links by stream type | Prepare … Release, AddHeadFilters, LinkFilters | jobs on other threads | `InnerPipeline` |
| Media sync manager (`engine/pipeline/core/media_sync_manager.cpp`) | clock anchor, state, sinks and prerolled sinks | Resume, Pause, Seek, Reset, UpdateTimeAnchor, ReportPrerolled | sinks ask it and wait for it | `MediaSync` |
| Codec filters, AsyncMode, SyncMode (`engine/pipeline/filters/codec`) | queues, `isNeedQueueInputBuffer_`, Tasks | Configure, HandleFrame, FinishFrame, Stop, FlushStart/End | plug-in callbacks | `AsyncCodec`, `Negotiation`, `AudioCodecs`, `FFmpegVideo` |
| Source filter and source plug-ins (`engine/pipeline/filters/source/media_source`, `plugins/source`) | position, readiness flags, a Task | SetSource, Prepare, PullData, ReadLoop, SeekTo | demuxer, pools, network | `Sources` |
| Demuxer filter, DataPacker (`engine/pipeline/filters/demux`) | a deque of ranges, previous position | PushData, PeekRange, GetRange, Flush | source thread, demuxer plug-in | `DataPacker` |
| Type finder, plug-in register and wrappers (`engine/plugin/core`, `src/plugin`) | tables, loaders, cache of the last source, states | Register, Unregister, FindMediaType; Prepare … Reset | filters | `PluginFramework` |
| Sinks (`engine/pipeline/filters/sink`) and their plug-ins | state, pending frames, device, surface | PushData, Start, Pause, Flush, Stop, callbacks | device, audio server, Surface | `AudioRender`, `AudioSinkPlugins`, `VideoSinks` |
| Captures (`engine/pipeline/filters/source/audio_capture`, `video_capture`) | times, calibration, agreed parameters | Prepare, Start, Pause, Resume, SendEos, ReadLoop | audio service, Surface, files | `Captures` |
| Muxer and output filters | tracks, five positions | AddTrack, Start, WriteFrame, Stop, PushData | libavformat, descriptor | `FFmpegMuxer` |
| Demuxer plug-ins | buffers, sample index, format context | Init, ReadFrame, SeekTo, SelectTrack, Reset | source callbacks | `FFmpegDemuxer`, `FrameDemuxers` |
| Codec plug-ins | caches, queues, component state | QueueInput/OutputBuffer, Flush, Start, Stop | libavcodec, HDI component | `FFmpegVideo`, `AudioCodecs`, `HdiCodec` |
| HTTP source, Downloader, HLS (`plugins/source/http_source`) | a Task, a queue of requests, `operatorMutex_`, ring buffer, play list | Open, Read, Seek, Close, Pause, Resume, HttpDownloadLoop | network, RingBuffer, BlockingQueue | `HttpSource`, `HlsSource` |

### 1.2 What is hard in this code

* **Hand-over between threads.** A buffer passes through five states and two
  lists; several calls give the lock up half-way. Frames go through queues whose
  two ends are filled, flushed and stopped by different threads.
* **Condition variables.** Every component sleeps on one and is woken by
  another thread; some state changes notify nobody, some waits have no
  predicate, some are tested without the lock that the notifier takes.
* **Joining under a lock.** `Task::Stop` joins the worker with `stateMutex_`
  held; `SendEvent` holds the Synchronizer's lock while it pushes into a queue
  that may be full; `Downloader` holds `operatorMutex_` during a transfer.
* **State that outlives its use.** Filters, plug-ins, caches and statistics are
  used again for the next medium; what their Reset, Stop or Init forgets speaks
  of the last one.
* **Asynchronous answers.** A client sleeps until another thread has executed
  its intent, gives up, and calls again while the old job is queued. Sinks
  complete, sources become ready and components answer from threads of their own.
* **Partial failure.** A device takes part of a frame; a seek of a descriptor
  fails between two writes; the third filter refuses to start after two have.
* **Two processes.** An IPC answer may be lost after the call was done; each
  side has a copy of what the other believes.
* **Boundaries.** Queues at capacity, rings that wrap, ranges at the end of a
  medium, nanoseconds that make a second.

`PROJECT.json` lists these hazards one by one with their lines and the
properties aimed at each.

### 1.3 What makes each component correct

Section 3 states it for each module, next to how it is modelled.

## 2. Plan

What was built, in this order: the queue and its promise; Task; the player's
machine; then the streams (downloader, HLS, codec modes); the players and the
recorder over PipelineCore; then everything below them, component by component;
last the parts that carry data and settings (memories, values, ports,
parameters of the sinks).

How modules build on one another:

* `BufferHandoff` is the abstract specification that `AVBufferQueue` implements
  (`INSTANCE BufferHandoff WITH` a refinement mapping, checked and proved).
* `PipelineCore` has operators over a list of filters, which `HiPlayer` conjoins
  to the steps of its threads: the composition of the player's engine, the
  pipeline and the threads of demuxer and sinks.
* `HttpSource`, `HlsSource` and `AsyncCodec` compose what they use of Task,
  BlockingQueue, RingBuffer and BufferPool with the threads that use it;
  `MCStreams` puts the three beside one another under one fairness.
* `Recorder` composes its machine with four filters and three recording threads.
* `MCParts` puts 28 components beside one another (section 4.2).

Left for a continuation: the demuxer's Task with the sniffing inside it,
composed with `DataPacker`; destruction of the player; the remaining plug-ins
(WAV demuxer, codec configuration of FFmpeg, syntax of play lists); proofs for
the remaining components of `parts`. The queue, Task, the player's machine, the
pool, both downloaders, the clock, the codec and the recorder are proved (section 6).

## 3. The models

Throughout, an action is one critical section of the code, or one step that a
thread takes without the lock. Operators that are *faulty on purpose*
stand right above or below the operator they imitate (`AppendFree` by
`InsertFreeBufferInOrder`, `AfterCopy` by `AfterMove`, …). The specification
never uses them; substituted for the real operator, each breaks one property,
which shows that the property notices that bug. `PROJECT.json` pairs them.

Many modules end with definitions under "NOT so" or "Broken (no run)": what
one would expect of the code and what it does not keep. They are listed in
section 5.2; no run has them, because no text of the repository promises them.
Code that is not in the repository (devices, libav*, the kernel, a Surface, the
network) is reduced to what it accepts and answers, and marked external.

### 3.1 AVBufferQueue

| Variable | Code |
|---|---|
| `size`, `memoryType` | `size_`, `memoryType_` |
| `cache` | `cachedBufferMap_`: element state, `isDeleting`, and the buffer's capacity and memory type. An absent id has the state `"ABSENT"`, and keeps capacity and type while a client holds the detached buffer |
| `free`, `dirty` | `freeBufferList_`, `dirtyBufferList_` |
| `waitset` | threads asleep on `requestCondition` that have not been notified |
| `call` | program counter and arguments of each thread's call |
| `held` | the buffers whose `shared_ptr` a thread may pass to the queue |
| `hasListener`, `signals`, `producerTold` | `consumerListener_`, its OnBufferAvailable calls not answered yet, and whether a refused producer has been told since |

Actions and code: `RequestBuffer`, `RequestRefused`, `RequestBlocks`,
`EnterWait`, `WakeAndObtain`, `WakeAndSleep`, `WakeRefused` are RequestBuffer
with its three kinds of timeout (0: refused at once; positive: a wait with a
predicate; negative: a wait without one). `Obtain` is its choice between
`Reuse` (with `IsPick`, the choice of PopFromFreeBufferList) and
`AllocBuffer`. `PushBuffer`, `OnBufferFilled`, `PushReturns`, `ReturnBuffer`,
`ReturnRefused`, `NotifyConsumer`, `NoConsumerListener`, `NotifyProducer` are
PushBuffer and ReturnBuffer. `AttachBuffer`, `AttachGoesOn`, `ForceDetach`,
`DetachBuffer` and `Grow`, `GrowNotifies`, `DecideShrink`, `Shrink` are the
rest. The condition variable is modelled as it is: releasing the lock and
falling asleep is one step, notifications reach only sleepers, waking needs
the lock, and wake-ups may be spurious.

Assumed of the environment: clients pass only buffers they hold; the
producer's and the broker's listener are set before the first call; ids are not
reused while somebody holds one (avbuffer.cpp:182 starts its counter again only at its maximum). A
duplicated element that a failing call has filed and also left with its
client is *not* assumed away: `avq_request` has it.

`BufferHandoff` is the promise: buffers are idle, filled (in order), or in one
client's hands. `ImplementsHandoff` maps `Elements(free)`, `dirty` and `held`
onto it.

### 3.2 Task

`runningState` and `loop` are the members; `loop` tells a Thread object without
a pthread (`"fresh"`) from one that had a pthread created (`"thread"`), because
that is what HasThread() answers — also when the pthread has ended. `worker` is
where Run() is. `waitset` are the clients asleep on `syncCond_`; the worker's
own WaitFor(500 ms) needs no notification and is not in it. `quiet` is a
history variable: some Stop or Pause has returned, and no Start was called
since. The job is abstract; it ends some time and may call StopAsync or
PauseAsync of its own Task, which is what the jobs of the demuxer, the media
source and the type finder do. `Alone` names operations that do not overlap
with another client's call: empty for the safety run, and the condition under
which the calls return for the liveness run (4.4).

### 3.3 PlayerStateMachine

`curState` is `curState_` (and `curFsmState_` of HiPlayer, which the state
callback copies in the same step); `jobs` and `pending` are the two queues;
`fsm` is where DoTask is between two of its steps, with the job; `waitSet`,
`syncMap`, `syncLock` are the Synchronizer, whose lock is held for long only
while SendEvent pushes into a full queue. `by` (who sent a job), `took`,
and `readySeen` are history variables for the properties. `Transitions`,
`Stays`, `ExecutedFirst`, `Seeks` and `EnterMayFail` are the state classes
(`*_state.h`, `state.cpp`): what each does with each intent. `PopJob`,
`RunPending`, `OnIntentPending` and `OnIntentExecuted` are DoTask.
`SendEvent`, `PushEnds`, `TakeAnswer`, `TimesOut` and `PrepareReturns` are the
clients. `Post` and `PostEnds` are the pipeline's threads, which post the
events they owe (`due`). The operations the machine performs on the pipeline
succeed or, with `ExecutorMayFail`, fail; what they do is in `LitePlayer`.
singleLoop_ is atomic and may be set at any time, so with
`Looping = {TRUE, FALSE}` each end of stream may loop or not.

### 3.4 Streams: HttpSource, HlsSource, AsyncCodec

*HttpSource* is the reader (`SeekStep`, `CloseStep`), the downloader
(`FetchStep`) and the monitor (`WatchStep`). `puller` is the reader's call,
with the bytes it wants and the bytes it got; a byte is its position in the
file. The ring has its `mediaOffset_`, its waits and its Seek; the Task of the
downloader can be started, paused and stopped as in module Task, and
`operatorMutex_` is held through a transfer. `HttpReadsInOrder`: what is
read is what was asked for. Seeks, failures and retries may meet in any order,
and two things then go wrong in the code, which `astray` records as history and the
property names. RingBuffer::Seek (`ring_buffer.h:139-151`) leaves `mediaOffset_`
where it was, so the next seek within the ring lands as far off as the last one
moved the head (`lag`, `drift`); a seek out of the ring sets it right. And a retry
of the monitor that starts the download while a seek out of the ring is under way
fills the ring with bytes from before the seek (`crossed`). So the property says: a
pull gets consecutive bytes, off by exactly that drift, which is 0 as long as no two
seeks within the ring follow one another; unless a retry crossed. `HttpSeekReturns`:
the seek that must throw away the ring does not wait for ever for a writer that waits
for room. GetFileContentLength waits a second for the header and then answers 0
(`downloader.cpp:102-110`): `PullLearnsSize` then goes on without a size, and
`SeekIsRefused` is what a seek makes of it.

*HlsSource* is five threads in a line: update of the play list, its download,
the fragment loop, the fragment's download and the reader; the monitor pauses
and resumes the line from its ends. `listing.text` is `playList_`: only DoOpen clears it
(`playlist_downloader.cpp:47`), before its Download waits for the transfer that is
under way, and SaveData appends to it. A list whose beginning was cleared is refused,
and so is each one appended to its rest; `AsksForList` and `SendsForList` are these
two steps. `HlsReadsInOrder`, and `HlsPlaysOut`: a stream that is not live is played
to its end, whatever lists were lost on the way, if only the last one is taken.

*AsyncCodec* is the decoder filter in asynchronous mode between demuxer and
sink: inBufQue_, the decoder, the pool of output buffers, outBufQue_, three
Tasks, and the player's Flush, Stop and restart as the sequences of steps of the
code. A seek begins a new *generation*; `CodecNothingStale` says that the sink
gets the frames of the generation being read, from its first and without a gap.
`CodecFlushReturns`, `CodecPlaysOut`; `CodecStopReturns` fails (5.1).

### 3.5 Players, recorder, clock

*PipelineCore* and *HiPlayer*. The caller's call is a script of the steps the
code takes; the demuxer's Task finds streams, adds and configures filters behind
itself, and reads frames; each sink ends its stream and handles its own
EVENT_COMPLETE. `PipelineCore::OnEvent(EVENT_READY)` is done as the code does it, step
by step and unlocked, by the threads that post: read the count, write it back one
higher, compare it, set the state, tell the player, set the count to 0. Increments may
be lost, and the steps of two threads, of a Stop and of a next preparation interleave.
The source may post from a thread of its own long after Prepare (`LateSources`,
`SourceRises`). `PreparedWhenAllReady` (an action property): PREPARED only after
each filter of the list has posted EVENT_READY since the last stop, unless an event
crossed a Stop or the source posted twice (`strayReady`).
`StoppedIsOver`: after a Stop nothing of the pipeline runs, two filters are
left, and no late event changes the state.

*LitePlayer* is the lite player's own state over a machine that takes one job
after another. A job's steps (`Enter`, the sink's volume, `OnStateChanged`)
interleave with the client's setters. A Stop of the pipeline fails at the first
filter that refuses (`pipeline_core.cpp:106-108`): `LiteStops` leaves a pipeline that
is `"half"` stopped, with filters that go on and streams that are known, or
`"littered"` with filters that nobody removes, and DoStop tells nobody.
`LiteFollows`: between jobs the player shows the machine's state; a stopped one has
reset its clock and statistics and, unless a sink or a decoder refused to stop, has
nothing left of its medium; while nothing fails the clock runs exactly while it
plays, duration and statistics are those of the medium, and a medium ends when all
its streams have.

*CallbackLooper* is the queue of timed events and its one thread:
`LooperKeepsTime` says that it sleeps no longer than its head is due, and that
while progress is reported an event for the next report exists.

*Recorder* is client, machine, pipeline, capture Tasks, the encoder's two
Tasks and the muxer. `RecordsOneFile`: no start of the pipeline writes a second
header, although the EOS of each track and the frames behind it reach the muxer
from threads of their own.

*MediaSync* is the clock. Reports of sinks come in two calls (CheckIfLate,
UpdateTimeAnchor) between which the player may pause, resume or seek.
`PositionFollowsPlay`: the position told is the time a viewer would have counted
(`shown`, a history variable), within the range of the media; a report that a
pause or a resume crossed is exempt until the next one.

### 3.6 What carries the data: queues, memories, values

*RemoteQueue* has the queue behind a stub, the client's copies of its buffers
before a proxy, and the parcels between. `RemoteHolds`: what a client holds is
lent to it and to nobody else; while no answer is lost nobody gets a frame
twice; an AVBuffer of the Surface wrapper stands for a surface buffer that is
out.

*AVSharedMemoryPool*: `PoolServes` (proved, section 6) says that nobody sleeps
unwoken while the pool could serve it, whatever releases, replacements,
allocation failures and SetNonBlocking come between.

*BufferMemory* is one object of the kernel with two sides and a parcel between:
`MemoriesHold` counts descriptors and mappings, and compares sizes and offsets
with the capacities on both sides.

*MetaFormat* has Any with its three storages, heap cells and reference counts:
`ValuesAreOwnedOnce` compares each object with what was meant to be in it, and
each cell with its one owner. Its second half has Meta, parcels and Format:
`FormatsKeepTheirOwn`.

*DataPacker* has bytes that are their own positions, so that
`ServesWhatWasAsked` can compare. `PullKeepsRoom`: a pull never finds the packer
too full for what it asked.

*OsalSync* is Mutex, AutoLock and ConditionVariable over an ideal pthread.
`WaitsAndLocks`: a mutex has one AutoLock in the thread that owns it, however
AutoLocks are moved; a wait with a predicate that says yes has it; one that gives
up has lasted its time if its deadline was one that pthread accepts; nobody
sleeps unwoken over a predicate that holds.

### 3.7 How filters are found, linked and set

*PluginFramework*: registration and removal of libraries, the type finder's
sniffing with its cache, and the wrappers' states. `ListedIsRegistered`,
`BestSnifferWins`, `CallsComeInOrder`.

*Negotiation*: capabilities with fixed, discrete and interval values;
`MergesIntersect` compares what MergeCapability computes with the intersection,
over every pair of small capabilities; `ReadyFits` says that a chain that became
ready runs on values both sides of every link allow.

*Ports*: the graph of the lite player and of the recorder, built while the
medium is parsed. `LinksFit`: filters are prepared after those behind them, the
two ends of a link know each other, a frame goes the way that was made for it,
a stopped player is left with source and demuxer, and data is pulled exactly when
the source can seek.

*InnerPipeline*: `PipelineReaches` — a command that did not fail reached every
filter that hangs on the heads, once; of a running pipeline every filter runs; a
released one has no heads.

### 3.8 Sources, demuxers, codecs, sinks

*Sources* (file, descriptor, data source of the application, HTTP of small
devices, and MediaSourceFilter over them): `SourcesInPlace` — what a read returns is
the media's bytes from where it was asked, and not beyond the part of a descriptor that
was named; readiness is not lost. `srcPlug.place` is where the descriptor is and `at`
where the plug-in takes it to be (`position_`): a read() that fails is answered OK with
the size that was asked for (`file_fd_source_plugin.cpp:99-103`,
`plugin_buffer.cpp:96-111`) and sets the two apart, as a failing first lseek does; from
then on nothing is promised of it (`ReadInPlace` in 5.2).

*FrameDemuxers* (AAC, MP3, MP4 over one reading interface): `FramesInOrder`
compares each frame with the medium's; *FFmpegDemuxer*: `DemuxesInPlace`
compares frames and targets of seeks with the open medium's index.

*FFmpegVideo*, *AudioCodecs*, *HdiCodec*: codec plug-ins under the filters that
drive them, with the threads of both. `VideoComesOut`, `AudioComesCoded`: in
order, once, EOS last, and complete when nobody flushed or stopped.
`HdiOutputsAreBound`: what the component decodes into is bound to a buffer of its
own that nobody else has.

*AudioRender* (AudioSinkFilter over three plug-ins, with device and server
interrupts): `AudioComesWhole`. *AudioSinkPlugins* (the parameters of the same
plug-ins, resampler included): `SinksHearTheStream` — a stream whose parameters
were all taken is heard as it is, and no renderer or adapter is left behind.
*VideoSinks*: `PicturesAreWhole` — a picture on its way to the screen is not
written into, and pictures are shown once and in order, with pauses, resumes, flushes,
stops and new starts of the filter while frames are queued, rendered and given back.
The Pause, Resume, Stop and Flush of both plug-ins always succeed
(`surface_sink_plugin.cpp`, `sdl_video_sink_plugin.cpp`), so the filter's ways out when
they fail have no step.

*Captures*: `CapturesRunOn` — from buffer to buffer the time moves by about
one buffer, whatever pauses, losses and a late clock do, and the plug-in works
with what was agreed. *FFmpegMuxer*: `MuxedInPlace` — no byte lies in the
file elsewhere than the muxer put it, and a recording that was completed without
a fault is the file the muxer wrote.

## 4. Runs

### 4.1 List

| Run | Instance | Shows |
|---|---|---|
| `avq_request` | 2 producers, 1 consumer, 3 ids, size 2, late listener | lists agree with states even when pushes fail half-way; no producer sleeps over an idle buffer (`NoSleepWhileIdle`), none that was refused misses its notification (`IdleIsAnnounced`) |
| `avq_handoff` | producer (resizing), broker, consumer (attaching, detaching), 3 ids, capacities 1 and 2, sizes 1..2 | types, exclusive ownership, nothing lost, what a resize deletes; refinement of `BufferHandoff` |
| `avq_live` | 1 producer (attaching), 1 consumer (resizing), 2 ids, 2 memory types, fair | every call returns; every filled buffer is announced and leaves the queue |
| `task_any` | 3 clients and the job, all operations, thread creation may fail | `NoJobAfterReturn`, `OneWorker`, `SleepersAreNotReady` |
| `task_live` | 3 clients, several Stops at once, Start and Pause alone, job pauses itself, fair | calls return, a started Task runs its job |
| `task_restart` | the job uses StopAsync, no two calls overlap | **violated** `StartedHasWorker` (5.1) |
| `player_calls` | 3 clients with distinct intents (one prepares and pauses, one plays, one stops and resets), ready and error events, fair | answers reach their clients and only them; PAUSE, STOP and RESET take hold; calls return |
| `player_full` | 2 clients, queue of 2, one call may be given up, operations fail, looping changes | nobody sleeps without an answer to come; a Prepare that succeeds has seen a READY come while it waited (whose it was the machine cannot tell: `PrepareSeesReady` in 5.2) |
| `streams` | `MCStreams`: HTTP, HLS, decoder, fair | 3.4 |
| `codec_stop` | `AsyncCodec`, Stop and restart | **violated** `CodecStopReturns` (5.1) |
| `reader_tail` | `DataPacker` in pull mode | **violated** `ReadsToTheEnd` (5.1) |
| `parts` | `MCParts`: 28 components | 4.2 |

### 4.2 MCParts and MCStreams

`MCParts` EXTENDS the component modules and adds the variable `part`, which
names the component that moves; the others stay as they began (`MovesOnly`).
Its `VIEW` is the variables of that component, so that the state space is
the sum of theirs, about 1.5 million states, and not the product. Each property
of the run groups those of several components, each conjunct under
`part = …`:

| Property of `parts` | Components (conjunct) |
|---|---|
| `PoolServes` | AVSharedMemoryPool |
| `PreparedWhenAllReady` | PipelineCore with HiPlayer |
| `PlayersKeepTheirWord` | HiPlayer (`StoppedIsOver`), LitePlayer (`LiteFollows`) |
| `PositionFollowsPlay` | MediaSync |
| `TimeIsKept` | CallbackLooper (`LooperKeepsTime`), OsalSync (`WaitsAndLocks`) |
| `RecordsOneFile` | Recorder |
| `DataKeepsItsPlace` | DataPacker (`ServesWhatWasAsked`, `PullKeepsRoom`), FrameDemuxers (`FramesInOrder`), FFmpegDemuxer (`DemuxesInPlace`), FFmpegMuxer (`MuxedInPlace`), RemoteQueue (`RemoteHolds`) |
| `ValuesStaySound` | MetaFormat (`ValuesAreOwnedOnce`, `FormatsKeepTheirOwn`), BufferMemory (`MemoriesHold`) |
| `PluginsFit` | PluginFramework (`PluginsServe`), Negotiation (`NegotiationFits`), InnerPipeline (`PipelineReaches`), Ports (`LinksFit`) |
| `CodecsDeliver` | HdiCodec, FFmpegVideo, AudioCodecs |
| `SinksRender` | AudioRender, VideoSinks, AudioSinkPlugins |
| `SourcesDeliver` | Captures (`CapturesRunOn`), Sources (`SourcesInPlace`) |
| `PartsTypeOK` | all |

`MCStreams` does the same for the three modules of 3.4 with the variable
`way`, and with the fairness of their threads, each on the variables of its own
module. `StreamsPlayOut` is `CodecPlaysOut` and `HlsPlaysOut`. It has about 675 000 states.

### 4.3 Bounds, and why they are enough

* *Ids* `1..3` with `size_` at most 2: the queue can be full with one buffer
  outside it, and a buffer too small can be replaced by one with a new id. Two
  producers are enough for one to take the buffer another was woken for.
  Liveness needs only two ids.
* *Capacities* `{1, 2}`: only the order of two sizes matters to the choice of
  a buffer. *MemTypes*: one, or two where the check of the type is in question.
* *UintRange* 256 stands for 2^32: larger than any size, which is all that
  the wrap-around of `size_ - size` depends on.
* *MaxSignals* 3 (2 in `avq_live`, and not below the number of filled buffers
  there): OnBufferAvailable calls the consumer has not answered; further ones
  are dropped, which only takes announcements away and so cannot hide a
  missing one. `avq_handoff` has no property of them and does without.
* *Clients* 3 for Task: two that wait for different states and one that
  moves the state.
* *Capacity* of `jobs_`: 4 or 5 where the queue must not fill up (at most one
  job per client and one queued event of each kind), 2 where it must.
* *MaxAbandoned* 1: one call that has given up, and its answer that comes late.
  The pipeline queues at most one event of each kind at a time.
* *Streams*: a file of 4 bytes, a ring of 2 and requests of 3, so that the ring
  is full in the middle of a request and wraps; two pulls and two failures, in any
  order but at most three together (`MaxTurns`), and the limit of retries 0, so that
  the second failure in a row gives the download up while the first is repaired:
  two pulls make the second seek that `mediaOffset_` misleads, and the failure one
  that crosses a seek. (Without `MaxTurns`, HTTP alone has 1.1 million states and
  reads in order too; its liveness takes too long there.) Two fragments of two bytes
  and three lists (`MaxUpdates`): one that is lost, one appended to its rest and a
  good one. A codec that holds one frame, queues of one, three frames: every queue
  is full while another is empty.
* *Parts*: each has calls enough for what is asked of it (`Max…Calls` between 2
  and 8: where it is 2 or 3 a part is started, and paused, flushed or stopped with
  data under way), one fault of each kind (`Max…Faults`, `MaxHiccups`,
  `MaxStalls`, `MaxRqLost`, …), and data just larger than the smallest buffer
  it goes through (`IoSize` 5 with frames of at most 3, `AvioSize` 2 with
  three frames, `PackerCapacity` 4 with reads of 3). The sets of streams, plug-ins,
  media and settings are defined in `MCParts` by what tells the code's branches
  apart, each with a comment.
* *VideoSinks* has three pictures and three calls beyond its preparation, so that a
  picture meets Start with Pause and Resume, with Flush, or with Stop (with four
  pictures and five calls it has 5.7 million states, and its property holds). A
  *late source* of HiPlayer rises once and meets three calls (with seven 7.4 million
  states, and `PreparedWhenAllReady` holds). *LitePlayer* may have each call of its
  pipeline refused once, Stop among them.

### 4.4 Deadlock and fairness

Deadlock is checked except

* in `task_any`, `task_restart`: overlapping Start, Stop and Pause can leave a
  call waiting for ever (see the hazard at `task.cpp:118`);
* in `player_full`: a job queue smaller than the number of senders can lock up,
  because SendEvent holds the Synchronizer's lock while it waits for room;
* in `streams`, `parts`, `codec_stop` and `reader_tail`, whose sessions end: a
  file is read, the calls that the bounds allow are made. The liveness
  properties of `streams` say that it does not end before.

Fairness:

* A thread inside a call, and the worker of a Task, is scheduled (`WF`), and a
  mutex it wants again and again does not starve it for ever (`SF`): the
  mutexes are plain pthread mutexes, whose sections are short and which no
  thread holds in a loop without leaving it.
* A timed wait ends: `wait_for` with a deadline. A wait for ever has no
  fairness unless it was woken: `EveryCallReturns` of the queue asks for no more.
* The consumer answers each OnBufferAvailable by an AcquireBuffer: that is
  what the listeners of the repository's consumers do.
* The job of a Task ends, which `Stop` and `Pause` rely on by design.
* A pipeline that has been prepared reports ready (`WF` of
  `Post("NOTIFY_READY")`); Prepare waits for that without a limit. Nothing is
  assumed of errors or of the end of the stream.
* *Streams*: each thread of a line is scheduled (`WF`), a seek, which takes
  mutexes the downloader takes too, is not starved (`SF`), and the monitor resumes
  what it paused (`HlsResumes`): it polls for ever (hls and http). The network may
  be late but not for ever; failures are bounded by `MaxFailures`.
* Nobody is assumed to make a call.

`task_live` restricts who may overlap with whom (`Alone`): with unrestricted
clients a Pause that meets a PAUSING task, and a Stop or Start at the same
time, leave the Pause waiting for PAUSED for ever. Nothing in the repository
says which calls may overlap; its users stop from one thread.

## 5. What the models found

### 5.1 Runs that find a violation

1. `task_restart`, `task.cpp:68`: after StopAsync the worker leaves Run(), but
   HasThread() still answers true, so the next Start creates no thread and the
   Task is STARTED with nobody to run its job.
2. `codec_stop`, `async_mode.cpp:141`: AsyncMode::Stop reads
   `isNeedQueueInputBuffer_` without the lock and wakes the handler only when it is
   false; a HandleFrame that sets it and waits just after is woken by nobody, and
   the Stop of its Task waits for ever, although the order of the calls was
   chosen against that deadlock (`codec_filter_base.cpp:52`).
3. `reader_tail`, `data_packer.cpp:312`: IsEmpty is inverted, so that a reader
   who asks for more than the tail of the media is told the end of the stream
   although the last bytes are in the packer, against the comment at
   `demuxer_filter.cpp:360`.

### 5.2 Other disagreements, in definitions that no run lists

Each of these is stated in its module and violated by the instance of 4.2 (or
4.1 for the first modules); most are what one would expect of the code, not what a
text promises.

| Module | Definition | What the code does |
|---|---|---|
| AVBufferQueue | `FreeListIdle` | AttachBuffer before the consumer's listener is set leaves an id in `dirtyBufferList_` that is no longer cached (`avbuffer_queue.cpp:439`) |
| PlayerStateMachine | `PendingWhilePreparing`, `PrepareSeesReady` | a second pending PLAY survives PREPARING; Prepare looks at a state that has gone on |
| HiPlayer | `PrepareReturns`, `PreparedOnlyWhenReady`, `StartedIsNotPrepared` | a Prepare that waits hangs when the demuxer finds nothing to play; an EVENT_READY that a Stop overtakes is counted for the next preparation; the count is read and reset by several threads, so that it can complete twice and put a started player back to PREPARED (`pipeline_core.cpp:230`) |
| LitePlayer | `LiteVolumeIsHeard`, `DurationIsOfTheMedium`, `EosIsWhole`, `ErrorIsShown`, `EndedIsOver`, `SourceIsShown`, `StopsForGood` | SetVolume(0), and SetVolume during the step to READY, do not reach the sink; duration and statistics outlive their medium; ERROR is overwritten; a completion that arrives while a PAUSE is refused leaves the player playing; a Stop that a filter refuses leaves the filters behind it running, and no later Stop reaches them (`pipeline_core.cpp:106`) |
| Recorder | `ResetSavesFile`, `PrepareIsAnswered` | a Reset from PAUSE loses the file; a Prepare that fails late is not answered |
| AVSharedMemoryPool | `VariablePoolForgetsNothing` | AcquireMemory, in a pool of variable size, allocates twice and forgets the first (`avsharedmemorypool.cpp:127`) |
| HttpSource | `HttpReadsWhatIsAsked`, `HttpEverySeekReturns`, `HttpCloseReturns` | the second of two seeks within the ring lands on wrong bytes, because the first leaves `mediaOffset_` (`ring_buffer.h:145`), and so does a read after a retry that crossed a seek out of the ring; that seek may wait for ever when a retry undoes its pause; Stop waits for a thread that left |
| HlsSource | `DownloadIsPushed`, and `HlsPlaysOut` without `LastListIsLost` | a push waits under the lock its reader needs; a list appended to the rest of a lost one is refused like it (`playlist_downloader.cpp:47`, `:64`) |
| FrameDemuxers | `ResetStartsAnew` | MP4 keeps its sample index across Reset |
| HdiCodec | `HdiInputsAreSentOnce`, `FlushingIsOver`, `ReopenedHasBuffers` | two threads count one free id; a flush that times out is taken for done; Reset keeps what says that the ports are configured |
| FFmpegVideo | `DecoderTakesAll`, `VideoNothingStale` | a full decoder answers ERROR_NO_MEMORY, which AsyncMode does not retry; frames of before a flush come after it |
| AudioCodecs | `ReopenedIsReady`, `NothingOld`, `TailIsEncoded`, `OutputStays` | a decoder of minimp3 cannot be reused; old frames after a flush; the last partial frame is not encoded; Stop takes the output a thread is sending |
| AudioRender | `RunningSinkRuns`, `PausedIsSilent`, `VolumeIsKept`, `ForcedPauseWaits` | Start and Resume set the state first; FlushEnd resumes a paused sink; a volume set before Prepare is lost; the callback's flag is a copy |
| AudioSinkPlugins | `ReusedSinkStartsAnew`, `ChannelsAreKept`, `ToldIsTaken`, `LayoutFitsChannels`, `CacheHolds`, `SdlIsClosed` | bits outlive Reset; six channels become two; formats are told that are refused; a device stays open |
| VideoSinks | `SurfaceArrives`, `RunningQueueTakes` | a surface set while the plug-in is made is kept from it; RUNNING before the queue is active |
| MetaFormat | `HeldBufferLives`, `DumpIsSafe` | GetBuffer's address dies with the next PutBuffer; an enumeration in a Format cannot be printed |
| BufferMemory | `ReadsOnlyWritten`, `DescriptorIsGivenBack`, `EveryConfigIsWhole`, `MetaIsItsKind` | SetSize leaves bytes nobody wrote; a refused hardware configuration keeps its descriptor; a moved-from configuration has lost its surface part |
| RemoteQueue | `PtsArrives`, `LentIsHeld`, `SizeIsTold`, `SurfaceBufferIsReturned`, `NoFrameTwice` | size and time stay in the client's object; a lost answer leaves a buffer nobody holds; the queue tells size 0; surface buffers do not come back |
| OsalSync | `LastsItsTime`, `PredicateHolds` | the deadline's nanoseconds are not carried; a condition variable that was not made does not wait |
| PluginFramework | `TimingIsGuaranteed`, `UnloadedIsGone`, `EachSourceIsSniffed`, `RegisteredHasInfo` | Base takes a failure for success; the loader stays with the first plug-in; the cache compares names in lower case |
| Negotiation | `SlotRunsItsPlugin`, `ChannelsFitSink`, `LayoutsDiffer` | a plug-in whose Init failed stays in the slot; parameters of the sink before |
| Ports, InnerPipeline | `SomebodyIsAsked`; `HeadsAreDifferent`, `StateIsOfTheJob`, `RunningAfterFailure`, `RegisteredIsMade` | a track nobody uses is negotiated with a null port; state is set before the job and whatever it does |
| Sources | `ReadInPlace`, `ReusedSourceStartsAnew`, `ReadyIsSentOnce`, `ConnectionIsThere`, `SourceIsTakenAgain`, `EndIsReached` | a read() that fails is answered OK with bytes nobody wrote, and those after it are shifted (`file_fd_source_plugin.cpp:99`); offset_ outlives the source; two EVENT_READY; a connection used after Stop |
| Captures | `NothingAfterEos`, `FileStaysOpen`, `SurfaceIsRead`, `FileGoesOn` | a buffer after EOS; Stop closes the file under its reader |
| FFmpegDemuxer | `InfoIsOfTheSource`, `ClosestSyncIsKey`, `ConvertedByItsOwn`, `EveryTrackIsSelectable`, `BitStreamsAreTold` | the context of the medium before; frames that are no key frames; one converter for all |
| FFmpegMuxer | `DiscardedIsEmpty`, `TracksAreThePorts`, `FramesAreInTheirStream`, `CompleteHasHeader`, `OldCodecsDoNotMatter` | a discarded recording stays in the file; tracks of the recording before; all frames in the first stream |

## 6. Proofs

Eight modules hold them, each beside the module it is about. All are checked by
tlapm without any unproved step.

| Module | Theorem | Holds for |
|---|---|---|
| `AVBufferQueueSafety` | `TypeCorrect`: `[]TypeOK` | all constants |
| | `OwnershipInvariant`: lists match states, ownership is exclusive, nothing is lost, marked buffers are out; `NothingIsLost`: `[]NoBufferLost` | `ListenerFirst` |
| | `ListsAgree`: `[]ListsMatchStates` | `ListenerFirst`, or nobody attaches |
| | `NoLostWakeup`: `[]NoSleepWhileIdle`; `RefusedIsTold`: `[]IdleIsAnnounced` | all constants |
| | `ResizeIsBounded`: `ResizeDeletesAtMostItsExcess` | one resizer |
| | `QueueHandsOver`: `Spec => BufferHandoff` under the refinement mapping | `ListenerFirst` |
| `TaskProofs` | `ReturnedMeansQuiet`, `WorkerIsUnique`, `NoLostTaskWakeup` | any clients, any mix of calls |
| `PlayerProofs` | `PlayerTypes`: `[]TypeOK` | all constants |
| | `NobodySleepsForever`: `[]SleeperWakes` | one sender for each intent; calls may give up |
| | `PreparedMeansReady`: `[]PrepareIsReady` | one sender of PREPARE; calls may give up |
| | `CallersAreServed`: `[]WaiterIsServed`; `AnswersAreOwn`: `[]AnswerIsOwn`; `IntentsTakeHold`: `[]IntentTakesHold` | one sender for each intent, no call gives up |
| `PoolProofs` | `PoolTypeCorrect`: `[]PoolTypeOK`; `PoolServesAll`: `[]PoolServes` | all constants |
| `StreamProofs` | `PullsReadInOrder`: `[]HttpReadsInOrder` | all constants |
| | `FragmentsPlayInOrder`: `[]HlsReadsInOrder` | all constants |
| `SyncProofs` | `PositionIsCounted`: `[]PositionFollowsPlay` | all constants |
| `CodecProofs` | `LineIsInOrder`: `[]CodecInv`, which the next rests on; `FramesComeInOrder`: `CodecNothingStale` | all constants |
| `RecorderProofs` | `RecorderWritesOneHeader`: `[]RecordsOneFile` | all constants |

"All constants" means those that satisfy the assumption named in the module
(`ThreadsAssumption`, `IdsAssumption`, `SizesAssumption`, `ChoicesAssumption`,
`ClientsAssumption`, `PlayerAssumption`, `PoolAssumption`, `HttpAssumption`,
`HlsAssumption`, `SyncAssumption`, `CodecAssumption`, `RecorderAssumption`): finite sets where the code has finitely many
of a thing, sizes that are not negative, and positive where the code divides by
them or could do nothing with 0. The bounds of the runs (`MaxSteady`,
`MaxHlsPauses`, `MaxFailures`, `MaxAbandoned`, …) are constants too, so what is
proved holds for every value of them. The other hypotheses are real conditions:

* `ListenerFirst`: without it `FreeListIdle` (5.2) breaks exclusive ownership.
  For the lists alone, it is enough that nobody attaches buffers.
* *One sender for each intent* (`OneSender`): the Synchronizer tells calls
  apart by their intent alone, so two clients in the same call take one
  another's answers. `MCDistinct` is such an assignment.
* *No call gives up* (`MaxAbandoned = 0`): a call that left after 30 s leaves its
  job behind, whose answer goes to the next call of the same intent.
  `SleeperWakes` and `PrepareIsReady` hold nevertheless.
* *One resizer*: `size_` is compared before the lock is taken, so a second resize
  in between makes the unsigned difference wrap.

The arguments, each with the invariant that was found to be inductive:

*Ownership.* `Ownership` is not inductive: between the two critical sections of
a PushBuffer or an AttachBuffer the call goes on with a buffer it has only by
id. `InFlightIsHeld` adds that such a buffer is still in the hands of its
thread, and `hasListener` excludes the failure that files a buffer and
keeps it. The lemmas come first for what one operator does to lists
(`InsertAtElements`, `RemoveAtElements`, `DropElements`, …), then for one
critical section, then one per group of actions.

*Wake-ups and notifications.* A thread tests `freeBufferList_` and falls asleep
in two steps with `queueMutex_` held throughout: `TestedEmpty` says that the
list is still empty in between. Every action that fills the list notifies all,
and leads to the call of the producer's listener, or finds it on its way.

*Resizing.* The count goes through cardinalities: what DeleteBuffers takes off
the lists is what it takes off the cache, and the number it is given is what
the resizer found, because nobody else changes `size_`.

*Refinement.* `StepPromised` maps each action to a step of BufferHandoff or to
a stutter: requests lend, returns fill, acquire takes the head, DeleteBuffers
is the promise's right to shrink.

*Task.* `WorkerObeys` (STOPPED and PAUSED are written by the worker itself when
it is past the job) and `JoinIsAlone` (the lock stays taken during a join)
strengthen the properties into the inductive `IInv`.

*Player.* `CallInv` ties each call to the Synchronizer's mutex and `waitSet`;
with `SleeperWakes` it is inductive. `QueueInv` adds that every job of the three
places it may be in belongs to a client that waits for exactly it, and
`AnswersInv` that an answer is there only after the wait of its intent was
taken off: from both follow `WaiterIsServed` and `AnswerIsOwn`. For
`IntentTakesHold`, `HoldInv` says that at most one job is kept pending, a PLAY, and
that it is tried again only in states that refuse it, or in the READY it waited
for. `PreparedInv` says what holds between the answer to a PREPARE and the return
of the call that waits for the READY.

*Pool.* `PoolServes` itself is inductive once `FixedSizes` says that in a pool of
fixed size all memories and all requests have the size of the pool: a notified
sleeper and the memory it was notified for always fit.

*HTTP.* `HttpInv` says that the ring is a run of consecutive bytes that ends where
the request goes on (`RingIsTail`), that it begins at the reader's position but for
the drift of the last seek within the ring (`HeadIsNext`), that `mediaOffset_` lags
behind that by what such seeks moved the head (`OffsetLags`), that no byte can be saved
while a seek moves the request (`SeekIsAlone`), and that a paused downloader saves
nothing. Each that a crossing retry can break says so.

*HLS.* `HlsInv` follows a fragment down the line: the list's queue is next to
those seen (`FragmentsFollow`), the requests are those between taken and pushed
(`RequestsFollow`), the text of the list ends with what was asked for unless its
beginning was lost (`TextFollows`), a transfer left unfinished had not begun unless it was broken
off (`LoadsWhole`), and read bytes with those in the ring rise (`SavedRises`).

*Clock.* `SyncInv` says that a running clock counts from its anchor what a viewer
counts (`AnchorCounts`), that a paused one keeps it (`PausedKeepsTime`), that a
sink that nothing came across knows how long ago it asked (`ReadIsRecent`), and
that a manager with nothing to tell has no sink that could report (`ToldNothing`).
The last needs the order of the parts of a call (`ScriptFits`): the clock is
resumed before the sinks run, and paused after them.

*Codec.* `CodecInv` sees the threads' hands, the queues and the decoder as one line
of eight stages (`Line`). What it says of the line: all its frames are of the
generation that is being read, in rising order and behind the last one delivered
(`Fits`), and outside a call each frame that is due is in it (`Whole`). A step of a
thread moves a frame from a stage to the next that is not empty, adds one at the
end or takes one off (`MoveKeepsOrder`, `LossKeepsOrder`). That a seek meets an empty
line depends on the order of the calls' steps, so `FlushDoes`, `StopDoes` and
`RestartDoes` say what each step leaves behind, by the number of steps that
are left: the queue off before its reader pauses, the output cleared when nobody
fills it, the decoder flushed when nobody feeds it. A decoder that refuses a frame
for another reason than room would leave a gap; `Working` excludes it, and
`DrainsLast` (only the last frame drains) leaves nothing behind that frame.

*Recorder.* A second header needs a muxer that could write one (`Primed`: prepared,
or started without a header and not ended) and a frame on its way to it. The
header count starts anew when StartFile starts the muxer, so the property is about
what the recording before left behind: a capture that still runs, an EOS, a frame
in the encoder's queue. `RecInv` says that a primed muxer meets captures and an
encoder at rest, or has been told its end already (`PrimedRests`); that outside of
RECORDING and PAUSE this rest holds (`RestsOutOfRecording`), and inside them the file
has its header, needs none, or StartFile comes next (`CoveredInRecording`). The
rest of `RecInv` says why the machine cannot get from the one to the other too soon:

* a job that stops still has the step that brings each thing to rest, or has done
  it (`CleaningUp`), with its steps in the order of the code (`StepsInOrder`: the
  filters stop before the video capture, a drain before its check) and only in
  jobs and states they belong to (`StepsBelong`, `OkAccepted`);
* the client has one call under way (`OneCall`), waits for READY after PREPARE
  (`CallFits`), and no NOTIFY_READY of an old Prepare is behind the job of a new
  call (`OneReady`), so that a READY that is accepted is the one of this Prepare
  (`ReadyMeansFit`, `Counted`, `SeenInTime`);
* what is recorded has an encoder and a chain that was built (`RecordableFits`,
  `ChainsGrow`).

`RecordsOneFile` alone is far from inductive, because the count says nothing of the
threads. Each action has a lemma that says what it keeps (`FileKeeps`, `JobKeeps`),
and most conjuncts follow from these without the action being opened again.

Each invariant was also checked by TLC on an instance of the runs. That is how
`shown` got its flag: with a frame time smaller than the latency, the time that was
shown could be -1, which the history variable once used for "none".

Only model-checked, because the prover has no rule for fairness or ENABLED: every
liveness property (`EveryCallReturns`, `HttpSeekReturns`, `HlsPlaysOut`, …). Not proved,
although within the prover's reach: the properties of `parts` that combine several
modules (`PartsTypeOK`, `TimeIsKept`, `DataKeepsItsPlace`, `ValuesStaySound`, `PluginsFit`,
`CodecsDeliver`, `SinksRender`, `SourcesDeliver`, `PlayersKeepTheirWord`): each would need
an inductive invariant of every module it combines.

## 7. Not modelled

* Contents: sample values, picture formats, the syntax of media and play lists,
  the codec configuration of FFmpeg (`ffmpeg_vid_enc_config`, `avc_config`,
  `aac_config`), logging, tables of tags. `plugin_utils.cpp` converts names and
  numbers between enumerations.
* The WAV demuxer plug-in, the tone generators and the sample plug-ins of the
  tests: sequential code of the kind FrameDemuxers has.
* `SeekToTime`, `SelectBitRate` and the retries of the HLS source; the HTTP
  client (libcurl) and the server.
* The ffrt variants of Task, ConditionVariable and Mutex, chosen at build
  time: they forward to a library outside the repository.
* The destructors of Task and of the player (StateMachine::Stop), and C++
  lifetimes in general, except where a module says so (`VideoSinks`,
  `MetaFormat`, `Ports`, `BufferMemory`); data races on containers.
* Two threads that call SetQueueSize at once: `size_ - size` may then wrap, and
  TLC does find `ResizeDeletesAtMostItsExcess` violated with two resizers and a
  size of three. The runs have one resizer.
* The demuxer filter's Task with sniffing and reading inside it is in
  `HiPlayer` without the bytes, and its reading in `DataPacker` without the Task:
  the two are not composed.
* The C API, build files and tests.
