----------------------------- MODULE HttpSource -----------------------------
(***************************************************************************)
(* How a file is read over HTTP: MediaSourceFilter pulls ranges from the   *)
(* plug-in HttpSourcePlugin, which keeps a RingBuffer of what the thread of *)
(* a Downloader fetches ahead, range after range.  A DownloadMonitor, on a *)
(* thread of its own, retries what failed and pauses the download when     *)
(* nobody has read for a while.                                            *)
(*                                                                         *)
(* Three threads: the reader, who pulls, seeks and in the end closes (the  *)
(* plug-in's mutex_ makes these one after the other), the downloader and   *)
(* the monitor.  They share the ring, the request, the downloader's Task   *)
(* (see module Task) and its operatorMutex_, which the downloader holds    *)
(* from the moment it takes up a request until the transfer is over.       *)
(*                                                                         *)
(* A byte is its position in the file.  Network and server are outside: a  *)
(* transfer brings the bytes of its range one by one and may fail at any   *)
(* moment; time is left out, so a timeout may come at any moment.          *)
(***************************************************************************)
EXTENDS Integers, Sequences

CONSTANTS FileSize,       \* bytes of the file
          RingSize,       \* RING_BUFFER_SIZE
          RequestBytes,   \* PER_REQUEST_SIZE
          PullSizes,      \* sizes the demuxer pulls
          RetryLimit,     \* RETRY_TIMES_TO_REPORT_ERROR
          MaxPulls,       \* bound of the pulls
          MaxFailures,    \* bound of the failures of the network
          MaxTurns        \* bound of the pulls and the failures together

ASSUME HttpAssumption ==
    /\ FileSize \in Nat \ {0} /\ RingSize \in Nat \ {0} /\ RequestBytes \in Nat \ {0}
    /\ PullSizes \subseteq 1 .. RingSize
    /\ RetryLimit \in Nat /\ MaxPulls \in Nat /\ MaxFailures \in Nat /\ MaxTurns \in Nat

VARIABLES
    ring,        \* the RingBuffer: its bytes, isActive_ and mediaOffset_
    request,     \* the DownloadRequest and the fields of the Downloader about it
    fetch,       \* where the downloader's thread is, and where its range ends
    fetchTask,   \* runningState_ of the downloader's Task
    puller,      \* where the reader is, the range it wants, position_, what it got
    watcher,     \* where the monitor is, isPlaying_, lastReadTime_, retryTasks_
    failures,    \* failures of the network so far
    astray       \* how far what is read is from what the code takes it for (history)

httpVars == <<ring, request, fetch, fetchTask, puller, watcher, failures, astray>>

HttpTypeOK ==
    /\ ring \in [data : Seq(0 .. FileSize - 1), active : BOOLEAN, offset : Nat]
    /\ Len(ring.data) <= RingSize
    /\ request \in [current : BOOLEAN, queued : BOOLEAN, queueActive : BOOLEAN, next : BOOLEAN,
                    known : BOOLEAN, start : 0 .. FileSize, size : 0 .. RequestBytes + 1,
                    eos : BOOLEAN, closed : BOOLEAN, retries : 0 .. MaxFailures]
    /\ fetch \in [at : {"loop", "pop", "request", "body", "done", "failed", "refused", "gone"},
                  end : 0 .. FileSize]
    /\ fetchTask \in {"stopped", "started", "pausing", "paused", "stopping"}
    /\ puller.awaits \subseteq {"paused", "stopped"}
    /\ watcher.awaits \subseteq {"paused", "stopped"}
    /\ failures \in 0 .. MaxFailures
    /\ astray \in [lag : Int, drift : Int, crossed : BOOLEAN]

\* SetSource: the monitor runs, the request is queued, the downloader's Task starts.
HttpInit ==
    /\ ring = [data |-> <<>>, active |-> TRUE, offset |-> 0]
    /\ request = [current |-> FALSE, queued |-> TRUE, queueActive |-> TRUE, next |-> TRUE,
                  known |-> FALSE, start |-> 0, size |-> 0, eos |-> FALSE, closed |-> FALSE,
                  retries |-> 0]
    /\ fetch = [at |-> "loop", end |-> 0]
    /\ fetchTask = "started"
    /\ puller = [at |-> "idle", wants |-> <<0, 1>>, position |-> 0, got |-> <<>>, pulls |-> 0,
                 awaits |-> {}]
    /\ watcher = [at |-> "loop", stopping |-> FALSE, isPlaying |-> TRUE, hasRead |-> FALSE,
                  retry |-> FALSE, awaits |-> {}]
    /\ failures = 0 /\ astray = [lag |-> 0, drift |-> 0, crossed |-> FALSE]

Lesser(a, b) == IF a < b THEN a ELSE b

-----------------------------------------------------------------------------
(* The ring.                                                               *)

Near(r, offset) == offset >= r.offset /\ offset - r.offset < Len(r.data)

\* Seek within the ring moves the head, and leaves mediaOffset_ as it is.
RingSeek(r, offset) == [r EXCEPT !.data = SubSeq(@, offset - r.offset + 1, Len(@))]

SetActive(r, active, clean) ==
    [r EXCEPT !.active = active, !.data = IF ~active /\ clean THEN <<>> ELSE @]

ReadBuffer(r, n) == [r EXCEPT !.data = SubSeq(@, n + 1, Len(@)), !.offset = @ + n]

\* What WriteBuffer waits for: room, or that the ring is no longer active.
WriterGoesOn == ~ring.active \/ Len(ring.data) < RingSize

-----------------------------------------------------------------------------
(* The Task of the downloader, and operatorMutex_.                         *)

\* Pause waits for the worker, in a way that depends on the state it finds.
PauseAwaits(state) == CASE state = "stopping" -> {"stopped"}
                        [] state = "pausing"  -> {"paused"}
                        [] OTHER              -> {"paused", "stopped"}

AfterPause(state) == IF state = "started" THEN "pausing" ELSE state

AfterStop(state) == IF state = "stopped" THEN state ELSE "stopping"

MutexFree == fetch.at \in {"loop", "gone"}

\* cvReadWrite_.NotifyOne: only a reader that is asleep hears it.
WriterWoken(p) == [p EXCEPT !.at = IF @ = "asleep" THEN "test" ELSE @]

-----------------------------------------------------------------------------
(* The downloader's thread: HttpDownloadLoop.                              *)

FetchTakesUp ==
    /\ fetch.at = "loop" /\ fetchTask = "started"
    /\ fetch' = [fetch EXCEPT !.at = IF request.next THEN "pop" ELSE "request"]
    /\ UNCHANGED <<ring, request, fetchTask, puller, watcher, failures, astray>>

\* Pop and BeginDownload: the first request asks for one byte, to learn the size.
FetchPops ==
    /\ fetch.at = "pop"
    /\ IF request.queueActive /\ request.queued
       THEN /\ request' = [request EXCEPT !.current = TRUE, !.queued = FALSE, !.next = FALSE,
                                          !.start = 0, !.size = 1, !.eos = FALSE, !.retries = 0]
            /\ fetch' = [fetch EXCEPT !.at = "request"]
       ELSE fetch' = [fetch EXCEPT !.at = "loop"] /\ UNCHANGED request
    /\ UNCHANGED <<ring, fetchTask, puller, watcher, failures, astray>>

\* The header arrives: RxHeaderData.
FetchRequests ==
    /\ fetch.at = "request"
    /\ request' = [request EXCEPT !.known = TRUE]
    /\ fetch' = [at |-> "body", end |-> Lesser(request.start + request.size, FileSize)]
    /\ UNCHANGED <<ring, fetchTask, puller, watcher, failures, astray>>

\* RxBodyData and SaveData; a byte that cannot be saved ends the transfer.
FetchReceives ==
    /\ fetch.at = "body" /\ request.start < fetch.end
    /\ request.closed \/ WriterGoesOn
    /\ IF request.closed \/ ~ring.active
       THEN fetch' = [fetch EXCEPT !.at = "refused"] /\ UNCHANGED <<ring, request, puller>>
       ELSE /\ ring' = [ring EXCEPT !.data = Append(@, request.start)]
            /\ request' = [request EXCEPT !.start = @ + 1]
            /\ puller' = WriterWoken(puller)
            /\ UNCHANGED fetch
    /\ UNCHANGED <<fetchTask, watcher, failures, astray>>

FetchCompletes ==
    /\ fetch.at = "body" /\ request.start = fetch.end
    /\ fetch' = [fetch EXCEPT !.at = "done"]
    /\ UNCHANGED <<ring, request, fetchTask, puller, watcher, failures, astray>>

NetworkFails ==
    /\ failures < MaxFailures /\ puller.pulls + failures < MaxTurns
    /\ fetch.at \in {"request", "body"}
    /\ fetch' = [fetch EXCEPT !.at = "failed"]
    /\ failures' = failures + 1
    /\ UNCHANGED <<ring, request, fetchTask, puller, watcher, astray>>

\* HandleRetOK: at the end of the file the request is over, else the next range.
FetchSettles ==
    LET remaining == FileSize - request.start IN
    /\ fetch.at = "done"
    /\ fetch' = [fetch EXCEPT !.at = "loop"]
    /\ request' = [request EXCEPT !.retries = 0, !.eos = @ \/ remaining <= 0,
                                  !.next = @ \/ remaining <= 0,
                                  !.size = IF remaining <= 0 THEN @ ELSE Lesser(remaining, RequestBytes)]
    /\ fetchTask' = IF remaining <= 0 /\ ~request.queued /\ fetchTask = "started"
                    THEN "pausing" ELSE fetchTask
    /\ UNCHANGED <<ring, puller, watcher, failures, astray>>

\* A write error is not retried.
FetchIsRefused ==
    /\ fetch.at = "refused"
    /\ fetch' = [fetch EXCEPT !.at = "loop"]
    /\ fetchTask' = IF fetchTask = "started" THEN "pausing" ELSE fetchTask
    /\ UNCHANGED <<ring, request, puller, watcher, failures, astray>>

\* OnDownloadStatus, NeedRetry: a retry is left to the monitor.
FetchAsksForRetry ==
    /\ fetch.at = "failed" /\ request.retries <= RetryLimit
    /\ watcher' = [watcher EXCEPT !.retry = TRUE]
    /\ fetch' = [fetch EXCEPT !.at = "loop"]
    /\ fetchTask' = IF fetchTask = "started" THEN "pausing" ELSE fetchTask
    /\ UNCHANGED <<ring, request, puller, failures, astray>>

\* Too many retries: the error is reported, and the download closed by its own thread.
FetchGivesUp ==
    /\ fetch.at = "failed" /\ request.retries > RetryLimit
    /\ watcher' = [watcher EXCEPT !.stopping = TRUE]
    /\ ring' = SetActive(ring, FALSE, TRUE)
    /\ request' = [request EXCEPT !.queueActive = FALSE, !.queued = FALSE, !.closed = TRUE,
                                  !.next = TRUE]
    /\ fetch' = [fetch EXCEPT !.at = "loop"]
    /\ fetchTask' = AfterStop(fetchTask)
    /\ puller' = WriterWoken(puller)
    /\ UNCHANGED <<failures, astray>>

FetchRests ==
    /\ fetch.at = "loop" /\ fetchTask \in {"pausing", "stopping"}
    /\ fetchTask' = IF fetchTask = "pausing" THEN "paused" ELSE "stopped"
    /\ fetch' = [fetch EXCEPT !.at = IF fetchTask = "pausing" THEN "loop" ELSE "gone"]
    /\ UNCHANGED <<ring, request, puller, watcher, failures, astray>>

FetchStep == FetchTakesUp \/ FetchPops \/ FetchRequests \/ FetchReceives \/ FetchCompletes
             \/ FetchSettles \/ FetchIsRefused \/ FetchAsksForRetry \/ FetchGivesUp \/ FetchRests

-----------------------------------------------------------------------------
(* The reader: PullData.                                                   *)

Pulling(from, to) == puller.at = from /\ puller' = [puller EXCEPT !.at = to]

PullBegins(offset, n) ==
    /\ puller.at = "idle" /\ puller.pulls < MaxPulls /\ puller.pulls + failures < MaxTurns
    /\ puller' = [puller EXCEPT !.at = "size", !.wants = <<offset, n>>, !.got = <<>>, !.pulls = @ + 1]
    /\ UNCHANGED <<ring, request, fetch, fetchTask, watcher, failures, astray>>

\* GetSize waits a second for the size, or tells none; a range that is known to end is cut.
PullLearnsSize ==
    LET offset == puller.wants[1] IN
    /\ puller.at = "size"
    /\ puller' = IF request.known /\ offset >= FileSize THEN [puller EXCEPT !.at = "idle"]
                 ELSE [puller EXCEPT !.at = IF puller.position # offset THEN "seek" ELSE "read",
                                     !.wants[2] = IF request.known THEN Lesser(@, FileSize - offset) ELSE @]
    /\ UNCHANGED <<ring, request, fetch, fetchTask, watcher, failures, astray>>

\* While the size is unknown every offset is behind it (HttpSourcePlugin::SeekToPos).
SeekIsRefused ==
    /\ ~request.known /\ Pulling("seek", "idle")
    /\ UNCHANGED <<ring, request, fetch, fetchTask, watcher, failures, astray>>

\* DownloadMonitor::SeekToPos forgets the retries; a seek within the ring is done.
\* The head moves there from where mediaOffset_ takes it to be.
SeekBegins ==
    LET offset == puller.wants[1] IN
    /\ puller.at = "seek" /\ request.known
    /\ watcher' = [watcher EXCEPT !.isPlaying = TRUE, !.retry = FALSE]
    /\ IF Near(ring, offset)
       THEN /\ ring' = RingSeek(ring, offset)
            /\ astray' = [astray EXCEPT !.lag = @ + offset - ring.offset, !.drift = astray.lag]
            /\ puller' = [puller EXCEPT !.at = "read", !.position = offset]
       ELSE puller' = [puller EXCEPT !.at = "seekClear"] /\ UNCHANGED <<ring, astray>>
    /\ UNCHANGED <<request, fetch, fetchTask, failures>>

\* A faulty first step, which leaves a writer asleep that waits for room.
SeekLeavesWriter ==
    /\ Pulling("seekClear", "seekPause")
    /\ UNCHANGED <<ring, request, fetch, fetchTask, watcher, failures, astray>>

\* The ring is emptied and closed first, so that a writer that waits for room gives up.
SeekClears ==
    /\ Pulling("seekClear", "seekPause")
    /\ ring' = SetActive(ring, FALSE, TRUE)
    /\ UNCHANGED <<request, fetch, fetchTask, watcher, failures, astray>>

\* Downloader::Pause.
SeekPauses ==
    /\ MutexFree /\ Pulling("seekPause", "seekTask")
    /\ request' = [request EXCEPT !.queueActive = FALSE]
    /\ UNCHANGED <<ring, fetch, fetchTask, watcher, failures, astray>>

SeekPausesTask ==
    /\ puller.at = "seekTask"
    /\ puller' = [puller EXCEPT !.at = "seekWait", !.awaits = PauseAwaits(fetchTask)]
    /\ fetchTask' = AfterPause(fetchTask)
    /\ UNCHANGED <<ring, request, fetch, watcher, failures, astray>>

SeekIsPaused ==
    /\ puller.at = "seekWait" /\ fetchTask \in puller.awaits
    /\ puller' = [puller EXCEPT !.at = "seekTo", !.awaits = {}]
    /\ ring' = SetActive([ring EXCEPT !.data = <<>>], TRUE, FALSE)
    /\ astray' = [astray EXCEPT !.crossed = FALSE]
    /\ UNCHANGED <<request, fetch, fetchTask, watcher, failures>>

\* A faulty Downloader::Seek, which goes on where the download was.
SeekForgetsOffset ==
    /\ MutexFree /\ Pulling("seekTo", "seekResume")
    /\ request' = [request EXCEPT !.eos = FALSE, !.next = FALSE,
                                  !.size = Lesser(FileSize - request.start, RequestBytes)]
    /\ UNCHANGED <<ring, fetch, fetchTask, watcher, failures, astray>>

\* Downloader::Seek: the request is used again from the new offset on, or from where it
\* was if that is the end of the file.
SeekMoves ==
    LET from == IF puller.wants[1] < FileSize THEN puller.wants[1] ELSE request.start IN
    /\ MutexFree /\ Pulling("seekTo", "seekResume")
    /\ request' = [request EXCEPT !.start = from, !.eos = FALSE, !.next = FALSE,
                                  !.size = Lesser(FileSize - from, RequestBytes)]
    /\ UNCHANGED <<ring, fetch, fetchTask, watcher, failures, astray>>

\* SetMediaOffset and Downloader::Resume.
SeekResumes ==
    LET offset == puller.wants[1]
        off == IF offset < FileSize THEN 0 ELSE request.start - offset IN
    /\ puller.at = "seekResume" /\ MutexFree
    /\ puller' = [puller EXCEPT !.at = "seekStart", !.position = offset]
    /\ ring' = [ring EXCEPT !.offset = offset]
    /\ astray' = [astray EXCEPT !.lag = off, !.drift = off]
    /\ request' = [request EXCEPT !.queueActive = TRUE, !.eos = FALSE]
    /\ UNCHANGED <<fetch, fetchTask, watcher, failures>>

SeekStarts ==
    /\ Pulling("seekStart", "read")
    /\ fetchTask' = "started"
    /\ UNCHANGED <<ring, request, fetch, watcher, failures, astray>>

\* DownloadMonitor::Read resumes a download that was paused.
ReadBegins ==
    /\ puller.at = "read"
    /\ puller' = [puller EXCEPT !.at = IF watcher.isPlaying THEN "data" ELSE "resume"]
    /\ ring' = IF watcher.isPlaying THEN ring ELSE SetActive(ring, TRUE, FALSE)
    /\ UNCHANGED <<request, fetch, fetchTask, watcher, failures, astray>>

ReadResumes ==
    /\ MutexFree /\ Pulling("resume", "restart")
    /\ request' = [request EXCEPT !.queueActive = TRUE, !.eos = IF request.current THEN FALSE ELSE @]
    /\ UNCHANGED <<ring, fetch, fetchTask, watcher, failures, astray>>

ReadRestarts ==
    /\ Pulling("restart", "data")
    /\ fetchTask' = "started"
    /\ watcher' = [watcher EXCEPT !.isPlaying = TRUE]
    /\ UNCHANGED <<ring, request, fetch, failures, astray>>

\* HttpMediaDownloader::Read polls until there is a byte or the file is over.
ReadEnds ==
    /\ puller.at = "data" /\ ring.data = <<>> /\ (request.eos \/ request.closed)
    /\ puller' = [puller EXCEPT !.at = "idle"]
    /\ watcher' = [watcher EXCEPT !.hasRead = TRUE]
    /\ UNCHANGED <<ring, request, fetch, fetchTask, failures, astray>>

ReadFindsData ==
    /\ puller.at = "data" /\ ring.data # <<>>
    /\ puller' = [puller EXCEPT !.at = IF /\ ring.offset + puller.wants[2] <= FileSize
                                          /\ Len(ring.data) < puller.wants[2] THEN "test" ELSE "take"]
    /\ UNCHANGED <<ring, request, fetch, fetchTask, watcher, failures, astray>>

\* The predicate of cvReadWrite_ is tested, and then the reader sleeps: the
\* threads that notify do not hold mutex_, and may do so in between.
ReadTests ==
    /\ puller.at = "test"
    /\ puller' = [puller EXCEPT !.at = IF Len(ring.data) >= puller.wants[2] \/ request.eos \/ request.closed
                                       THEN "take" ELSE "dozing"]
    /\ UNCHANGED <<ring, request, fetch, fetchTask, watcher, failures, astray>>

ReadSleeps ==
    /\ Pulling("dozing", "asleep")
    /\ UNCHANGED <<ring, request, fetch, fetchTask, watcher, failures, astray>>

\* ReadBuffer gives nothing when the ring was closed in the meantime.  (It also
\* waits while there is nothing, but only the reader takes bytes.)
ReadTakes ==
    LET n == IF ring.active THEN Lesser(puller.wants[2], Len(ring.data)) ELSE 0 IN
    /\ puller.at = "take"
    /\ puller' = [puller EXCEPT !.at = "idle", !.got = SubSeq(ring.data, 1, n), !.position = @ + n]
    /\ ring' = ReadBuffer(ring, n)
    /\ watcher' = [watcher EXCEPT !.hasRead = TRUE]
    /\ UNCHANGED <<request, fetch, fetchTask, failures, astray>>

(* CloseUri, when the player stops: it waits for a pull to end (mutex_).   *)

CloseBegins ==
    /\ Pulling("idle", "closing")
    /\ watcher' = [watcher EXCEPT !.retry = FALSE, !.stopping = TRUE]
    /\ UNCHANGED <<ring, request, fetch, fetchTask, failures, astray>>

\* The monitor's Task has stopped; the ring and the request are closed.
CloseStopsAll ==
    /\ watcher.at = "gone" /\ Pulling("closing", "closeClient")
    /\ ring' = SetActive(ring, FALSE, TRUE)
    /\ request' = [request EXCEPT !.queueActive = FALSE, !.queued = FALSE, !.closed = @ \/ request.current]
    /\ UNCHANGED <<fetch, fetchTask, watcher, failures, astray>>

\* The client is closed when no transfer uses it; then the Task is stopped.
CloseStopsTask ==
    /\ fetch.at \notin {"request", "body"}
    /\ Pulling("closeClient", "closeWait")
    /\ request' = [request EXCEPT !.next = @ \/ request.current]
    /\ fetchTask' = AfterStop(fetchTask)
    /\ UNCHANGED <<ring, fetch, watcher, failures, astray>>

CloseReturns ==
    /\ fetchTask = "stopped" /\ Pulling("closeWait", "closed")
    /\ UNCHANGED <<ring, request, fetch, fetchTask, watcher, failures, astray>>

SeekStep == SeekIsRefused \/ SeekBegins \/ SeekClears \/ SeekPauses \/ SeekPausesTask \/ SeekIsPaused
            \/ SeekMoves \/ SeekResumes \/ SeekStarts

PullStep == PullLearnsSize \/ SeekStep \/ ReadBegins \/ ReadResumes \/ ReadRestarts \/ ReadEnds
            \/ ReadFindsData \/ ReadTests \/ ReadSleeps \/ ReadTakes

CloseStep == CloseStopsAll \/ CloseStopsTask \/ CloseReturns

-----------------------------------------------------------------------------
(* The monitor's thread: HttpMonitorLoop.                                  *)

Watching(from, to) == watcher.at = from /\ watcher' = [watcher EXCEPT !.at = to]

\* A minute without a read: the download is paused, and the bytes kept.
WatchPauses ==
    /\ Watching("loop", "pause") /\ ~watcher.stopping /\ watcher.isPlaying /\ watcher.hasRead
    /\ ring' = SetActive(ring, FALSE, FALSE)
    /\ UNCHANGED <<request, fetch, fetchTask, puller, failures, astray>>

WatchPausesQueue ==
    /\ MutexFree /\ Watching("pause", "pauseTask")
    /\ request' = [request EXCEPT !.queueActive = FALSE]
    /\ UNCHANGED <<ring, fetch, fetchTask, puller, failures, astray>>

WatchPausesTask ==
    /\ watcher.at \in {"pauseTask", "retryTask"}
    /\ watcher' = [watcher EXCEPT !.at = IF @ = "pauseTask" THEN "pauseWait" ELSE "retryWait",
                                  !.awaits = PauseAwaits(fetchTask)]
    /\ fetchTask' = AfterPause(fetchTask)
    /\ UNCHANGED <<ring, request, fetch, puller, failures, astray>>

WatchHasPaused ==
    /\ watcher.at = "pauseWait" /\ fetchTask \in watcher.awaits
    /\ watcher' = [watcher EXCEPT !.at = "loop", !.awaits = {}, !.isPlaying = FALSE, !.hasRead = FALSE]
    /\ puller' = WriterWoken(puller)
    /\ UNCHANGED <<ring, request, fetch, fetchTask, failures, astray>>

\* Retry: the download is paused, its client opened again, and resumed.
WatchRetries ==
    /\ watcher.at = "loop" /\ watcher.retry
    /\ watcher' = [watcher EXCEPT !.at = "retry", !.retry = FALSE]
    /\ UNCHANGED <<ring, request, fetch, fetchTask, puller, failures, astray>>

RetryBegins ==
    /\ MutexFree
    /\ Watching("retry", IF request.next THEN "loop" ELSE "retryTask")
    /\ request' = [request EXCEPT !.queueActive = @ /\ request.next]
    /\ UNCHANGED <<ring, fetch, fetchTask, puller, failures, astray>>

RetryIsPaused ==
    /\ watcher.at = "retryWait" /\ fetchTask \in watcher.awaits
    /\ watcher' = [watcher EXCEPT !.at = "reopen", !.awaits = {}]
    /\ UNCHANGED <<ring, request, fetch, fetchTask, puller, failures, astray>>

RetryReopens ==
    /\ MutexFree
    /\ Watching("reopen", IF request.next THEN "loop" ELSE "refetch")
    /\ request' = IF request.next THEN request
                  ELSE [request EXCEPT !.retries = @ + 1, !.queueActive = TRUE, !.eos = FALSE]
    /\ UNCHANGED <<ring, fetch, fetchTask, puller, failures, astray>>

\* The Task starts again, even under a seek that has paused it.
RetryStarts ==
    /\ Watching("refetch", "loop")
    /\ fetchTask' = "started"
    /\ astray' = [astray EXCEPT !.crossed = @ \/ puller.at \in {"seekWait", "seekTo", "seekResume"}]
    /\ UNCHANGED <<ring, request, fetch, puller, failures>>

WatchStops ==
    /\ watcher.stopping /\ Watching("loop", "gone")
    /\ UNCHANGED <<ring, request, fetch, fetchTask, puller, failures, astray>>

WatchStep == WatchPausesQueue \/ WatchPausesTask \/ WatchHasPaused \/ WatchRetries \/ RetryBegins
             \/ RetryIsPaused \/ RetryReopens \/ RetryStarts \/ WatchStops

HttpNext ==
    \/ \E offset \in 0 .. FileSize, n \in PullSizes : PullBegins(offset, n)
    \/ PullStep \/ CloseBegins \/ CloseStep
    \/ FetchStep \/ NetworkFails
    \/ WatchPauses \/ WatchStep

HttpSpec ==
    /\ HttpInit /\ [][HttpNext]_httpVars
    /\ SF_httpVars(SeekStep) /\ WF_httpVars(CloseStep) /\ WF_httpVars(FetchStep) /\ WF_httpVars(WatchStep)

-----------------------------------------------------------------------------
(* Properties.                                                             *)

\* The bytes a pull gets are those of the range it asked for, whatever was fetched ahead,
\* sought, paused, retried or given up in between, but for two things.  RingBuffer::Seek
\* leaves mediaOffset_ where it was, so that the next seek within the ring lands as far
\* off as the last one went (drift, which a seek out of the ring sets right).  And a retry
\* that starts the download under a seek out of the ring fills it with bytes from before.
HttpReadsInOrder ==
    ~astray.crossed =>
        \A i \in DOMAIN puller.got : puller.got[i] = puller.wants[1] + astray.drift + i - 1

\* A seek out of the ring returns: the writer that waits for room must give up
\* before the downloader's Task is paused ("avoid no available buffer then task
\* pause never exit", http_media_downloader.cpp:124).  It may not when the download is
\* given up meanwhile, or started by a retry: then the seek waits for a pause that was
\* undone, or for operatorMutex_, whose holder waits for room.
HttpSeekReturns ==
    (puller.at = "seekClear") ~> (puller.at = "read" \/ astray.crossed \/ request.closed)

\* Closing returns.  It does not when the download was given up while the
\* monitor paused it: the next read starts the Task again, whose thread is gone
\* (task.cpp:66-68), and Stop waits for that thread.
HttpCloseReturns == (puller.at = "closing") ~> (puller.at = "closed")

\* NOT so (no run): every pull gets what it asked for, and every seek returns.
HttpReadsWhatIsAsked ==
    \A i \in DOMAIN puller.got : puller.got[i] = puller.wants[1] + i - 1
HttpEverySeekReturns == (puller.at = "seekClear") ~> (puller.at = "read")
=============================================================================
