----------------------------- MODULE StreamProofs ---------------------------
(***************************************************************************)
(* Proofs about HttpSource and HlsSource, for files, rings, requests,      *)
(* pulls and fragments of any size: the reader gets the bytes it asked     *)
(* for, and those of a stream in order.                                    *)
(***************************************************************************)
EXTENDS HttpSource, HlsSource, SequenceTheorems, TLAPS

-----------------------------------------------------------------------------
(* HttpSource: the types and the inductive invariant.                      *)

FetchPlaces == {"loop", "pop", "request", "body", "done", "failed", "refused", "gone"}
TaskStates == {"stopped", "started", "pausing", "paused", "stopping"}
RetryPlaces == {"retry", "retryTask", "retryWait", "reopen", "refetch"}
WatchPlaces == {"loop", "pause", "pauseTask", "pauseWait", "gone"} \cup RetryPlaces

\* The seek has emptied the ring and not yet said where the next byte belongs.
Emptied == {"seekPause", "seekTask", "seekWait"}
Moving == {"seekTo", "seekResume"}
Seeking == {"seek", "seekClear", "seekStart"} \cup Emptied \cup Moving
Reading == {"read", "resume", "restart", "data", "test", "dozing", "asleep", "take"}
Ended == {"closeClient", "closeWait", "closed"}
PullPlaces == {"idle", "size", "closing"} \cup Seeking \cup Reading \cup Ended

Rings == [data : Seq(Int), active : BOOLEAN, offset : Int]
Requests == [current : BOOLEAN, queued : BOOLEAN, queueActive : BOOLEAN, next : BOOLEAN,
             known : BOOLEAN, start : Int, size : Int, eos : BOOLEAN, closed : BOOLEAN,
             retries : Int]
Pullers == [at : PullPlaces, wants : Int \X Nat, position : Int, got : Seq(Int), pulls : Int,
            awaits : SUBSET {"paused", "stopped"}]
Watchers == [at : WatchPlaces, stopping : BOOLEAN, isPlaying : BOOLEAN, hasRead : BOOLEAN,
             retry : BOOLEAN, awaits : SUBSET {"paused", "stopped"}]
Fetches == [at : FetchPlaces, end : Int]
Astrays == [lag : Int, drift : Int, crossed : BOOLEAN]

Types ==
    /\ ring \in Rings /\ request \in Requests
    /\ fetch \in Fetches
    /\ fetchTask \in TaskStates
    /\ puller \in Pullers /\ watcher \in Watchers
    /\ failures \in Int /\ astray \in Astrays

\* The bytes of the ring are those before the one that is fetched next.
IsTail(d, next) == \A i \in DOMAIN d : d[i] = next - Len(d) + i - 1

RingIsTail == ~astray.crossed => IsTail(ring.data, request.start)

\* They begin as far off the reader's position as the last seek within the ring went,
\* unless a seek out of it is under way or all is over.
HeadIsNext ==
    puller.at \notin Emptied \cup Moving \cup Ended /\ ~request.closed /\ ~astray.crossed
        => request.start - Len(ring.data) = puller.position + astray.drift

\* A downloader whose Task is paused or stopped is not in a transfer.
PausedIsQuiet == fetchTask \in {"paused", "stopped"} => fetch.at \in {"loop", "gone"}

\* Until the request is taken from its queue nothing has been fetched.
QueuedIsNew ==
    request.queued =>
        /\ request.next /\ ~request.known /\ ~request.closed
        /\ request.start = 0 /\ ring.data = <<>> /\ puller.position = 0 /\ astray.drift = 0
        /\ fetch.at \in {"loop", "pop", "gone"}
        /\ puller.at \in {"idle", "size", "seek", "closing", "read", "resume", "restart", "data"}

\* While the seek moves the request no byte can be saved, but by a retry.
SeekIsAlone ==
    /\ request.closed => ring.data = <<>>
    /\ puller.at \in Emptied => ring.data = <<>> /\ ~ring.active
    /\ puller.at \in Moving /\ ~astray.crossed
          => ring.data = <<>> /\ fetchTask \in {"paused", "stopped"}
    /\ puller.at = "seekResume" /\ ~astray.crossed /\ puller.wants[1] < FileSize
          => request.start = puller.wants[1]

\* mediaOffset_ lags behind the byte at the head of the ring, which is where the reader
\* is and the drift.  A seek has got nothing yet, and a read is at the byte that it wants.
OffsetLags ==
    /\ ring.offset + astray.lag = puller.position + astray.drift
    /\ puller.at \in {"size"} \cup Seeking => puller.got = <<>>
    /\ puller.at \in {"seekStart"} \cup Reading => puller.wants[1] = puller.position

Safe == /\ RingIsTail /\ HeadIsNext /\ PausedIsQuiet /\ QueuedIsNew
        /\ SeekIsAlone /\ OffsetLags /\ HttpReadsInOrder

HttpInv == Types /\ Safe

-----------------------------------------------------------------------------
(* HttpSource: every step keeps the types.                                 *)

LEMMA Numbers == FileSize \in Nat \ {0} /\ RequestBytes \in Nat /\ PullSizes \subseteq Nat
  BY HttpAssumption

LEMMA Places ==
    /\ {"loop", "pop", "request", "body", "done", "failed", "refused", "gone"} \subseteq FetchPlaces
    /\ {"idle", "size", "closing", "seek", "seekClear", "seekPause", "seekTask", "seekWait", "seekTo",
        "seekResume", "seekStart", "read", "resume", "restart", "data", "test", "dozing", "asleep",
        "take", "closeClient", "closeWait", "closed"} \subseteq PullPlaces
    /\ {"loop", "pause", "pauseTask", "pauseWait", "gone", "retry", "retryTask", "retryWait",
        "reopen", "refetch"} \subseteq WatchPlaces
  BY DEF FetchPlaces, PullPlaces, WatchPlaces, Seeking, Emptied, Moving, Reading, Ended, RetryPlaces

LEMMA LesserIs ==
    ASSUME NEW a \in Int, NEW b \in Int
    PROVE  /\ Lesser(a, b) \in Int /\ Lesser(a, b) \in {a, b}
           /\ Lesser(a, b) <= a /\ Lesser(a, b) <= b
  BY DEF Lesser

\* What is left of a sequence when its first n elements are taken off it, and those elements.
LEMMA Rests ==
    ASSUME NEW d \in Seq(Int), NEW n \in 0 .. Len(d)
    PROVE  /\ SubSeq(d, n + 1, Len(d)) \in Seq(Int)
           /\ Len(SubSeq(d, n + 1, Len(d))) = Len(d) - n
           /\ \A i \in 1 .. Len(d) - n : SubSeq(d, n + 1, Len(d))[i] = d[i + n]
           /\ SubSeq(d, 1, n) \in Seq(Int) /\ Len(SubSeq(d, 1, n)) = n
           /\ \A i \in 1 .. n : SubSeq(d, 1, n)[i] = d[i]
<1>1. Len(d) \in Nat
  OBVIOUS
<1>2. \A i \in (n + 1) .. Len(d) : d[i] \in Int
  BY <1>1, ElementOfSeq
<1>3. \A i \in 1 .. n : d[i] \in Int
  BY <1>1, ElementOfSeq
<1>4. SubSeq(d, n + 1, Len(d)) \in Seq(Int) /\ SubSeq(d, 1, n) \in Seq(Int)
  BY <1>1, <1>2, <1>3, SubSeqProperties
<1> QED BY <1>1, <1>4, SubSeqProperties

\* The operations of the ring, field by field.
LEMMA RingOperations ==
    ASSUME NEW r \in Rings
    PROVE  /\ r.data \in Seq(Int) /\ r.active \in BOOLEAN /\ r.offset \in Int
           /\ \A d \in Seq(Int) :
                 /\ [r EXCEPT !.data = d] \in Rings /\ [r EXCEPT !.data = d].data = d
                 /\ [r EXCEPT !.data = d].active = r.active
                 /\ [r EXCEPT !.data = d].offset = r.offset
           /\ \A o \in Int :
                 /\ [r EXCEPT !.offset = o] \in Rings /\ [r EXCEPT !.offset = o].data = r.data
                 /\ [r EXCEPT !.offset = o].active = r.active
                 /\ [r EXCEPT !.offset = o].offset = o
           /\ \A a, c \in BOOLEAN :
                 /\ SetActive(r, a, c) \in Rings /\ SetActive(r, a, c).active = a
                 /\ SetActive(r, a, c).offset = r.offset
                 /\ SetActive(r, a, c).data = IF ~a /\ c THEN <<>> ELSE r.data
<1>1. r.data \in Seq(Int) /\ r.active \in BOOLEAN /\ r.offset \in Int
  BY DEF Rings
<1>2. ASSUME NEW d \in Seq(Int)
      PROVE  /\ [r EXCEPT !.data = d] \in Rings /\ [r EXCEPT !.data = d].data = d
             /\ [r EXCEPT !.data = d].active = r.active
             /\ [r EXCEPT !.data = d].offset = r.offset
  BY DEF Rings
<1>3. ASSUME NEW o \in Int
      PROVE  /\ [r EXCEPT !.offset = o] \in Rings /\ [r EXCEPT !.offset = o].data = r.data
             /\ [r EXCEPT !.offset = o].active = r.active
             /\ [r EXCEPT !.offset = o].offset = o
  BY DEF Rings
<1>4. ASSUME NEW a \in BOOLEAN, NEW c \in BOOLEAN
      PROVE  /\ SetActive(r, a, c) \in Rings /\ SetActive(r, a, c).active = a
             /\ SetActive(r, a, c).offset = r.offset
             /\ SetActive(r, a, c).data = IF ~a /\ c THEN <<>> ELSE r.data
  <2> DEFINE d == IF ~a /\ c THEN <<>> ELSE r.data
             e == [r EXCEPT !.active = a, !.data = d]
  <2>1. d \in Seq(Int)
    <3>1. <<>> \in Seq(Int)
      BY EmptySeq
    <3> QED BY <1>1, <3>1
  <2>2. SetActive(r, a, c) = e
    BY DEF SetActive, Rings
  <2> HIDE DEF d
  <2>3. e \in Rings /\ e.active = a /\ e.offset = r.offset /\ e.data = d
    BY <1>1, <2>1 DEF Rings
  <2> HIDE DEF e
  <2> QED BY <2>2, <2>3 DEF d
<1> QED BY <1>1, <1>2, <1>3, <1>4, Zenon

\* The request, when it is taken up, settled and tried again.
LEMMA RequestChanges ==
    ASSUME NEW r \in Requests, NEW a \in BOOLEAN, NEW b \in BOOLEAN, NEW c \in BOOLEAN,
           NEW d \in BOOLEAN, NEW k \in Int, NEW m \in Int, NEW n \in Int
    PROVE  /\ [r EXCEPT !.current = a, !.queued = b, !.next = c, !.start = k, !.size = m,
                        !.eos = d, !.retries = n] \in Requests
           /\ [r EXCEPT !.retries = k, !.eos = a, !.next = b, !.size = m] \in Requests
           /\ [r EXCEPT !.retries = k, !.queueActive = a, !.eos = b] \in Requests
<1>1. [r EXCEPT !.current = a, !.queued = b, !.next = c, !.start = k, !.size = m,
               !.eos = d, !.retries = n] \in Requests
  BY DEF Requests
<1>2. [r EXCEPT !.retries = k, !.eos = a, !.next = b, !.size = m] \in Requests
  BY DEF Requests
<1>3. [r EXCEPT !.retries = k, !.queueActive = a, !.eos = b] \in Requests
  BY DEF Requests
<1> QED BY <1>1, <1>2, <1>3

\* How much a read takes from the ring.
ReadCount == IF ring.active THEN Lesser(puller.wants[2], Len(ring.data)) ELSE 0

LEMMA ReadCountIs == Types => ReadCount \in 0 .. Len(ring.data) /\ Len(ring.data) \in Nat
<1> SUFFICES ASSUME Types PROVE ReadCount \in 0 .. Len(ring.data) /\ Len(ring.data) \in Nat
  OBVIOUS
<1>1. Len(ring.data) \in Nat /\ puller.wants[2] \in Nat
  BY DEF Types, Rings, Pullers
<1> QED BY <1>1 DEF ReadCount, Lesser

LEMMA FetchTypes ==
    ASSUME Types, FetchStep \/ NetworkFails
    PROVE  Types'
<1> USE Numbers, Places DEF Types
<1>1. CASE FetchTakesUp
  BY <1>1 DEF FetchTakesUp, Fetches
<1>2. CASE FetchPops
  <2>1. fetch' \in Fetches
    BY <1>2 DEF FetchPops, Fetches
  <2>2. request' \in Requests
    <3>1. CASE request.queueActive /\ request.queued
      <4>1. 0 \in Int /\ 1 \in Int
        OBVIOUS
      <4>2. request' = [request EXCEPT !.current = TRUE, !.queued = FALSE, !.next = FALSE,
                                       !.start = 0, !.size = 1, !.eos = FALSE, !.retries = 0]
        BY <1>2, <3>1 DEF FetchPops
      <4> QED BY <4>1, <4>2, RequestChanges, ZenonT(60)
    <3>2. CASE ~(request.queueActive /\ request.queued)
      BY <1>2, <3>2 DEF FetchPops
    <3> QED BY <3>1, <3>2
  <2> QED BY <1>2, <2>1, <2>2 DEF FetchPops
<1>3. CASE FetchRequests
  <2>1. fetch' \in Fetches
    <3>1. Lesser(request.start + request.size, FileSize) \in Int
      <4>1. request.start + request.size \in Int /\ FileSize \in Int
        BY DEF Requests
      <4> QED BY <4>1, LesserIs
    <3> QED BY <1>3, <3>1 DEF FetchRequests, Fetches
  <2>2. request' \in Requests
    BY <1>3 DEF FetchRequests, Requests
  <2> QED BY <1>3, <2>1, <2>2 DEF FetchRequests
<1>4. CASE FetchReceives
  <2>1. fetch' \in Fetches
    BY <1>4 DEF FetchReceives, Fetches
  <2>2. request' \in Requests
    BY <1>4 DEF FetchReceives, Requests
  <2>3. ring' \in Rings
    <3>1. Append(ring.data, request.start) \in Seq(Int)
      BY AppendProperties DEF Rings, Requests
    <3>2. ring' = ring \/ ring' = [ring EXCEPT !.data = Append(ring.data, request.start)]
      BY <1>4 DEF FetchReceives
    <3>3. CASE ring' = ring
      BY <3>3
    <3>4. CASE ring' = [ring EXCEPT !.data = Append(ring.data, request.start)]
      BY <3>1, <3>4, RingOperations, Zenon
    <3> QED BY <3>2, <3>3, <3>4
  <2>4. puller' \in Pullers
    BY <1>4 DEF FetchReceives, Pullers, WriterWoken
  <2> QED BY <1>4, <2>1, <2>2, <2>3, <2>4 DEF FetchReceives
<1>5. CASE FetchCompletes
  BY <1>5 DEF FetchCompletes, Fetches
<1>6. CASE FetchSettles
  <2>1. fetch' \in Fetches
    BY <1>6 DEF FetchSettles, Fetches
  <2>2. request' \in Requests
    <3>1. Lesser(FileSize - request.start, RequestBytes) \in Int
      <4>1. FileSize - request.start \in Int /\ RequestBytes \in Int
        BY DEF Requests
      <4> QED BY <4>1, LesserIs
    <3> DEFINE over == request.eos \/ FileSize - request.start <= 0
               next == request.next \/ FileSize - request.start <= 0
               n == IF FileSize - request.start <= 0 THEN request.size
                    ELSE Lesser(FileSize - request.start, RequestBytes)
    <3>2. over \in BOOLEAN /\ next \in BOOLEAN /\ n \in Int /\ 0 \in Int
      BY <3>1 DEF Requests
    <3>3. request' = [request EXCEPT !.retries = 0, !.eos = over, !.next = next, !.size = n]
      BY <1>6 DEF FetchSettles, Requests
    <3> HIDE DEF over, next, n
    <3> QED BY <3>2, <3>3, RequestChanges, ZenonT(60)
  <2>3. fetchTask' \in TaskStates
    BY <1>6 DEF FetchSettles, TaskStates
  <2> QED BY <1>6, <2>1, <2>2, <2>3 DEF FetchSettles
<1>7. CASE FetchIsRefused
  <2>1. fetch' \in Fetches
    BY <1>7 DEF FetchIsRefused, Fetches
  <2>2. fetchTask' \in TaskStates
    BY <1>7 DEF FetchIsRefused, TaskStates
  <2> QED BY <1>7, <2>1, <2>2 DEF FetchIsRefused
<1>8. CASE FetchAsksForRetry
  <2>1. fetch' \in Fetches
    BY <1>8 DEF FetchAsksForRetry, Fetches
  <2>2. fetchTask' \in TaskStates
    BY <1>8 DEF FetchAsksForRetry, TaskStates
  <2>3. watcher' \in Watchers
    BY <1>8 DEF FetchAsksForRetry, Watchers
  <2> QED BY <1>8, <2>1, <2>2, <2>3 DEF FetchAsksForRetry
<1>9. CASE FetchGivesUp
  <2>1. fetch' \in Fetches
    BY <1>9 DEF FetchGivesUp, Fetches
  <2>2. fetchTask' \in TaskStates
    BY <1>9 DEF FetchGivesUp, TaskStates, AfterStop
  <2>3. watcher' \in Watchers
    BY <1>9 DEF FetchGivesUp, Watchers
  <2>4. ring' \in Rings
    BY <1>9, RingOperations DEF FetchGivesUp
  <2>5. request' \in Requests
    BY <1>9 DEF FetchGivesUp, Requests
  <2>6. puller' \in Pullers
    BY <1>9 DEF FetchGivesUp, Pullers, WriterWoken
  <2> QED BY <1>9, <2>1, <2>2, <2>3, <2>4, <2>5, <2>6 DEF FetchGivesUp
<1>10. CASE FetchRests
  <2>1. fetch' \in Fetches
    BY <1>10 DEF FetchRests, Fetches
  <2>2. fetchTask' \in TaskStates
    BY <1>10 DEF FetchRests, TaskStates
  <2> QED BY <1>10, <2>1, <2>2 DEF FetchRests
<1>11. CASE NetworkFails
  <2>1. fetch' \in Fetches
    BY <1>11 DEF NetworkFails, Fetches
  <2>2. failures' \in Int
    BY <1>11 DEF NetworkFails
  <2> QED BY <1>11, <2>1, <2>2 DEF NetworkFails
<1> QED BY <1>1, <1>2, <1>3, <1>4, <1>5, <1>6, <1>7, <1>8, <1>9, <1>10, <1>11 DEF FetchStep

LEMMA SeekTypes ==
    ASSUME Types, SeekStep
    PROVE  Types'
<1> USE Numbers, Places DEF Types
<1>0. CASE SeekIsRefused
  BY <1>0 DEF SeekIsRefused, Pulling, Pullers
<1>1. CASE SeekBegins
  <2>1. watcher' \in Watchers
    BY <1>1 DEF SeekBegins, Watchers
  <2>2. ring' \in Rings
    <3>1. CASE ~Near(ring, puller.wants[1])
      BY <1>1, <3>1 DEF SeekBegins
    <3>2. CASE Near(ring, puller.wants[1])
      <4> DEFINE n == puller.wants[1] - ring.offset
      <4>1. puller.wants[1] \in Int /\ ring.offset \in Int /\ ring.data \in Seq(Int)
        BY DEF Pullers, Rings
      <4>2. n \in 0 .. Len(ring.data)
        BY <3>2, <4>1 DEF Near
      <4>3. ring' = [ring EXCEPT !.data = SubSeq(ring.data, n + 1, Len(ring.data))]
        BY <1>1, <3>2 DEF SeekBegins, RingSeek
      <4> HIDE DEF n
      <4> DEFINE rest == SubSeq(ring.data, n + 1, Len(ring.data))
      <4>4. rest \in Seq(Int) /\ ring' = [ring EXCEPT !.data = rest]
        BY <4>1, <4>2, <4>3, Rests
      <4> HIDE DEF rest
      <4> QED BY <4>4 DEF Rings
    <3> QED BY <3>1, <3>2
  <2>3. puller' \in Pullers
    BY <1>1, ZenonT(60) DEF SeekBegins, Pullers
  <2>4. astray' \in Astrays
    <3>1. astray.lag + puller.wants[1] - ring.offset \in Int /\ astray.lag \in Int
      BY DEF Astrays, Rings, Pullers
    <3> DEFINE k == astray.lag + puller.wants[1] - ring.offset
    <3>2. astray' = astray \/ astray' = [astray EXCEPT !.lag = k, !.drift = astray.lag]
      BY <1>1 DEF SeekBegins, Astrays
    <3> HIDE DEF k
    <3>3. k \in Int
      BY <3>1 DEF k
    <3> QED BY <3>1, <3>2, <3>3 DEF Astrays
  <2> QED BY <1>1, <2>1, <2>2, <2>3, <2>4 DEF SeekBegins
<1>2. CASE SeekClears
  <2>1. puller' \in Pullers
    BY <1>2 DEF SeekClears, Pullers, Pulling
  <2>2. ring' \in Rings
    BY <1>2, RingOperations DEF SeekClears
  <2> QED BY <1>2, <2>1, <2>2 DEF SeekClears
<1>3. CASE SeekPauses
  <2>1. puller' \in Pullers
    BY <1>3 DEF SeekPauses, Pullers, Pulling
  <2>2. request' \in Requests
    BY <1>3 DEF SeekPauses, Requests
  <2> QED BY <1>3, <2>1, <2>2 DEF SeekPauses
<1>4. CASE SeekPausesTask
  <2>1. puller' \in Pullers
    BY <1>4 DEF SeekPausesTask, Pullers, PauseAwaits
  <2>2. fetchTask' \in TaskStates
    BY <1>4 DEF SeekPausesTask, TaskStates, AfterPause
  <2> QED BY <1>4, <2>1, <2>2 DEF SeekPausesTask
<1>5. CASE SeekIsPaused
  <2>1. puller' \in Pullers
    BY <1>5 DEF SeekIsPaused, Pullers
  <2>2. ring' \in Rings
    <3> DEFINE r == [ring EXCEPT !.data = <<>>]
    <3>1. <<>> \in Seq(Int)
      BY EmptySeq
    <3>2. r \in Rings
      BY <3>1, RingOperations
    <3>3. ring' = SetActive(r, TRUE, FALSE)
      BY <1>5 DEF SeekIsPaused
    <3> HIDE DEF r
    <3> QED BY <3>2, <3>3, RingOperations
  <2>3. astray' \in Astrays
    BY <1>5 DEF SeekIsPaused, Astrays
  <2> QED BY <1>5, <2>1, <2>2, <2>3 DEF SeekIsPaused
<1>6. CASE SeekMoves
  <2>1. puller' \in Pullers
    BY <1>6 DEF SeekMoves, Pullers, Pulling
  <2>2. request' \in Requests
    <3> DEFINE from == IF puller.wants[1] < FileSize THEN puller.wants[1] ELSE request.start
               n == Lesser(FileSize - from, RequestBytes)
    <3>1. from \in Int /\ n \in Int
      <4>1. from \in Int /\ FileSize - from \in Int /\ RequestBytes \in Int
        BY DEF Pullers, Requests
      <4> QED BY <4>1, LesserIs
    <3>2. request' = [request EXCEPT !.start = from, !.eos = FALSE, !.next = FALSE, !.size = n]
      BY <1>6 DEF SeekMoves
    <3> HIDE DEF from, n
    <3> QED BY <3>1, <3>2 DEF Requests
  <2> QED BY <1>6, <2>1, <2>2 DEF SeekMoves
<1>7. CASE SeekResumes
  <2>1. puller' \in Pullers
    BY <1>7 DEF SeekResumes, Pullers
  <2>2. ring' \in Rings
    BY <1>7, RingOperations DEF SeekResumes, Pullers
  <2>3. request' \in Requests
    BY <1>7 DEF SeekResumes, Requests
  <2>4. astray' \in Astrays
    <3> DEFINE off == IF puller.wants[1] < FileSize THEN 0 ELSE request.start - puller.wants[1]
    <3>1. off \in Int
      BY DEF Requests, Pullers
    <3>2. astray' = [astray EXCEPT !.lag = off, !.drift = off]
      BY <1>7 DEF SeekResumes
    <3> HIDE DEF off
    <3> QED BY <3>1, <3>2 DEF Astrays
  <2> QED BY <1>7, <2>1, <2>2, <2>3, <2>4 DEF SeekResumes
<1>8. CASE SeekStarts
  <2>1. puller' \in Pullers
    BY <1>8 DEF SeekStarts, Pullers, Pulling
  <2>2. fetchTask' \in TaskStates
    BY <1>8 DEF SeekStarts, TaskStates
  <2> QED BY <1>8, <2>1, <2>2 DEF SeekStarts
<1> QED BY <1>0, <1>1, <1>2, <1>3, <1>4, <1>5, <1>6, <1>7, <1>8 DEF SeekStep

LEMMA PullTypes ==
    ASSUME Types, PullStep, ~SeekStep
    PROVE  Types'
<1> USE Numbers, Places DEF Types
<1>1. CASE PullLearnsSize
  <2> DEFINE offset == puller.wants[1]
             n == IF request.known THEN Lesser(puller.wants[2], FileSize - offset)
                                   ELSE puller.wants[2]
  <2>1. offset \in Int /\ puller.wants[2] \in Nat
    BY DEF Pullers
  <2>2. CASE request.known /\ offset >= FileSize
    BY <1>1, <2>2 DEF PullLearnsSize, Pullers
  <2>3. CASE ~(request.known /\ offset >= FileSize)
    <3>1. n \in Nat
      BY <2>1, <2>3 DEF Lesser
    <3>2. PICK place \in {"seek", "read"} : puller' = [puller EXCEPT !.at = place, !.wants[2] = n]
      BY <1>1, <2>3 DEF PullLearnsSize
    <3> HIDE DEF n
    <3>3. place \in PullPlaces
      OBVIOUS
    <3>4. puller' \in Pullers
      <4> DEFINE w == [puller.wants EXCEPT ![2] = n]
      <4>1. puller' = [puller EXCEPT !.at = place, !.wants = w]
        BY <3>2 DEF Pullers
      <4>2. w \in Int \X Nat
        BY <3>1 DEF Pullers
      <4> HIDE DEF w
      <4> QED BY <3>3, <4>1, <4>2 DEF Pullers
    <3> QED BY <1>1, <3>4 DEF PullLearnsSize
  <2> QED BY <2>2, <2>3
<1>2. CASE ReadBegins
  <2>1. puller' \in Pullers
    BY <1>2 DEF ReadBegins, Pullers
  <2>2. ring' \in Rings
    BY <1>2 DEF ReadBegins, Rings, SetActive
  <2> QED BY <1>2, <2>1, <2>2 DEF ReadBegins
<1>3. CASE ReadResumes
  <2>1. puller' \in Pullers
    BY <1>3 DEF ReadResumes, Pullers, Pulling
  <2>2. request' \in Requests
    BY <1>3 DEF ReadResumes, Requests
  <2> QED BY <1>3, <2>1, <2>2 DEF ReadResumes
<1>4. CASE ReadRestarts
  <2>1. puller' \in Pullers
    BY <1>4 DEF ReadRestarts, Pullers, Pulling
  <2>2. fetchTask' \in TaskStates
    BY <1>4 DEF ReadRestarts, TaskStates
  <2>3. watcher' \in Watchers
    BY <1>4 DEF ReadRestarts, Watchers
  <2> QED BY <1>4, <2>1, <2>2, <2>3 DEF ReadRestarts
<1>5. CASE ReadEnds
  <2>1. puller' \in Pullers
    BY <1>5 DEF ReadEnds, Pullers
  <2>2. watcher' \in Watchers
    BY <1>5 DEF ReadEnds, Watchers
  <2> QED BY <1>5, <2>1, <2>2 DEF ReadEnds
<1>6. CASE ReadFindsData
  BY <1>6 DEF ReadFindsData, Pullers
<1>7. CASE ReadTests
  BY <1>7 DEF ReadTests, Pullers
<1>8. CASE ReadSleeps
  BY <1>8 DEF ReadSleeps, Pullers, Pulling
<1>9. CASE ReadTakes
  <2>1. puller' \in Pullers
    <3> DEFINE taken == SubSeq(ring.data, 1, ReadCount)
    <3>0. /\ ring.data \in Seq(Int) /\ puller.position + ReadCount \in Int
          /\ ReadCount \in 0 .. Len(ring.data)
      BY ReadCountIs DEF Rings, Pullers
    <3>1. taken \in Seq(Int)
      BY <3>0, Rests
    <3>2. puller' = [puller EXCEPT !.at = "idle", !.got = taken, !.position = @ + ReadCount]
      BY <1>9 DEF ReadTakes, ReadCount
    <3> HIDE DEF taken
    <3> QED BY <3>0, <3>1, <3>2 DEF Pullers
  <2>2. ring' \in Rings
    <3> DEFINE rest == SubSeq(ring.data, ReadCount + 1, Len(ring.data))
    <3>0. /\ ring.data \in Seq(Int)
          /\ ring.offset + ReadCount \in Int /\ ReadCount \in 0 .. Len(ring.data)
      BY ReadCountIs DEF Rings
    <3>1. rest \in Seq(Int)
      BY <3>0, Rests
    <3>2. ring' = [ring EXCEPT !.data = rest, !.offset = @ + ReadCount]
      BY <1>9 DEF ReadTakes, ReadBuffer, ReadCount
    <3> HIDE DEF rest
    <3> QED BY <3>0, <3>1, <3>2 DEF Rings
  <2>3. watcher' \in Watchers
    BY <1>9 DEF ReadTakes, Watchers
  <2> QED BY <1>9, <2>1, <2>2, <2>3 DEF ReadTakes
<1> QED BY <1>1, <1>2, <1>3, <1>4, <1>5, <1>6, <1>7, <1>8, <1>9 DEF PullStep

LEMMA CloseTypes ==
    ASSUME Types, CloseBegins \/ CloseStep
    PROVE  Types'
<1> USE Numbers, Places DEF Types
<1>1. CASE CloseBegins
  <2>1. puller' \in Pullers
    BY <1>1 DEF CloseBegins, Pullers, Pulling
  <2>2. watcher' \in Watchers
    BY <1>1 DEF CloseBegins, Watchers
  <2> QED BY <1>1, <2>1, <2>2 DEF CloseBegins
<1>2. CASE CloseStopsAll
  <2>1. puller' \in Pullers
    BY <1>2 DEF CloseStopsAll, Pullers, Pulling
  <2>2. ring' \in Rings
    BY <1>2, RingOperations DEF CloseStopsAll
  <2>3. request' \in Requests
    BY <1>2, ZenonT(60) DEF CloseStopsAll, Requests
  <2> QED BY <1>2, <2>1, <2>2, <2>3 DEF CloseStopsAll
<1>3. CASE CloseStopsTask
  <2>1. puller' \in Pullers
    BY <1>3 DEF CloseStopsTask, Pullers, Pulling
  <2>2. request' \in Requests
    BY <1>3 DEF CloseStopsTask, Requests
  <2>3. fetchTask' \in TaskStates
    BY <1>3 DEF CloseStopsTask, TaskStates, AfterStop
  <2> QED BY <1>3, <2>1, <2>2, <2>3 DEF CloseStopsTask
<1>4. CASE CloseReturns
  BY <1>4 DEF CloseReturns, Pullers, Pulling
<1> QED BY <1>1, <1>2, <1>3, <1>4 DEF CloseStep

LEMMA WatchTypes ==
    ASSUME Types, WatchPauses \/ WatchStep
    PROVE  Types'
<1> USE Numbers, Places DEF Types
<1>1. CASE WatchPauses
  <2>1. watcher' \in Watchers
    BY <1>1 DEF WatchPauses, Watchers, Watching
  <2>2. ring' \in Rings
    BY <1>1 DEF WatchPauses, Rings, SetActive
  <2> QED BY <1>1, <2>1, <2>2 DEF WatchPauses
<1>2. CASE WatchPausesQueue
  <2>1. watcher' \in Watchers
    BY <1>2 DEF WatchPausesQueue, Watchers, Watching
  <2>2. request' \in Requests
    BY <1>2 DEF WatchPausesQueue, Requests
  <2> QED BY <1>2, <2>1, <2>2 DEF WatchPausesQueue
<1>3. CASE WatchPausesTask
  <2>1. watcher' \in Watchers
    BY <1>3 DEF WatchPausesTask, Watchers, PauseAwaits
  <2>2. fetchTask' \in TaskStates
    BY <1>3 DEF WatchPausesTask, TaskStates, AfterPause
  <2> QED BY <1>3, <2>1, <2>2 DEF WatchPausesTask
<1>4. CASE WatchHasPaused
  <2>1. watcher' \in Watchers
    BY <1>4 DEF WatchHasPaused, Watchers
  <2>2. puller' \in Pullers
    BY <1>4 DEF WatchHasPaused, Pullers, WriterWoken
  <2> QED BY <1>4, <2>1, <2>2 DEF WatchHasPaused
<1>5. CASE WatchRetries
  BY <1>5 DEF WatchRetries, Watchers
<1>6. CASE RetryBegins
  <2>1. watcher' \in Watchers
    BY <1>6 DEF RetryBegins, Watchers, Watching
  <2>2. request' \in Requests
    BY <1>6 DEF RetryBegins, Requests
  <2> QED BY <1>6, <2>1, <2>2 DEF RetryBegins
<1>7. CASE RetryIsPaused
  BY <1>7 DEF RetryIsPaused, Watchers
<1>8. CASE RetryReopens
  <2>1. watcher' \in Watchers
    BY <1>8 DEF RetryReopens, Watchers, Watching
  <2>2. request' \in Requests
    <3>1. CASE request.next
      BY <1>8, <3>1 DEF RetryReopens
    <3>2. CASE ~request.next
      <4>1. request.retries + 1 \in Int
        BY DEF Requests
      <4>2. request' = [request EXCEPT !.retries = request.retries + 1, !.queueActive = TRUE,
                                       !.eos = FALSE]
        BY <1>8, <3>2 DEF RetryReopens
      <4> QED BY <4>1, <4>2, RequestChanges, ZenonT(60)
    <3> QED BY <3>1, <3>2
  <2> QED BY <1>8, <2>1, <2>2 DEF RetryReopens
<1>9. CASE RetryStarts
  <2>1. watcher' \in Watchers
    BY <1>9 DEF RetryStarts, Watchers, Watching
  <2>2. fetchTask' \in TaskStates
    BY <1>9 DEF RetryStarts, TaskStates
  <2>3. astray' \in Astrays
    BY <1>9 DEF RetryStarts, Astrays
  <2> QED BY <1>9, <2>1, <2>2, <2>3 DEF RetryStarts
<1>10. CASE WatchStops
  BY <1>10 DEF WatchStops, Watchers, Watching
<1> QED BY <1>1, <1>2, <1>3, <1>4, <1>5, <1>6, <1>7, <1>8, <1>9, <1>10 DEF WatchStep

-----------------------------------------------------------------------------
(* HttpSource: every step keeps the order of the bytes.                    *)

\* A ring that takes the next byte, or gives its first ones, goes on as before.
LEMMA Tails ==
    ASSUME NEW d \in Seq(Int), NEW k \in Int, IsTail(d, k)
    PROVE  /\ IsTail(Append(d, k), k + 1)
           /\ \A n \in 0 .. Len(d) : IsTail(SubSeq(d, n + 1, Len(d)), k)
<1>1. Len(d) \in Nat /\ DOMAIN d = 1 .. Len(d)
  BY LenProperties
<1>2. IsTail(Append(d, k), k + 1)
  BY <1>1, AppendProperties DEF IsTail
<1>3. ASSUME NEW n \in 0 .. Len(d) PROVE IsTail(SubSeq(d, n + 1, Len(d)), k)
  <2> DEFINE e == SubSeq(d, n + 1, Len(d))
  <2>1. /\ e \in Seq(Int) /\ Len(e) = Len(d) - n
        /\ \A i \in 1 .. Len(d) - n : e[i] = d[i + n]
    BY Rests
  <2> HIDE DEF e
  <2>2. DOMAIN e = 1 .. Len(d) - n
    BY <2>1, LenProperties
  <2> SUFFICES ASSUME NEW i \in DOMAIN e PROVE e[i] = k - Len(e) + i - 1
    BY DEF IsTail, e
  <2>3. i + n \in 1 .. Len(d)
    BY <1>1, <2>2
  <2>4. d[i + n] = k - Len(d) + (i + n) - 1
    BY <1>1, <2>3 DEF IsTail
  <2>5. e[i] = d[i + n] /\ i \in Int /\ n \in Int
    BY <1>1, <2>1, <2>2, SMTT(60)
  <2> QED BY <1>1, <2>1, <2>4, <2>5
<1> QED BY <1>2, <1>3

\* What is left begins as much further on as is taken off.
LEMMA Shortened ==
    ASSUME NEW s \in Int, NEW m \in Int, NEW n \in Int, NEW k \in Int, NEW p \in Int,
           s - m = p, k = m - n
    PROVE  s - k = p + n
  OBVIOUS

LEMMA NoTail == \A k : IsTail(<<>>, k)
  BY DEF IsTail

LEMMA ReceivesInOrder ==
    ASSUME HttpInv, FetchReceives
    PROVE  RingIsTail' /\ HeadIsNext'
<1>1. CASE request.closed \/ ~ring.active
  BY <1>1 DEF HttpInv, Safe, FetchReceives, RingIsTail, HeadIsNext
<1>2. CASE ~(request.closed \/ ~ring.active)
  <2> DEFINE d == Append(ring.data, request.start)
  <2>1. ring.data \in Seq(Int) /\ request.start \in Int
    BY DEF HttpInv, Safe, Types, Rings, Requests
  <2>2. /\ ~astray.crossed => IsTail(d, request.start + 1)
        /\ Len(d) = Len(ring.data) + 1
    BY <2>1, Tails, AppendProperties DEF HttpInv, Safe, RingIsTail
  <2>3. /\ ring' = [ring EXCEPT !.data = d] /\ request' = [request EXCEPT !.start = @ + 1]
        /\ puller' = WriterWoken(puller)
    BY <1>2 DEF FetchReceives
  <2> HIDE DEF d
  <2>4. /\ ring'.data = d /\ request'.start = request.start + 1 /\ request'.closed = request.closed
        /\ puller'.position = puller.position
        /\ puller'.at = IF puller.at = "asleep" THEN "test" ELSE puller.at
    BY <2>3 DEF WriterWoken, HttpInv, Types, Rings, Requests, Pullers
  <2>5. request'.start - Len(ring'.data) = request.start - Len(ring.data)
    <3>1. Len(ring.data) \in Nat /\ Len(ring'.data) = Len(ring.data) + 1
      BY <2>1, <2>2, <2>4
    <3> QED BY <2>1, <2>4, <3>1, SMTT(60)
  <2>6. astray' = astray
    BY DEF FetchReceives
  <2>7. HeadIsNext'
    BY <2>4, <2>5, <2>6 DEF HttpInv, Safe, HeadIsNext, Emptied, Moving, Ended
  <2> QED BY <2>2, <2>4, <2>6, <2>7 DEF RingIsTail
<1> QED BY <1>1, <1>2

LEMMA ReceivesAlone ==
    ASSUME HttpInv, FetchReceives
    PROVE  SeekIsAlone' /\ OffsetLags'
<1>1. CASE request.closed \/ ~ring.active
  BY <1>1 DEF HttpInv, Safe, FetchReceives, SeekIsAlone, OffsetLags
<1>2. CASE ~(request.closed \/ ~ring.active)
  <2>1. /\ ring'.offset = ring.offset /\ puller'.position = puller.position
        /\ puller'.wants = puller.wants /\ puller'.got = puller.got
        /\ puller'.at = IF puller.at = "asleep" THEN "test" ELSE puller.at
        /\ astray' = astray /\ request'.closed = request.closed /\ ~request.closed
        /\ ring.active /\ fetch.at = "body"
    BY <1>2 DEF HttpInv, Types, FetchReceives, WriterWoken, Rings, Requests, Pullers
  <2>2. puller.at \notin Emptied /\ (puller.at \in Moving => astray.crossed)
    BY <2>1 DEF HttpInv, Safe, PausedIsQuiet, SeekIsAlone
  <2>3. SeekIsAlone'
    BY <2>1, <2>2 DEF SeekIsAlone, Emptied, Moving
  <2>4. OffsetLags'
    BY <2>1 DEF HttpInv, Safe, OffsetLags, Seeking, Emptied, Moving, Reading
  <2> QED BY <2>3, <2>4
<1> QED BY <1>1, <1>2

LEMMA SeekKeepsOrder ==
    ASSUME HttpInv, SeekBegins
    PROVE  RingIsTail' /\ HeadIsNext' /\ SeekIsAlone' /\ OffsetLags'
<1>1. CASE ~Near(ring, puller.wants[1])
  BY <1>1
       DEF HttpInv, Safe, Types, SeekBegins, Pullers, RingIsTail, HeadIsNext, SeekIsAlone,
           OffsetLags, Emptied, Moving, Ended, Reading, Seeking
<1>2. CASE Near(ring, puller.wants[1])
  <2> DEFINE n == puller.wants[1] - ring.offset
             d == SubSeq(ring.data, n + 1, Len(ring.data))
  <2>1. /\ puller.wants[1] \in Int /\ ring.offset \in Int /\ ring.data \in Seq(Int)
        /\ request.start \in Int /\ puller.at = "seek"
    BY DEF HttpInv, Safe, Types, Pullers, Rings, Requests, SeekBegins
  <2>2. n \in 0 .. Len(ring.data) /\ Len(ring.data) \in Nat
    BY <1>2, <2>1 DEF Near
  <2>3. /\ d \in Seq(Int) /\ Len(d) = Len(ring.data) - n
        /\ ~astray.crossed => IsTail(d, request.start)
    BY <2>1, <2>2, Rests, Tails, ZenonT(60) DEF HttpInv, Safe, RingIsTail
  <2>4. /\ ring' = [ring EXCEPT !.data = d] /\ request' = request
        /\ astray' = [astray EXCEPT !.lag = @ + puller.wants[1] - ring.offset, !.drift = astray.lag]
        /\ puller' = [puller EXCEPT !.at = "read", !.position = puller.wants[1]]
        /\ fetchTask' = fetchTask
    BY <1>2 DEF SeekBegins, RingSeek
  <2>5. /\ astray.lag \in Int /\ astray.drift \in Int /\ puller.position \in Int
        /\ ring.offset + astray.lag = puller.position + astray.drift
        /\ ~request.closed /\ ~astray.crossed
              => request.start - Len(ring.data) = puller.position + astray.drift
    BY <2>1
       DEF HttpInv, Safe, Types, Pullers, Astrays, OffsetLags, HeadIsNext, Emptied, Moving, Ended
  <2> HIDE DEF n, d
  <2>6. ~request.closed /\ ~astray.crossed => request.start - Len(d) = puller.wants[1] + astray.lag
    <3> SUFFICES ASSUME ~request.closed, ~astray.crossed
                 PROVE  request.start - Len(d) = puller.wants[1] + astray.lag
      OBVIOUS
    <3>1. /\ n \in Int /\ Len(d) \in Int /\ puller.position + astray.drift \in Int
          /\ request.start - Len(ring.data) = puller.position + astray.drift
      BY <2>1, <2>2, <2>3, <2>5
    <3>2. request.start - Len(d) = puller.position + astray.drift + n
      BY <2>1, <2>2, <2>3, <3>1, Shortened
    <3>3. puller.position + astray.drift + n = puller.wants[1] + astray.lag
      BY <2>1, <2>5 DEF n
    <3> QED BY <3>2, <3>3
  <2>7. /\ ring'.data = d /\ ring'.active = ring.active /\ ring'.offset = ring.offset
        /\ puller'.at = "read" /\ puller'.position = puller.wants[1]
        /\ puller'.wants = puller.wants
        /\ astray'.crossed = astray.crossed /\ astray'.drift = astray.lag
        /\ astray'.lag = astray.lag + puller.wants[1] - ring.offset
    BY <2>3, <2>4 DEF HttpInv, Safe, Types, Rings, Pullers, Astrays
  <2>8. RingIsTail' /\ HeadIsNext'
    BY <2>3, <2>4, <2>6, <2>7 DEF RingIsTail, HeadIsNext
  <2>9. SeekIsAlone'
    <3>1. ~request.closed
      <4>1. ring.data # <<>>
        BY <1>2, <2>1, EmptySeq DEF Near
      <4> QED BY <4>1 DEF HttpInv, Safe, SeekIsAlone
    <3> QED BY <2>4, <2>7, <3>1 DEF SeekIsAlone, Emptied, Moving
  <2>10. OffsetLags'
    <3>1. ring'.offset + astray'.lag = puller'.position + astray'.drift
      BY <2>1, <2>5, <2>7
    <3> QED BY <2>7, <3>1 DEF OffsetLags, Emptied, Moving, Seeking
  <2> QED BY <2>8, <2>9, <2>10
<1> QED BY <1>1, <1>2

LEMMA TakesInOrder ==
    ASSUME HttpInv, ReadTakes
    PROVE  RingIsTail' /\ HeadIsNext' /\ OffsetLags' /\ HttpReadsInOrder'
<1> DEFINE d == SubSeq(ring.data, ReadCount + 1, Len(ring.data))
           taken == SubSeq(ring.data, 1, ReadCount)
<1>1. /\ ring.data \in Seq(Int) /\ Len(ring.data) \in Nat /\ ReadCount \in 0 .. Len(ring.data)
      /\ request.start \in Int /\ puller.position \in Int /\ ring.offset \in Int
      /\ puller.at = "take"
  BY ReadCountIs DEF HttpInv, Safe, Types, Pullers, Rings, Requests, ReadTakes
<1>2. /\ d \in Seq(Int) /\ Len(d) = Len(ring.data) - ReadCount
      /\ ~astray.crossed => IsTail(d, request.start)
      /\ taken \in Seq(Int) /\ Len(taken) = ReadCount
      /\ \A i \in 1 .. ReadCount : taken[i] = ring.data[i]
  BY <1>1, Rests, Tails DEF HttpInv, Safe, RingIsTail
<1>3. /\ ring' = [ring EXCEPT !.data = d, !.offset = @ + ReadCount] /\ request' = request
      /\ puller' = [puller EXCEPT !.at = "idle", !.got = taken, !.position = @ + ReadCount]
      /\ astray' = astray
  BY DEF ReadTakes, ReadBuffer, ReadCount
<1> HIDE DEF d, taken
<1>4. /\ ring'.data = d /\ puller'.got = taken /\ puller'.wants = puller.wants
      /\ puller'.position = puller.position + ReadCount /\ astray.drift \in Int
  BY <1>3 DEF HttpInv, Safe, Types, Rings, Pullers, Astrays
<1>5. ~request.closed /\ ~astray.crossed
        => request.start - Len(ring.data) = puller.position + astray.drift
  BY <1>1 DEF HttpInv, Safe, HeadIsNext, Emptied, Moving, Ended
<1>6. HeadIsNext'
  <2>1. ~request.closed /\ ~astray.crossed
          => request.start - Len(d) = puller.position + ReadCount + astray.drift
    <3> SUFFICES ASSUME ~request.closed, ~astray.crossed
                 PROVE  request.start - Len(d) = puller.position + ReadCount + astray.drift
      OBVIOUS
    <3>1. /\ ReadCount \in Int /\ Len(d) \in Int /\ puller.position + astray.drift \in Int
          /\ request.start - Len(ring.data) = puller.position + astray.drift
      BY <1>1, <1>2, <1>4, <1>5
    <3>2. request.start - Len(d) = puller.position + astray.drift + ReadCount
      BY <1>1, <1>2, <3>1, Shortened
    <3> QED BY <1>1, <1>4, <3>1, <3>2
  <2> QED BY <1>3, <1>4, <2>1 DEF HeadIsNext
<1>7. puller.wants[1] = puller.position
  BY <1>1 DEF HttpInv, Safe, OffsetLags, Reading
<1>8. ASSUME ~astray.crossed, NEW i \in DOMAIN taken
      PROVE  taken[i] = puller.wants[1] + astray.drift + i - 1
  <2>1. /\ i \in 1 .. ReadCount
        /\ i \in 1 .. Len(ring.data) /\ DOMAIN ring.data = 1 .. Len(ring.data)
    BY <1>1, <1>2, LenProperties
  <2>2. ring.data # <<>>
    BY <2>1, <1>1, EmptySeq
  <2>3. ~request.closed
    BY <2>2 DEF HttpInv, Safe, SeekIsAlone
  <2>4. ring.data[i] = request.start - Len(ring.data) + i - 1
    BY <1>8, <2>1 DEF HttpInv, Safe, RingIsTail, IsTail
  <2>5. request.start - Len(ring.data) = puller.wants[1] + astray.drift
    BY <1>5, <1>7, <1>8, <2>3
  <2> QED BY <1>2, <2>1, <2>4, <2>5
<1>9. HttpReadsInOrder'
  BY <1>3, <1>4, <1>8 DEF HttpReadsInOrder
<1>10. OffsetLags'
  <2>1. ring'.offset = ring.offset + ReadCount /\ puller'.at = "idle" /\ ReadCount \in Int
    BY <1>1, <1>3 DEF HttpInv, Types, Rings, Pullers
  <2>2. ring.offset + astray.lag = puller.position + astray.drift /\ astray.lag \in Int
    BY DEF HttpInv, Safe, Types, OffsetLags, Astrays
  <2>3. ring.offset \in Int /\ puller.position \in Int /\ astray.drift \in Int /\ astray' = astray
    BY <1>1, <1>3, <1>4
  <2>4. ring.offset + ReadCount + astray.lag = puller.position + ReadCount + astray.drift
    BY <2>1, <2>2, <2>3
  <2>5. ring'.offset + astray'.lag = puller'.position + astray'.drift
    BY <1>4, <2>1, <2>3, <2>4
  <2> QED BY <2>1, <2>5 DEF OffsetLags, Seeking, Emptied, Moving, Reading
<1> QED BY <1>2, <1>3, <1>4, <1>6, <1>9, <1>10 DEF RingIsTail

LEMMA GivesUpAlone ==
    ASSUME HttpInv, FetchGivesUp
    PROVE  SeekIsAlone' /\ OffsetLags'
<1>1. ring' = SetActive(ring, FALSE, TRUE) /\ ring \in Rings
  BY DEF HttpInv, Safe, Types, FetchGivesUp
<1>2. ring'.data = <<>> /\ ring'.offset = ring.offset /\ ~ring'.active
  BY <1>1, RingOperations, ZenonT(60)
<1> QED BY <1>2
       DEF HttpInv, Safe, FetchGivesUp, Types, AfterStop, WriterWoken, Requests, Pullers,
           PausedIsQuiet, SeekIsAlone, OffsetLags, Emptied, Moving, Ended, Reading,
           Seeking, RetryPlaces

LEMMA SizeKeepsRange ==
    ASSUME HttpInv, PullLearnsSize
    PROVE  HttpReadsInOrder'
<1>1. puller'.got = puller.got /\ puller'.wants[1] = puller.wants[1] /\ astray' = astray
  BY DEF HttpInv, Safe, PullLearnsSize, Types, Pullers
<1> QED BY <1>1 DEF HttpInv, Safe, HttpReadsInOrder

LEMMA ResumesInOrder ==
    ASSUME HttpInv, SeekResumes
    PROVE  RingIsTail' /\ HeadIsNext' /\ OffsetLags' /\ HttpReadsInOrder'
<1> DEFINE off == IF puller.wants[1] < FileSize THEN 0 ELSE request.start - puller.wants[1]
<1>1. /\ puller.at = "seekResume" /\ puller.wants[1] \in Int /\ request.start \in Int
      /\ off \in Int
  BY Numbers DEF HttpInv, Types, SeekResumes, Pullers, Requests
<1>2. /\ ring'.data = ring.data /\ ring'.offset = puller.wants[1] /\ request'.start = request.start
      /\ puller'.position = puller.wants[1] /\ puller'.at = "seekStart"
      /\ puller'.wants = puller.wants /\ puller'.got = puller.got
      /\ astray'.lag = off /\ astray'.drift = off /\ astray'.crossed = astray.crossed
  BY DEF HttpInv, Types, SeekResumes, Pullers, Rings, Requests, Astrays
<1>3. puller.got = <<>>
  BY <1>1 DEF HttpInv, Safe, OffsetLags, Seeking, Moving
<1>4. ~astray.crossed => ring.data = <<>> /\ request.start = puller.wants[1] + off
  BY <1>1, Numbers DEF HttpInv, Safe, SeekIsAlone, Moving
<1> HIDE DEF off
<1>5. OffsetLags'
  BY <1>1, <1>2, <1>3 DEF OffsetLags, Reading
<1>6. HttpReadsInOrder'
  BY <1>2, <1>3, EmptySeq DEF HttpReadsInOrder
<1>7. RingIsTail'
  BY <1>2, <1>4, NoTail DEF RingIsTail
<1>8. HeadIsNext'
  <2>1. Len(<<>>) = 0
    BY EmptySeq
  <2> QED BY <1>1, <1>2, <1>4, <2>1 DEF HeadIsNext
<1> QED BY <1>5, <1>6, <1>7, <1>8

LEMMA PopsInOrder ==
    ASSUME HttpInv, FetchPops
    PROVE  RingIsTail' /\ HeadIsNext'
<1>1. CASE request.queueActive /\ request.queued
  <2>1. /\ ring' = ring /\ puller' = puller /\ astray' = astray /\ request'.start = 0
        /\ ring.data = <<>> /\ puller.position = 0 /\ astray.drift = 0
    BY <1>1 DEF HttpInv, Safe, Types, FetchPops, Requests, QueuedIsNew
  <2>2. Len(ring'.data) = 0 /\ puller'.position = 0 /\ astray'.drift = 0 /\ request'.start = 0
    BY <2>1, EmptySeq
  <2>3. request'.start - Len(ring'.data) = puller'.position + astray'.drift
    BY <2>2
  <2>4. RingIsTail'
    BY <2>1, NoTail DEF RingIsTail
  <2> QED BY <2>3, <2>4 DEF HeadIsNext
<1>2. CASE ~(request.queueActive /\ request.queued)
  BY <1>2 DEF HttpInv, Safe, FetchPops, RingIsTail, HeadIsNext
<1> QED BY <1>1, <1>2

LEMMA FetchSafe ==
    ASSUME HttpInv, FetchStep \/ NetworkFails
    PROVE  Safe'
<1> USE DEF HttpInv, Types, Safe, Emptied, Moving, Ended, Reading, Seeking, RetryPlaces
<1>1. CASE FetchTakesUp
  BY <1>1 DEF FetchTakesUp, Fetches, RingIsTail, HeadIsNext, PausedIsQuiet, QueuedIsNew,
     SeekIsAlone, OffsetLags, HttpReadsInOrder
<1>2. CASE FetchPops
  <2>1. RingIsTail' /\ HeadIsNext'
    BY <1>2, PopsInOrder
  <2>2. PausedIsQuiet' /\ QueuedIsNew' /\ HttpReadsInOrder'
    BY <1>2, ZenonT(60) DEF FetchPops, Fetches, Requests, PausedIsQuiet, QueuedIsNew,
                HttpReadsInOrder
  <2>3. SeekIsAlone' /\ OffsetLags'
    BY <1>2 DEF FetchPops, Requests, QueuedIsNew, SeekIsAlone, OffsetLags
  <2> QED BY <2>1, <2>2, <2>3
<1>3. CASE FetchRequests
  BY <1>3 DEF FetchRequests, Lesser, Fetches, Requests, RingIsTail, HeadIsNext, PausedIsQuiet,
     QueuedIsNew, SeekIsAlone, OffsetLags, HttpReadsInOrder
<1>4. CASE FetchReceives
  <2>1. RingIsTail' /\ HeadIsNext' /\ SeekIsAlone' /\ OffsetLags'
    BY <1>4, ReceivesInOrder, ReceivesAlone
  <2>2. PausedIsQuiet' /\ QueuedIsNew' /\ HttpReadsInOrder'
    BY <1>4, ZenonT(60) DEF FetchReceives, WriterWoken, Fetches, Requests, Rings, Pullers, PausedIsQuiet,
       QueuedIsNew, HttpReadsInOrder, OffsetLags
  <2> QED BY <2>1, <2>2
<1>5. CASE FetchCompletes
  BY <1>5 DEF FetchCompletes, Fetches, RingIsTail, HeadIsNext, PausedIsQuiet, QueuedIsNew,
     SeekIsAlone, OffsetLags, HttpReadsInOrder
<1>6. CASE FetchSettles
  BY <1>6 DEF FetchSettles, Lesser, Fetches, Requests, RingIsTail, HeadIsNext, PausedIsQuiet,
     QueuedIsNew, SeekIsAlone, OffsetLags, HttpReadsInOrder
<1>7. CASE FetchIsRefused
  BY <1>7 DEF FetchIsRefused, Fetches, RingIsTail, HeadIsNext, PausedIsQuiet, QueuedIsNew,
     SeekIsAlone, OffsetLags, HttpReadsInOrder
<1>8. CASE FetchAsksForRetry
  BY <1>8 DEF FetchAsksForRetry, Fetches, Watchers, RingIsTail, HeadIsNext, PausedIsQuiet,
     QueuedIsNew, SeekIsAlone, OffsetLags, HttpReadsInOrder
<1>9. CASE FetchGivesUp
  <2>1. SeekIsAlone' /\ OffsetLags'
    BY <1>9, GivesUpAlone
  <2>2. /\ RingIsTail' /\ HeadIsNext' /\ PausedIsQuiet'
        /\ QueuedIsNew' /\ HttpReadsInOrder'
    BY <1>9 DEF FetchGivesUp, AfterStop, SetActive, WriterWoken, Fetches, Watchers, Rings,
       Requests, Pullers, IsTail, RingIsTail, HeadIsNext, PausedIsQuiet, QueuedIsNew, HttpReadsInOrder, OffsetLags, SeekIsAlone
  <2> QED BY <2>1, <2>2
<1>10. CASE FetchRests
  BY <1>10 DEF FetchRests, Fetches, RingIsTail, HeadIsNext, PausedIsQuiet, QueuedIsNew,
     SeekIsAlone, OffsetLags, HttpReadsInOrder
<1>11. CASE NetworkFails
  BY <1>11 DEF NetworkFails, Fetches, RingIsTail, HeadIsNext, PausedIsQuiet, QueuedIsNew,
     SeekIsAlone, OffsetLags, HttpReadsInOrder
<1> QED BY <1>1, <1>2, <1>3, <1>4, <1>5, <1>6, <1>7, <1>8, <1>9, <1>10, <1>11 DEF FetchStep

LEMMA SeekSafe ==
    ASSUME HttpInv, SeekStep
    PROVE  Safe'
<1> USE DEF HttpInv, Types, Safe, Emptied, Moving, Ended, Reading, Seeking, RetryPlaces
<1>0. CASE SeekIsRefused
  BY <1>0 DEF SeekIsRefused, Pulling, Pullers, RingIsTail, HeadIsNext, PausedIsQuiet,
     QueuedIsNew, SeekIsAlone, OffsetLags, HttpReadsInOrder
<1>1. CASE SeekBegins
  <2>1. RingIsTail' /\ HeadIsNext' /\ SeekIsAlone' /\ OffsetLags'
    BY <1>1, SeekKeepsOrder
  <2>2. PausedIsQuiet' /\ QueuedIsNew'
    BY <1>1, ZenonT(60) DEF SeekBegins, PausedIsQuiet, QueuedIsNew
  <2>3. puller'.got = puller.got /\ puller.got = <<>>
    BY <1>1 DEF SeekBegins, Pullers, OffsetLags
  <2>4. HttpReadsInOrder'
    BY <2>3, EmptySeq DEF HttpReadsInOrder
  <2> QED BY <2>1, <2>2, <2>4
<1>2. CASE SeekClears
  BY <1>2 DEF SeekClears, Pulling, SetActive, Pullers, Rings, IsTail, RingIsTail, HeadIsNext,
     PausedIsQuiet, QueuedIsNew, SeekIsAlone, OffsetLags, HttpReadsInOrder
<1>3. CASE SeekPauses
  BY <1>3 DEF SeekPauses, Pulling, Pullers, Requests, RingIsTail, HeadIsNext, PausedIsQuiet,
     QueuedIsNew, SeekIsAlone, OffsetLags, HttpReadsInOrder
<1>4. CASE SeekPausesTask
  BY <1>4 DEF SeekPausesTask, PauseAwaits, AfterPause, Pullers, RingIsTail, HeadIsNext,
     PausedIsQuiet, QueuedIsNew, SeekIsAlone, OffsetLags, HttpReadsInOrder
<1>5. CASE SeekIsPaused
  BY <1>5 DEF SeekIsPaused, SetActive, Pullers, Rings, IsTail, RingIsTail, HeadIsNext,
     PausedIsQuiet, QueuedIsNew, SeekIsAlone, OffsetLags, HttpReadsInOrder
<1>6. CASE SeekMoves
  BY <1>6, NoTail DEF SeekMoves, Pulling, Lesser, Pullers, Requests, RingIsTail, HeadIsNext,
     PausedIsQuiet, QueuedIsNew, SeekIsAlone, OffsetLags, HttpReadsInOrder
<1>7. CASE SeekResumes
  <2>1. RingIsTail' /\ HeadIsNext' /\ OffsetLags' /\ HttpReadsInOrder'
    BY <1>7, ResumesInOrder
  <2>2. PausedIsQuiet' /\ QueuedIsNew' /\ SeekIsAlone'
    BY <1>7 DEF SeekResumes, Pullers, Rings, Requests, Astrays, PausedIsQuiet, QueuedIsNew,
       SeekIsAlone
  <2> QED BY <2>1, <2>2
<1>8. CASE SeekStarts
  BY <1>8 DEF SeekStarts, Pulling, Pullers, RingIsTail, HeadIsNext, PausedIsQuiet, QueuedIsNew,
     SeekIsAlone, OffsetLags, HttpReadsInOrder
<1> QED BY <1>0, <1>1, <1>2, <1>3, <1>4, <1>5, <1>6, <1>7, <1>8 DEF SeekStep

LEMMA PullSafe ==
    ASSUME HttpInv, PullStep, ~SeekStep
    PROVE  Safe'
<1> USE DEF HttpInv, Types, Safe, Emptied, Moving, Ended, Reading, Seeking, RetryPlaces
<1>1. CASE PullLearnsSize
  <2>1. HttpReadsInOrder'
    BY <1>1, SizeKeepsRange
  <2>2. /\ RingIsTail' /\ HeadIsNext' /\ PausedIsQuiet'
        /\ QueuedIsNew' /\ SeekIsAlone' /\ OffsetLags'
    BY <1>1 DEF PullLearnsSize, Lesser, Pullers, RingIsTail, HeadIsNext, PausedIsQuiet,
       QueuedIsNew, SeekIsAlone, OffsetLags
  <2> QED BY <2>1, <2>2
<1>2. CASE ReadBegins
  BY <1>2 DEF ReadBegins, SetActive, Pullers, Rings, IsTail, RingIsTail, HeadIsNext,
     PausedIsQuiet, QueuedIsNew, SeekIsAlone, OffsetLags, HttpReadsInOrder
<1>3. CASE ReadResumes
  BY <1>3 DEF ReadResumes, Pulling, Pullers, Requests, RingIsTail, HeadIsNext, PausedIsQuiet,
     QueuedIsNew, SeekIsAlone, OffsetLags, HttpReadsInOrder
<1>4. CASE ReadRestarts
  BY <1>4 DEF ReadRestarts, Pulling, Pullers, Watchers, RingIsTail, HeadIsNext, PausedIsQuiet,
     QueuedIsNew, SeekIsAlone, OffsetLags, HttpReadsInOrder
<1>5. CASE ReadEnds
  BY <1>5 DEF ReadEnds, Pullers, Watchers, RingIsTail, HeadIsNext, PausedIsQuiet, QueuedIsNew,
     SeekIsAlone, OffsetLags, HttpReadsInOrder
<1>6. CASE ReadFindsData
  BY <1>6 DEF ReadFindsData, Pullers, RingIsTail, HeadIsNext, PausedIsQuiet, QueuedIsNew,
     SeekIsAlone, OffsetLags, HttpReadsInOrder
<1>7. CASE ReadTests
  BY <1>7 DEF ReadTests, Pullers, RingIsTail, HeadIsNext, PausedIsQuiet, QueuedIsNew,
     SeekIsAlone, OffsetLags, HttpReadsInOrder
<1>8. CASE ReadSleeps
  BY <1>8 DEF ReadSleeps, Pulling, Pullers, RingIsTail, HeadIsNext, PausedIsQuiet, QueuedIsNew,
     SeekIsAlone, OffsetLags, HttpReadsInOrder
<1>9. CASE ReadTakes
  <2>1. RingIsTail' /\ HeadIsNext' /\ OffsetLags' /\ HttpReadsInOrder'
    BY <1>9, TakesInOrder
  <2>2. PausedIsQuiet' /\ QueuedIsNew' /\ SeekIsAlone'
    BY <1>9 DEF ReadTakes, Lesser, ReadBuffer, Pullers, Rings, Watchers, PausedIsQuiet,
       QueuedIsNew, SeekIsAlone
  <2> QED BY <2>1, <2>2
<1> QED BY <1>1, <1>2, <1>3, <1>4, <1>5, <1>6, <1>7, <1>8, <1>9 DEF PullStep

LEMMA CloseSafe ==
    ASSUME HttpInv, CloseBegins \/ CloseStep
    PROVE  Safe'
<1> USE DEF HttpInv, Types, Safe, Emptied, Moving, Ended, Reading, Seeking, RetryPlaces
<1>1. CASE CloseBegins
  BY <1>1 DEF CloseBegins, Pulling, Pullers, Watchers, RingIsTail, HeadIsNext, PausedIsQuiet,
     QueuedIsNew, SeekIsAlone, OffsetLags, HttpReadsInOrder
<1>2. CASE CloseStopsAll
  BY <1>2, SMTT(60) DEF CloseStopsAll, Pulling, SetActive, Pullers, Rings, Requests, IsTail, RingIsTail,
     HeadIsNext, PausedIsQuiet, QueuedIsNew, SeekIsAlone, OffsetLags,
     HttpReadsInOrder
<1>3. CASE CloseStopsTask
  BY <1>3 DEF CloseStopsTask, Pulling, AfterStop, Pullers, Requests, RingIsTail, HeadIsNext,
     PausedIsQuiet, QueuedIsNew, SeekIsAlone, OffsetLags, HttpReadsInOrder
<1>4. CASE CloseReturns
  BY <1>4 DEF CloseReturns, Pulling, Pullers, RingIsTail, HeadIsNext, PausedIsQuiet, QueuedIsNew,
     SeekIsAlone, OffsetLags, HttpReadsInOrder
<1> QED BY <1>1, <1>2, <1>3, <1>4 DEF CloseStep

LEMMA WatchSafe ==
    ASSUME HttpInv, WatchPauses \/ WatchStep
    PROVE  Safe'
<1> USE DEF HttpInv, Types, Safe, Emptied, Moving, Ended, Reading, Seeking, RetryPlaces
<1>1. CASE WatchPauses
  BY <1>1 DEF WatchPauses, Watching, SetActive, Watchers, Rings, IsTail, RingIsTail, HeadIsNext,
     PausedIsQuiet, QueuedIsNew, SeekIsAlone, OffsetLags, HttpReadsInOrder
<1>2. CASE WatchPausesQueue
  BY <1>2 DEF WatchPausesQueue, Watching, Watchers, Requests, RingIsTail, HeadIsNext,
     PausedIsQuiet, QueuedIsNew, SeekIsAlone, OffsetLags, HttpReadsInOrder
<1>3. CASE WatchPausesTask
  BY <1>3 DEF WatchPausesTask, PauseAwaits, AfterPause, Watchers, RingIsTail, HeadIsNext,
     PausedIsQuiet, QueuedIsNew, SeekIsAlone, OffsetLags, HttpReadsInOrder
<1>4. CASE WatchHasPaused
  BY <1>4 DEF WatchHasPaused, WriterWoken, Watchers, Pullers, RingIsTail, HeadIsNext,
     PausedIsQuiet, QueuedIsNew, SeekIsAlone, OffsetLags, HttpReadsInOrder
<1>5. CASE WatchRetries
  BY <1>5 DEF WatchRetries, Watchers, RingIsTail, HeadIsNext, PausedIsQuiet, QueuedIsNew,
     SeekIsAlone, OffsetLags, HttpReadsInOrder
<1>6. CASE RetryBegins
  BY <1>6 DEF RetryBegins, Watching, Watchers, Requests, RingIsTail, HeadIsNext, PausedIsQuiet,
     QueuedIsNew, SeekIsAlone, OffsetLags, HttpReadsInOrder
<1>7. CASE RetryIsPaused
  BY <1>7 DEF RetryIsPaused, Watchers, RingIsTail, HeadIsNext, PausedIsQuiet, QueuedIsNew,
     SeekIsAlone, OffsetLags, HttpReadsInOrder
<1>8. CASE RetryReopens
  BY <1>8 DEF RetryReopens, Watching, Watchers, Requests, RingIsTail, HeadIsNext, PausedIsQuiet,
     QueuedIsNew, SeekIsAlone, OffsetLags, HttpReadsInOrder
<1>9. CASE RetryStarts
  BY <1>9 DEF RetryStarts, Watching, Watchers, Astrays, RingIsTail, HeadIsNext, PausedIsQuiet,
     QueuedIsNew, SeekIsAlone, OffsetLags, HttpReadsInOrder
<1>10. CASE WatchStops
  BY <1>10 DEF WatchStops, Watching, Watchers, RingIsTail, HeadIsNext, PausedIsQuiet,
     QueuedIsNew, SeekIsAlone, OffsetLags, HttpReadsInOrder
<1> QED BY <1>1, <1>2, <1>3, <1>4, <1>5, <1>6, <1>7, <1>8, <1>9, <1>10 DEF WatchStep

LEMMA BeginSafe ==
    ASSUME HttpInv, NEW offset \in 0 .. FileSize, NEW n \in PullSizes, PullBegins(offset, n)
    PROVE  HttpInv'
<1> USE DEF HttpInv, Types, Safe
<1>1. puller' \in Pullers
  <2> DEFINE w == <<offset, n>>  none == <<>>
  <2>1. w \in Int \X Nat /\ none \in Seq(Int) /\ puller.pulls + 1 \in Int /\ "size" \in PullPlaces
    BY Numbers, EmptySeq, Places DEF Pullers
  <2>2. puller' = [puller EXCEPT !.at = "size", !.wants = w, !.got = none, !.pulls = @ + 1]
    BY DEF PullBegins
  <2> HIDE DEF w, none
  <2> QED BY <2>1, <2>2 DEF Pullers
<1>2. /\ puller.at = "idle" /\ puller'.at = "size" /\ puller'.wants[1] = offset /\ puller'.got = <<>>
      /\ puller'.position = puller.position
      /\ UNCHANGED <<ring, request, fetch, fetchTask, watcher, failures, astray>>
  BY DEF PullBegins, Pullers
<1> QED BY <1>1, <1>2
        DEF RingIsTail, HeadIsNext, PausedIsQuiet, QueuedIsNew, SeekIsAlone, OffsetLags, HttpReadsInOrder, Emptied, Moving, Ended, Reading, Seeking

\* The bytes that a pull gets are those of the range it asked for, but for the drift of the
\* last seek within the ring and until a retry has crossed a seek out of it: for every
\* length of the file, the ring, the requests and the pulls, every number of failures, and
\* whatever was sought, paused, retried or given up, in any order.
THEOREM PullsReadInOrder == HttpSpec => []HttpReadsInOrder
<1>1. HttpInit => HttpInv
  <2> SUFFICES ASSUME HttpInit PROVE HttpInv
    OBVIOUS
  <2>1. Types
    <3>1. <<>> \in Seq(Int) /\ <<0, 1>> \in Int \X Nat
      BY EmptySeq
    <3>2. puller \in Pullers
      <4> DEFINE w == <<0, 1>>  none == <<>>
      <4>1. puller = [at |-> "idle", wants |-> w, position |-> 0, got |-> none, pulls |-> 0,
                      awaits |-> {}]
        BY DEF HttpInit
      <4>2. w \in Int \X Nat /\ none \in Seq(Int)
        BY <3>1
      <4> HIDE DEF w, none
      <4> QED BY <4>1, <4>2, Places DEF Pullers
    <3>3. ring \in Rings
      <4> DEFINE none == <<>>
      <4>1. ring = [data |-> none, active |-> TRUE, offset |-> 0] /\ none \in Seq(Int)
        BY <3>1 DEF HttpInit
      <4> HIDE DEF none
      <4> QED BY <4>1 DEF Rings
    <3>4. request \in Requests
      BY DEF HttpInit, Requests
    <3>5. fetch \in Fetches /\ fetchTask \in TaskStates /\ watcher \in Watchers
      BY Places DEF HttpInit, Fetches, TaskStates, Watchers
    <3>6. failures \in Int /\ astray \in Astrays
      BY DEF HttpInit, Astrays
    <3> QED BY <3>2, <3>3, <3>4, <3>5, <3>6 DEF Types
  <2>2. Safe
    BY NoTail DEF HttpInit, Safe, RingIsTail, HeadIsNext, PausedIsQuiet, QueuedIsNew, SeekIsAlone,
                  OffsetLags, HttpReadsInOrder, Emptied, Moving, Ended, Reading,
                  Seeking, RetryPlaces
  <2> QED BY <2>1, <2>2 DEF HttpInv
<1>2. HttpInv /\ [HttpNext]_httpVars => HttpInv'
  <2> SUFFICES ASSUME HttpInv, [HttpNext]_httpVars PROVE HttpInv'
    OBVIOUS
  <2>1. CASE SeekStep
    BY <2>1, SeekTypes, SeekSafe DEF HttpInv
  <2>2. CASE PullStep /\ ~SeekStep
    BY <2>2, PullTypes, PullSafe DEF HttpInv
  <2>3. CASE CloseBegins \/ CloseStep
    BY <2>3, CloseTypes, CloseSafe DEF HttpInv
  <2>4. CASE FetchStep \/ NetworkFails
    BY <2>4, FetchTypes, FetchSafe DEF HttpInv
  <2>5. CASE WatchPauses \/ WatchStep
    BY <2>5, WatchTypes, WatchSafe DEF HttpInv
  <2>6. CASE UNCHANGED httpVars
    BY <2>6
         DEF httpVars, HttpInv, Types, Safe, RingIsTail, HeadIsNext, PausedIsQuiet, QueuedIsNew,
                SeekIsAlone, OffsetLags, HttpReadsInOrder
  <2> QED BY <2>1, <2>2, <2>3, <2>4, <2>5, <2>6, BeginSafe, Zenon DEF HttpNext
<1>3. HttpInv => HttpReadsInOrder
  BY DEF HttpInv, Safe
<1> QED BY <1>1, <1>2, <1>3, PTL DEF HttpSpec

-----------------------------------------------------------------------------
(* HlsSource: the inductive invariant.                                     *)

Listings == [at : {"idle", "text", "notify"}, total : Int, upto : Nat, text : Seq(Int),
             headed : BOOLEAN, files : Seq(Int), pushed : Nat, master : BOOLEAN,
             isLive : BOOLEAN]
PlayLists == [que : Seq(Int), active : BOOLEAN]
Loops == [at : {"loop", "download", "push", "start"}, fragment : Int, seen : SUBSET Int]
Loads == [at : {"rest", "loop", "body"}, fragment : Int, saved : 0 .. FragmentSize,
          next : BOOLEAN]
HlsRings == [data : Seq(Int), active : BOOLEAN]
Pausing == {"none", "update", "list", "loop", "load", "paused"}

HlsTypes ==
    /\ live \in BOOLEAN /\ published \in Int
    /\ listing \in Listings /\ playList \in PlayLists /\ looping \in Loops
    /\ requests \in Seq(Int) /\ loading \in Loads
    /\ hlsRing \in HlsRings /\ played \in Seq(Int)
    /\ pauseAt \in Pausing /\ pauses \in Nat /\ brokenOff \in BOOLEAN

\* The last fragment that the loop has seen, that was pushed into requestQue_, and
\* that the media downloader has taken up.
LastSeen == IF looping.seen = {} THEN 0 ELSE looping.fragment
LastPushed == IF looping.at \in {"download", "push"} THEN LastSeen - 1 ELSE LastSeen
NoneTaken == loading.next /\ loading.saved = 0
LastTaken == IF NoneTaken THEN 0 ELSE loading.fragment

\* The bytes before fragment f, the last byte that was saved, and all that were.
BytesBefore(f) == (f - 1) * FragmentSize
LastSaved == IF NoneTaken THEN 0 ELSE BytesBefore(loading.fragment) + loading.saved
Saved == played \o hlsRing.data

\* While a pause is under way playList_ and the ring are not active, and when it is
\* complete neither downloader is at work.
PauseHoldsLine ==
    /\ playList.active <=> pauseAt = "none"
    /\ hlsRing.active <=> pauseAt = "none"
    /\ pauseAt \in {"list", "loop", "load", "paused"} => "list" \in halted
    /\ pauseAt \in {"loop", "load", "paused"} => listing.at = "idle"
    /\ pauseAt \in {"load", "paused"} => "load" \in halted
    /\ pauseAt = "paused" => loading.at # "body"
    /\ pauses = 0 => pauseAt = "none" /\ ~brokenOff

\* A list, or several in a row, each from its first fragment on.
Listed(s) == \A i \in DOMAIN s : s[i] = 1 \/ \E j \in 1 .. i - 1 : s[j] = s[i] - 1
EndsWith(s, n) == n = 0 \/ \E j \in DOMAIN s : s[j] = n

\* What was parsed last, and the text that will be parsed with the next piece.
TextFollows ==
    /\ Listed(listing.files)
    /\ listing.headed => Listed(listing.text) /\ EndsWith(listing.text, listing.upto)

\* Fragment f is in the list q, or was seen.
Handed(f, q, seen) == f \in seen \/ \E j \in DOMAIN q : q[j] = f

\* The fragment before f was seen, or comes before place i of the list q.
Preceded(f, i, q, seen) == f = 1 \/ f - 1 \in seen \/ \E j \in 1 .. i - 1 : q[j] = f - 1

FragmentsFollow ==
    /\ looping.seen = 1 .. LastSeen
    /\ looping.fragment >= 1
    /\ looping.at # "loop" => looping.seen # {}
    /\ \A i \in DOMAIN playList.que : Preceded(playList.que[i], i, playList.que, looping.seen)
    /\ listing.at = "notify" /\ playList.active =>
           /\ listing.pushed <= Len(listing.files)
           /\ \A j \in 1 .. listing.pushed :
                  Handed(listing.files[j], playList.que, looping.seen)

\* The requests are the fragments between those taken up and those pushed.
RequestsFollow ==
    /\ LastPushed - Len(requests) = LastTaken
    /\ \A i \in DOMAIN requests : requests[i] = LastTaken + i

\* A transfer that was left unfinished had not begun, unless it was broken off.
LoadsWhole ==
    /\ loading.next => NoneTaken \/ loading.saved = FragmentSize
    /\ loading.at = "body" => ~loading.next
    /\ ~brokenOff /\ ~loading.next /\ loading.at # "body" => loading.saved = 0

\* What was saved rises to the last byte saved, and leaves none out without a pause.
SavedRises ==
    /\ ~brokenOff => \A i \in DOMAIN Saved :
                         /\ Saved[i] <= LastSaved
                         /\ i < Len(Saved) => Saved[i] < Saved[i + 1]
    /\ pauses = 0 => \A i \in DOMAIN Saved : Saved[i] = LastSaved - Len(Saved) + i

HlsInv ==
    /\ HlsTypes
    /\ PauseHoldsLine /\ TextFollows /\ FragmentsFollow /\ RequestsFollow /\ LoadsWhole
    /\ SavedRises

-----------------------------------------------------------------------------
(* HlsSource: the types.                                                   *)

LEMMA HlsNumbers == FragmentSize \in Nat \ {0} /\ Fragments \in Nat \ {0}
  BY HlsAssumption

\* The first element of a sequence, and those after it.
LEMMA HeadAndTail ==
    ASSUME NEW s \in Seq(Int), s # <<>>
    PROVE  /\ Head(s) \in Int /\ Head(s) = s[1] /\ Tail(s) \in Seq(Int)
           /\ Len(s) \in Nat /\ Len(s) >= 1 /\ Len(Tail(s)) = Len(s) - 1
           /\ \A i \in 1 .. Len(s) - 1 : Tail(s)[i] = s[i + 1]
  BY HeadTailProperties

\* One element put behind a sequence.
LEMMA OneMore ==
    ASSUME NEW s \in Seq(Int), NEW e \in Int
    PROVE  /\ Append(s, e) \in Seq(Int) /\ Len(Append(s, e)) = Len(s) + 1 /\ Len(s) \in Nat
           /\ Append(s, e)[Len(s) + 1] = e
           /\ \A i \in 1 .. Len(s) : Append(s, e)[i] = s[i]
  BY AppendProperties

LEMMA ByteIs ==
    ASSUME NEW f \in Int, NEW n \in 0 .. FragmentSize - 1
    PROVE  /\ Fragment(f)[n + 1] = BytesBefore(f) + n + 1 /\ Fragment(f)[n + 1] \in Int
           /\ BytesBefore(f) \in Int
           /\ BytesBefore(f + 1) = BytesBefore(f) + FragmentSize
  BY HlsNumbers DEF Fragment, BytesBefore

\* What playList_ and the ring become, field by field.
LEMMA HlsFields ==
    ASSUME NEW d \in Seq(Int), NEW a \in BOOLEAN, NEW x \in PlayLists, NEW y \in HlsRings
    PROVE  /\ [que |-> d, active |-> a] \in PlayLists /\ [data |-> d, active |-> a] \in HlsRings
           /\ [x EXCEPT !.que = d] \in PlayLists /\ [y EXCEPT !.data = d] \in HlsRings
           /\ [x EXCEPT !.que = d].que = d /\ [x EXCEPT !.que = d].active = x.active
           /\ [y EXCEPT !.data = d].data = d /\ [y EXCEPT !.data = d].active = y.active
           /\ [x EXCEPT !.active = a] \in PlayLists /\ [y EXCEPT !.active = a] \in HlsRings
           /\ [x EXCEPT !.active = a].que = x.que /\ [x EXCEPT !.active = a].active = a
           /\ [y EXCEPT !.active = a].data = y.data /\ [y EXCEPT !.active = a].active = a
  BY DEF PlayLists, HlsRings

\* The list that arrives, and the text that is cleared.
LEMMA ArrivedList ==
    ASSUME NEW l \in Listings, NEW n \in Int
    PROVE  LET m == [l EXCEPT !.at = "text", !.total = n, !.upto = 0]
           IN  /\ m \in Listings /\ m.at = "text" /\ m.upto = 0
               /\ m.text = l.text /\ m.headed = l.headed /\ m.files = l.files
<1> DEFINE p == "text"  k == 0
<1>1. p \in {"text"} /\ k \in Nat
  OBVIOUS
<1> HIDE DEF p, k
<1> DEFINE m == [l EXCEPT !.at = p, !.total = n, !.upto = k]
<1>2. /\ m \in Listings /\ m.at = p /\ m.upto = k
      /\ m.text = l.text /\ m.headed = l.headed /\ m.files = l.files
  BY <1>1, ZenonT(60) DEF Listings
<1> QED BY <1>2 DEF p, k

LEMMA ListArrived ==
    ASSUME HlsTypes, ListArrives
    PROVE  /\ listing' \in Listings /\ listing'.at = "text" /\ listing'.upto = 0
           /\ listing'.text = listing.text /\ listing'.headed = listing.headed
           /\ listing'.files = listing.files
<1>1. listing \in Listings /\ published \in Int
  BY DEF HlsTypes
<1>2. listing' = [listing EXCEPT !.at = "text", !.total = published, !.upto = 0]
  BY DEF ListArrives
<1> QED BY <1>1, <1>2, ArrivedList, Zenon

LEMMA ClearedList ==
    ASSUME NEW l \in Listings, NEW s \in Seq(Int), NEW b \in BOOLEAN
    PROVE  LET m == [l EXCEPT !.text = s, !.headed = b]
           IN  /\ m \in Listings /\ m.at = l.at /\ m.pushed = l.pushed /\ m.files = l.files
               /\ m.headed = b
  BY DEF Listings

\* A piece of a list: the fragments from u + 1 to k.
Piece(u, k) == [i \in 1 .. k - u |-> u + i]

LEMMA PieceIs ==
    ASSUME NEW u \in Nat, NEW k \in Nat, u < k
    PROVE  /\ Piece(u, k) \in Seq(Int) /\ Len(Piece(u, k)) = k - u
           /\ \A i \in 1 .. k - u : Piece(u, k)[i] = u + i
  BY DEF Piece

\* The text with a piece behind it.
LEMMA Longer ==
    ASSUME NEW s \in Seq(Int), NEW u \in Nat, NEW k \in Nat, u < k
    PROVE  /\ s \o Piece(u, k) \in Seq(Int) /\ Len(s) \in Nat
           /\ Len(s \o Piece(u, k)) = Len(s) + (k - u)
           /\ \A i \in 1 .. Len(s) : (s \o Piece(u, k))[i] = s[i]
           /\ \A i \in 1 .. k - u : (s \o Piece(u, k))[Len(s) + i] = u + i
<1>1. /\ Piece(u, k) \in Seq(Int) /\ Len(Piece(u, k)) = k - u
      /\ \A i \in 1 .. k - u : Piece(u, k)[i] = u + i
  BY PieceIs
<1> DEFINE p == Piece(u, k)
<1> HIDE DEF p
<1>2. p \in Seq(Int) /\ Len(p) = k - u /\ \A i \in 1 .. k - u : p[i] = u + i
  BY <1>1 DEF p
<1>3. /\ s \o p \in Seq(Int) /\ Len(s) \in Nat /\ Len(s \o p) = Len(s) + Len(p)
      /\ \A i \in 1 .. Len(s) + Len(p) :
             (s \o p)[i] = IF i <= Len(s) THEN s[i] ELSE p[i - Len(s)]
  <2>1. p \in Seq(Int) /\ Len(s) \in Nat
    BY <1>2
  <2> QED BY ONLY s \in Seq(Int), <2>1, ConcatProperties, Zenon
<1>4. Len(s \o p) = Len(s) + (k - u)
  BY <1>2, <1>3
<1>5. ASSUME NEW i \in 1 .. Len(s) PROVE (s \o p)[i] = s[i]
  BY <1>2, <1>3
<1>6. ASSUME NEW i \in 1 .. k - u PROVE (s \o p)[Len(s) + i] = u + i
  <2>1. Len(s) + i \in 1 .. Len(s) + Len(p) /\ ~(Len(s) + i <= Len(s)) /\ (Len(s) + i) - Len(s) = i
    BY <1>2, <1>3
  <2>2. (s \o p)[Len(s) + i] = p[i]
    BY <1>3, <2>1, Zenon
  <2> QED BY <1>2, <2>2
<1>7. /\ s \o p \in Seq(Int) /\ Len(s) \in Nat /\ Len(s \o p) = Len(s) + (k - u)
      /\ \A i \in 1 .. Len(s) : (s \o p)[i] = s[i]
      /\ \A i \in 1 .. k - u : (s \o p)[Len(s) + i] = u + i
  BY <1>3, <1>4, <1>5, <1>6, Zenon
<1> QED BY <1>7 DEF p

\* A piece goes on with a text that ends where it begins.
LEMMA PieceGoesOn ==
    ASSUME NEW s \in Seq(Int), NEW u \in Nat, NEW k \in Nat, u < k, Listed(s), EndsWith(s, u)
    PROVE  Listed(s \o Piece(u, k)) /\ EndsWith(s \o Piece(u, k), k)
<1> DEFINE t == s \o Piece(u, k)
<1>1. /\ t \in Seq(Int) /\ Len(s) \in Nat /\ Len(t) = Len(s) + (k - u)
      /\ \A i \in 1 .. Len(s) : t[i] = s[i]
      /\ \A i \in 1 .. k - u : t[Len(s) + i] = u + i
  BY Longer
<1> HIDE DEF t
<1>2. DOMAIN t = 1 .. Len(s) + (k - u) /\ DOMAIN s = 1 .. Len(s)
  BY <1>1
<1>3. ASSUME NEW i \in 1 .. Len(s)
      PROVE  t[i] = 1 \/ \E j \in 1 .. i - 1 : t[j] = t[i] - 1
  <2>1. t[i] = s[i] /\ (s[i] = 1 \/ \E j \in 1 .. i - 1 : s[j] = s[i] - 1)
    BY <1>1, <1>2 DEF Listed
  <2>2. \A j \in 1 .. i - 1 : t[j] = s[j]
    BY <1>1
  <2> QED BY <2>1, <2>2
<1>4. ASSUME NEW m \in 1 .. k - u
      PROVE  LET i == Len(s) + m IN t[i] = 1 \/ \E j \in 1 .. i - 1 : t[j] = t[i] - 1
  <2> DEFINE i == Len(s) + m
  <2>1. t[i] = u + m
    BY <1>1
  <2>2. CASE m # 1
    <3>1. m - 1 \in 1 .. k - u /\ Len(s) + (m - 1) \in 1 .. i - 1
      BY <1>1, <2>2
    <3>2. t[Len(s) + (m - 1)] = u + (m - 1)
      BY <1>1, <3>1
    <3>3. u + (m - 1) = (u + m) - 1
      OBVIOUS
    <3> QED BY <2>1, <3>1, <3>2, <3>3
  <2>3. CASE m = 1 /\ u = 0
    BY <2>1, <2>3
  <2>4. CASE m = 1 /\ u # 0
    <3>1. PICK j \in 1 .. Len(s) : s[j] = u
      BY <1>2, <2>4 DEF EndsWith
    <3>2. t[j] = u /\ j \in 1 .. i - 1 /\ t[i] - 1 = u
      BY <1>1, <2>1, <2>4, <3>1
    <3> QED BY <3>2
  <2> QED BY <2>2, <2>3, <2>4
<1>5. Listed(t)
  <2> SUFFICES ASSUME NEW i \in 1 .. Len(s) + (k - u)
               PROVE  t[i] = 1 \/ \E j \in 1 .. i - 1 : t[j] = t[i] - 1
    BY <1>2 DEF Listed
  <2>1. CASE i <= Len(s)
    BY <1>1, <1>3, <2>1
  <2>2. CASE i > Len(s)
    <3> DEFINE m == i - Len(s)
    <3>1. m \in 1 .. k - u /\ i = Len(s) + m
      BY <1>1, <2>2
    <3> HIDE DEF m
    <3> QED BY <1>4, <3>1
  <2> QED BY <1>1, <2>1, <2>2
<1>6. EndsWith(t, k)
  <2>1. k - u \in 1 .. k - u /\ Len(s) + (k - u) \in DOMAIN t /\ u + (k - u) = k
    BY <1>1, <1>2
  <2>2. t[Len(s) + (k - u)] = k
    BY <1>1, <2>1
  <2> QED BY <2>1, <2>2 DEF EndsWith
<1> QED BY <1>5, <1>6 DEF t

LEMMA ParseTypes ==
    ASSUME HlsTypes, NEW k \in 1 .. Fragments, ListIsParsed(k)
    PROVE  LET t == listing.text \o Piece(listing.upto, k) IN
           /\ listing' \in Listings /\ listing'.pushed = 0 /\ listing.at = "text"
           /\ listing.upto < k /\ k \in Nat /\ listing'.upto = k /\ listing'.text = t
           /\ listing'.headed = HasHeader
           /\ listing'.files = IF HasHeader THEN t ELSE listing.files
<1> DEFINE t == listing.text \o Piece(listing.upto, k)
           h == HasHeader
           p == IF HasHeader THEN "notify" ELSE listing.at
           n == IF HasHeader THEN t ELSE listing.files
           b == IF listing.master THEN listing.isLive ELSE ParsesAsLive(k)
           c == TRUE
           z == 0
<1>1. /\ listing.at = "text" /\ k \in Nat /\ listing \in Listings /\ live \in BOOLEAN
      /\ listing.upto < k
  BY HlsNumbers DEF ListIsParsed, HlsTypes
<1>2. /\ listing.text \in Seq(Int) /\ listing.upto \in Nat /\ listing.headed \in BOOLEAN
      /\ listing.files \in Seq(Int) /\ listing.isLive \in BOOLEAN
  BY <1>1 DEF Listings
<1>3. b \in BOOLEAN /\ h \in BOOLEAN
  <2>1. ParsesAsLive(k) \in BOOLEAN
    BY <1>1, Zenon DEF ParsesAsLive
  <2>2. HasHeader \in BOOLEAN
    BY <1>2, Zenon DEF HasHeader
  <2> QED BY <1>2, <2>1, <2>2
<1>4. t \in Seq(Int)
  BY <1>1, <1>2, Longer
<1>5. p \in {"text", "notify"} /\ n \in Seq(Int)
  BY <1>1, <1>2, <1>4
<1>6. listing' = [listing EXCEPT !.upto = k, !.pushed = z, !.text = t, !.headed = h, !.at = p,
                                 !.files = n, !.isLive = b, !.master = c]
  BY Zenon DEF ListIsParsed, Piece
<1>7. z \in Nat /\ c \in BOOLEAN /\ z = 0
  OBVIOUS
<1>8. n = IF h THEN t ELSE listing.files
  OBVIOUS
<1> HIDE DEF t, h, p, n, b, c, z
<1>9. /\ listing' \in Listings /\ listing'.pushed = z /\ listing'.upto = k
      /\ listing'.text = t /\ listing'.headed = h /\ listing'.files = n
  BY <1>1, <1>3, <1>4, <1>5, <1>6, <1>7, ZenonT(60) DEF Listings
<1>10. listing'.files = IF h THEN t ELSE listing.files
  BY <1>8, <1>9
<1> QED BY <1>1, <1>7, <1>9, <1>10 DEF t, h

LEMMA HlsTypesKept ==
    ASSUME HlsTypes, HlsNext
    PROVE  HlsTypes'
<1> USE HlsNumbers DEF HlsTypes
<1>1. CASE Publishes
  BY <1>1 DEF Publishes
<1>2. CASE AsksForList
  <2>1. FALSE \in BOOLEAN /\ <<>> \in Seq(Int)
    BY EmptySeq
  <2>2. listing' \in Listings
    BY <1>2, <2>1, ClearedList, Zenon DEF AsksForList
  <2> QED BY <1>2, <2>2 DEF AsksForList
<1>20. CASE SendsForList
  BY <1>20 DEF SendsForList
<1>3. CASE ListArrives
  BY <1>3, ListArrived DEF ListArrives
<1>4. CASE PushesFragment
  <2>1. listing' \in Listings
    <3> DEFINE n == listing.pushed + 1
    <3>1. n \in Nat
      BY DEF Listings
    <3>2. listing' = [listing EXCEPT !.pushed = n]
      BY <1>4 DEF PushesFragment
    <3> HIDE DEF n
    <3> QED BY <3>1, <3>2, ZenonT(60) DEF Listings
  <2>2. playList' \in PlayLists
    <3> DEFINE g == listing.files[listing.pushed + 1]
               d == Append(playList.que, g)
    <3>1. g \in Int
      <4> DEFINE n == listing.pushed + 1
      <4>1. n \in 1 .. Len(listing.files) /\ listing.files \in Seq(Int)
        <5>1. listing.files \in Seq(Int) /\ listing.pushed \in Nat
          BY DEF Listings
        <5>2. listing.pushed < Len(listing.files)
          BY <1>4 DEF PushesFragment
        <5>3. Len(listing.files) \in Nat
          BY <5>1, LenProperties
        <5> QED BY <5>1, <5>2, <5>3
      <4> HIDE DEF n
      <4>2. listing.files[n] \in Int
        BY <4>1, ElementOfSeq, Zenon
      <4> QED BY <4>2 DEF n
    <3>2. hlsRing \in HlsRings /\ playList \in PlayLists /\ TRUE \in BOOLEAN
      OBVIOUS
    <3>3. playList' = playList \/ playList' = [playList EXCEPT !.que = d]
      BY <1>4 DEF PushesFragment
    <3> HIDE DEF g
    <3>4. d \in Seq(Int)
      BY <3>1, OneMore DEF PlayLists
    <3> HIDE DEF d
    <3>5. CASE playList' = [playList EXCEPT !.que = d]
      BY <3>2, <3>4, <3>5, HlsFields
    <3> QED BY <3>2, <3>3, <3>5
  <2> QED BY <1>4, <2>1, <2>2 DEF PushesFragment
<1>5. CASE HasPushed
  BY <1>5 DEF HasPushed, Listings
<1>6. CASE ListEnds
  BY <1>6 DEF ListEnds, Listings
<1>7. CASE \E k \in 1 .. Fragments : ListIsParsed(k)
  BY <1>7, ParseTypes, ZenonT(60) DEF ListIsParsed
<1>8. CASE TakesFragment
  <2>1. Head(playList.que) \in Int /\ Tail(playList.que) \in Seq(Int)
    BY <1>8, HeadAndTail DEF TakesFragment, PlayLists
  <2>2. playList' \in PlayLists
    BY <1>8, <2>1 DEF TakesFragment, PlayLists
  <2>3. looping' \in Loops
    <3> DEFINE f == Head(playList.que)
    <3>1. f \in Int
      BY <2>1
    <3>2. \/ looping' = looping
          \/ looping' = [at |-> "download", fragment |-> f, seen |-> looping.seen \cup {f}]
      BY <1>8 DEF TakesFragment
    <3> HIDE DEF f
    <3> QED BY <3>1, <3>2 DEF Loops
  <2> QED BY <1>8, <2>1, <2>2, <2>3 DEF TakesFragment
<1>9. CASE LocksDownload
  <2>1. looping' \in Loops
    BY <1>9 DEF LocksDownload, Loops
  <2> QED BY <1>9, <2>1 DEF LocksDownload
<1>10. CASE PushesRequest
  <2>1. looping' \in Loops
    BY <1>10 DEF PushesRequest, Loops
  <2>2. requests' \in Seq(Int)
    BY <1>10, OneMore DEF PushesRequest, Loops
  <2> QED BY <1>10, <2>1, <2>2 DEF PushesRequest
<1>11. CASE StartsDownload
  <2>1. looping' \in Loops
    BY <1>11 DEF StartsDownload, Loops
  <2>2. loading' \in Loads
    BY <1>11 DEF StartsDownload, Loads
  <2> QED BY <1>11, <2>1, <2>2 DEF StartsDownload
<1>12. CASE LoadsNext
  <2>1. requests' \in Seq(Int)
    BY <1>12, HeadAndTail DEF LoadsNext, Loads
  <2>2. loading' \in Loads
    <3>1. loading.next => Head(requests) \in Int
      BY <1>12, HeadAndTail DEF LoadsNext, Loads
    <3> DEFINE g == IF loading.next THEN Head(requests) ELSE loading.fragment
    <3>2. g \in Int /\ 0 \in 0 .. FragmentSize
      BY <3>1 DEF Loads
    <3>3. loading' = [at |-> "body", saved |-> 0, next |-> FALSE, fragment |-> g]
      BY <1>12 DEF LoadsNext
    <3> HIDE DEF g
    <3> QED BY <3>2, <3>3 DEF Loads
  <2> QED BY <1>12, <2>1, <2>2 DEF LoadsNext
<1>13. CASE LoadsByte
  <2>1. loading' \in Loads
    <3>1. loading.saved \in Int /\ loading.saved + 1 \in 0 .. FragmentSize
      BY <1>13 DEF LoadsByte, Loads
    <3>2. loading' = [loading EXCEPT !.saved = loading.saved + 1]
      BY <1>13 DEF LoadsByte
    <3> QED BY <3>1, <3>2 DEF Loads
  <2>2. hlsRing' \in HlsRings
    <3> DEFINE e == Fragment(loading.fragment)[loading.saved + 1]
    <3>1. e \in Int
      <4>1. loading.fragment \in Int /\ loading.saved \in 0 .. FragmentSize - 1
        BY <1>13 DEF LoadsByte, Loads
      <4> QED BY <4>1, ByteIs
    <3>2. hlsRing' = [hlsRing EXCEPT !.data = Append(hlsRing.data, e)]
      BY <1>13 DEF LoadsByte
    <3> HIDE DEF e
    <3> QED BY <3>1, <3>2, OneMore DEF HlsRings
  <2> QED BY <1>13, <2>1, <2>2 DEF LoadsByte
<1>14. CASE LoadIsRefused
  <2>1. loading' \in Loads
    BY <1>14 DEF LoadIsRefused, Loads
  <2>2. brokenOff' \in BOOLEAN
    BY <1>14, Zenon DEF LoadIsRefused
  <2> QED BY <1>14, <2>1, <2>2 DEF LoadIsRefused
<1>15. CASE LoadEnds
  BY <1>15 DEF LoadEnds, Loads
<1>16. CASE TaskIsPaused
  BY <1>16 DEF TaskIsPaused, AfterTask, Pausing
<1>17. CASE HlsReads
  <2>1. PICK n \in 1 .. Len(hlsRing.data) :
           /\ played' = played \o SubSeq(hlsRing.data, 1, n)
           /\ hlsRing' = [hlsRing EXCEPT !.data = SubSeq(@, n + 1, Len(@))]
    BY <1>17 DEF HlsReads
  <2>2. hlsRing.data \in Seq(Int) /\ n \in 0 .. Len(hlsRing.data)
    BY DEF HlsRings
  <2>3. /\ SubSeq(hlsRing.data, 1, n) \in Seq(Int)
        /\ SubSeq(hlsRing.data, n + 1, Len(hlsRing.data)) \in Seq(Int)
    BY <2>2, Rests
  <2>4. played' \in Seq(Int)
    BY <2>1, <2>3, ConcatProperties
  <2> QED BY <1>17, <2>1, <2>3, <2>4 DEF HlsReads, HlsRings
<1>18. CASE HlsPauses
  <2>1. <<>> \in Seq(Int)
    BY EmptySeq
  <2> DEFINE d == IF listing.isLive THEN <<>> ELSE hlsRing.data
             q == IF listing.isLive THEN <<>> ELSE playList.que
  <2>2. d \in Seq(Int) /\ q \in Seq(Int) /\ FALSE \in BOOLEAN
    BY <2>1 DEF HlsRings, PlayLists
  <2>3. hlsRing' = [data |-> d, active |-> FALSE] /\ playList' = [que |-> q, active |-> FALSE]
    BY <1>18 DEF HlsPauses
  <2> HIDE DEF d, q
  <2>4. hlsRing' \in HlsRings /\ playList' \in PlayLists
    BY <2>2, <2>3 DEF HlsRings, PlayLists
  <2> QED BY <1>18, <2>4 DEF HlsPauses, Pausing
<1>19. CASE HlsResumes
  BY <1>19 DEF HlsResumes, HlsRings, PlayLists, Loads, Pausing
<1> QED BY <1>1, <1>2, <1>3, <1>4, <1>5, <1>6, <1>7, <1>8, <1>9, <1>10, <1>11, <1>12, <1>13,
           <1>14, <1>15, <1>16, <1>17, <1>18, <1>19, <1>20 DEF HlsNext, LineStep

-----------------------------------------------------------------------------
(* HlsSource: every step keeps the invariant.                              *)

LEMMA LineKept ==
    ASSUME HlsInv, HlsNext
    PROVE  PauseHoldsLine'
<1> USE DEF HlsInv, PauseHoldsLine
<1>1. CASE Publishes
  BY <1>1 DEF Publishes
<1>2. CASE AsksForList
  <2>1. listing'.at = listing.at
    BY <1>2 DEF AsksForList, HlsTypes, Listings
  <2> QED BY <1>2, <2>1 DEF AsksForList
<1>19. CASE SendsForList
  BY <1>19 DEF SendsForList
<1>3. CASE ListArrives
  BY <1>3 DEF ListArrives
<1>4. CASE PushesFragment
  <2>1. playList'.active = playList.active
    BY <1>4 DEF PushesFragment, HlsTypes, PlayLists
  <2> QED BY <1>4, <2>1 DEF PushesFragment
<1>5. CASE HasPushed
  BY <1>5 DEF HasPushed
<1>6. CASE ListEnds
  BY <1>6 DEF ListEnds, HlsTypes, Listings
<1>7. CASE \E k \in 1 .. Fragments : ListIsParsed(k)
  <2>1. PICK k \in 1 .. Fragments : ListIsParsed(k)
    BY <1>7
  <2> QED BY <2>1 DEF ListIsParsed
<1>8. CASE TakesFragment
  <2>1. playList'.active = playList.active
    BY <1>8 DEF TakesFragment, HlsTypes, PlayLists
  <2> QED BY <1>8, <2>1 DEF TakesFragment
<1>9. CASE LocksDownload \/ PushesRequest
  BY <1>9 DEF LocksDownload, PushesRequest
<1>10. CASE StartsDownload
  BY <1>10 DEF StartsDownload, HlsTypes, Loads
<1>11. CASE LoadsNext
  BY <1>11 DEF LoadsNext
<1>12. CASE LoadsByte
  <2>1. hlsRing'.active = hlsRing.active
    BY <1>12 DEF LoadsByte, HlsTypes, HlsRings
  <2> QED BY <1>12, <2>1 DEF LoadsByte
<1>13. CASE LoadIsRefused
  BY <1>13 DEF LoadIsRefused, HlsTypes, Loads
<1>14. CASE LoadEnds
  BY <1>14 DEF LoadEnds, HlsTypes, Loads
<1>15. CASE TaskIsPaused
  BY <1>15 DEF TaskIsPaused, AfterTask, AtRest
<1>16. CASE HlsReads
  <2>1. hlsRing'.active = hlsRing.active
    BY <1>16 DEF HlsReads, HlsTypes, HlsRings
  <2> QED BY <1>16, <2>1 DEF HlsReads
<1>17. CASE HlsPauses
  BY <1>17 DEF HlsPauses, HlsTypes
<1>18. CASE HlsResumes
  <2>1. playList'.active /\ hlsRing'.active
    BY <1>18 DEF HlsResumes, HlsTypes, HlsRings, PlayLists
  <2> QED BY <1>18, <2>1 DEF HlsResumes, HlsTypes
<1> QED BY <1>1, <1>2, <1>3, <1>4, <1>5, <1>6, <1>7, <1>8, <1>9, <1>10, <1>11, <1>12, <1>13,
           <1>14, <1>15, <1>16, <1>17, <1>18, <1>19 DEF HlsNext, LineStep

\* Whatever is parsed and kept of the text is one list, or several, from their first
\* fragment on.
LEMMA TextKept ==
    ASSUME HlsInv, HlsNext
    PROVE  TextFollows'
<1> USE DEF HlsInv, TextFollows
<1>1. CASE listing' = listing
  BY <1>1
<1>2. CASE AsksForList
  <2>1. FALSE \in BOOLEAN /\ <<>> \in Seq(Int) /\ listing \in Listings
    BY EmptySeq DEF HlsTypes
  <2>2. ~listing'.headed /\ listing'.files = listing.files
    BY <1>2, <2>1, ClearedList, Zenon DEF AsksForList
  <2> QED BY <2>2
<1>3. CASE ListArrives
  BY <1>3, ListArrived DEF EndsWith
<1>4. CASE PushesFragment \/ HasPushed \/ ListEnds
  <2>1. /\ listing'.upto = listing.upto /\ listing'.text = listing.text
        /\ listing'.headed = listing.headed /\ listing'.files = listing.files
    BY <1>4 DEF PushesFragment, HasPushed, ListEnds, HlsTypes, Listings
  <2> QED BY <2>1
<1>5. CASE \E k \in 1 .. Fragments : ListIsParsed(k)
  <2>1. PICK k \in 1 .. Fragments : ListIsParsed(k)
    BY <1>5
  <2> DEFINE t == listing.text \o Piece(listing.upto, k)
  <2>2. /\ listing.upto < k /\ k \in Nat /\ listing'.upto = k /\ listing'.text = t
        /\ listing'.headed = HasHeader
        /\ listing'.files = IF HasHeader THEN t ELSE listing.files
    BY <2>1, ParseTypes
  <2>3. listing.text \in Seq(Int) /\ listing.upto \in Nat
    BY DEF HlsTypes, Listings
  <2>4. ASSUME HasHeader PROVE Listed(t) /\ EndsWith(t, k)
    <3>1. Listed(listing.text) /\ EndsWith(listing.text, listing.upto)
      <4>1. CASE listing.text = <<>>
        BY <2>4, <4>1 DEF HasHeader, Listed, EndsWith
      <4>2. CASE listing.text # <<>>
        BY <2>4, <4>2 DEF HasHeader
      <4> QED BY <4>1, <4>2
    <3> QED BY <2>2, <2>3, <3>1, PieceGoesOn
  <2> HIDE DEF t
  <2> QED BY <2>2, <2>4
<1>6. CASE Publishes \/ SendsForList \/ TakesFragment \/ LocksDownload \/ PushesRequest
           \/ StartsDownload \/ LoadsNext \/ LoadsByte \/ LoadIsRefused \/ LoadEnds
           \/ TaskIsPaused \/ HlsReads \/ HlsPauses \/ HlsResumes
  BY <1>1, <1>6
     DEF Publishes, SendsForList, TakesFragment, LocksDownload, PushesRequest, StartsDownload,
         LoadsNext, LoadsByte, LoadIsRefused, LoadEnds, TaskIsPaused, HlsReads, HlsPauses,
         HlsResumes
<1> QED BY <1>2, <1>3, <1>4, <1>5, <1>6 DEF HlsNext, LineStep

\* The loop takes the fragment after the last it has seen, or one that it drops.
LEMMA TakenIsNext ==
    ASSUME HlsInv, TakesFragment
    PROVE  LET f == Head(playList.que) IN
           /\ LastSeen \in Nat /\ looping.at = "loop" /\ looping.seen = 1 .. LastSeen
           /\ \/ f \in looping.seen /\ looping' = looping
              \/ /\ f = LastSeen + 1 /\ LastSeen' = f
                 /\ looping' = [at |-> "download", fragment |-> f, seen |-> 1 .. f]
<1> DEFINE q == playList.que  f == Head(q)
<1>1. f \in Int /\ f = q[1] /\ 1 \in DOMAIN q
  BY HeadAndTail DEF HlsInv, HlsTypes, PlayLists, TakesFragment
<1>2. looping.seen = 1 .. LastSeen /\ LastSeen \in Nat /\ looping.at = "loop"
  BY DEF HlsInv, HlsTypes, Loops, FragmentsFollow, LastSeen, TakesFragment
<1>3. f = 1 \/ f - 1 \in looping.seen
  BY <1>1 DEF HlsInv, FragmentsFollow, Preceded
<1>4. CASE f \in looping.seen
  BY <1>2, <1>4 DEF TakesFragment
<1>5. CASE f \notin looping.seen
  <2>1. looping' = [at |-> "download", fragment |-> f, seen |-> looping.seen \cup {f}]
    BY <1>5 DEF TakesFragment
  <2>2. f = LastSeen + 1
    BY <1>1, <1>2, <1>3, <1>5
  <2>3. looping.seen \cup {f} = 1 .. f
    BY <1>2, <2>2
  <2>4. LastSeen' = f
    BY <2>1 DEF LastSeen
  <2> QED BY <1>2, <2>1, <2>2, <2>3, <2>4
<1> QED BY <1>4, <1>5

\* What is behind the head of playList_ stays preceded when the head is seen.
LEMMA TakenInTurn ==
    ASSUME HlsInv, TakesFragment
    PROVE  FragmentsFollow'
<1> DEFINE q == playList.que  f == Head(q)  seen == looping.seen
<1>1. /\ f \in Int /\ f = q[1] /\ Tail(q) \in Seq(Int) /\ Len(q) \in Nat /\ Len(q) >= 1
      /\ Len(Tail(q)) = Len(q) - 1 /\ \A i \in 1 .. Len(q) - 1 : Tail(q)[i] = q[i + 1]
  BY HeadAndTail DEF HlsInv, HlsTypes, PlayLists, TakesFragment
<1>2. playList' = [playList EXCEPT !.que = Tail(q)] /\ looping.at = "loop" /\ listing' = listing
  BY DEF TakesFragment
<1>3. playList'.que = Tail(q) /\ playList'.active = playList.active
  BY <1>2 DEF HlsInv, HlsTypes, PlayLists
<1>4. \A i \in 1 .. Len(q) : Preceded(q[i], i, q, seen)
  <2>1. DOMAIN q = 1 .. Len(q)
    BY DEF HlsInv, HlsTypes, PlayLists
  <2> QED BY <2>1 DEF HlsInv, FragmentsFollow
<1>7. f \in looping'.seen /\ looping.seen \subseteq looping'.seen
  BY <1>1 DEF TakesFragment
<1>8. /\ looping'.seen = 1 .. LastSeen' /\ looping'.fragment >= 1
      /\ looping'.at # "loop" => looping'.seen # {}
  BY TakenIsNext DEF HlsInv, FragmentsFollow, LastSeen
<1> HIDE DEF f
<1>9. ASSUME NEW g \in Int, NEW i \in 2 .. Len(q) + 1, Preceded(g, i, q, seen)
      PROVE  Preceded(g, i - 1, Tail(q), looping'.seen)
  <2>1. CASE g = 1
    BY <2>1 DEF Preceded
  <2>2. CASE g - 1 \in looping.seen
    BY <1>7, <2>2 DEF Preceded
  <2>3. CASE \E j \in 1 .. i - 1 : q[j] = g - 1
    <3>1. PICK j \in 1 .. i - 1 : q[j] = g - 1
      BY <2>3
    <3>2. CASE j = 1
      BY <1>1, <1>7, <3>1, <3>2 DEF Preceded
    <3>3. CASE j # 1
      <4>1. j - 1 \in 1 .. Len(q) - 1 /\ j - 1 \in 1 .. (i - 1) - 1
        BY <1>1, <3>3
      <4>2. Tail(q)[j - 1] = g - 1
        BY <1>1, <3>1, <4>1
      <4> QED BY <1>3, <4>1, <4>2 DEF Preceded
    <3> QED BY <3>2, <3>3
  <2> QED BY <1>9, <2>1, <2>2, <2>3 DEF Preceded
<1>10. \A i \in DOMAIN playList'.que : Preceded(playList'.que[i], i, playList'.que, looping'.seen)
  <2> SUFFICES ASSUME NEW i \in 1 .. Len(q) - 1
               PROVE  Preceded(Tail(q)[i], i, Tail(q), looping'.seen)
    <3>1. DOMAIN Tail(q) = 1 .. Len(q) - 1
      BY <1>1
    <3> QED BY <1>3, <3>1
  <2>1. /\ i + 1 \in 1 .. Len(q) /\ i + 1 \in 2 .. Len(q) + 1 /\ (i + 1) - 1 = i
        /\ Tail(q)[i] = q[i + 1]
    BY <1>1
  <2>2. Preceded(q[i + 1], i + 1, q, seen) /\ q[i + 1] \in Int
    BY <1>4, <2>1, ElementOfSeq DEF HlsInv, HlsTypes, PlayLists
  <2> QED BY <1>9, <2>1, <2>2
<1>11. ASSUME NEW g, Handed(g, q, seen) PROVE Handed(g, Tail(q), looping'.seen)
  <2>1. CASE g \in seen
    BY <1>7, <2>1 DEF Handed
  <2>2. CASE \E j \in DOMAIN q : q[j] = g
    <3>1. PICK j \in 1 .. Len(q) : q[j] = g
      BY <1>1, <2>2 DEF HlsInv, HlsTypes, PlayLists
    <3>2. CASE j = 1
      BY <1>1, <1>7, <3>1, <3>2 DEF Handed
    <3>3. CASE j # 1
      <4>1. j - 1 \in 1 .. Len(q) - 1 /\ j - 1 \in DOMAIN Tail(q)
        BY <1>1, <3>3
      <4>2. Tail(q)[j - 1] = g
        BY <1>1, <3>1, <4>1
      <4> QED BY <4>1, <4>2 DEF Handed
    <3> QED BY <3>2, <3>3
  <2> QED BY <1>11, <2>1, <2>2 DEF Handed
<1>12. ASSUME listing'.at = "notify", playList'.active
       PROVE  /\ listing'.pushed <= Len(listing'.files)
              /\ \A j \in 1 .. listing'.pushed :
                     Handed(listing'.files[j], playList'.que, looping'.seen)
  <2>1. /\ listing.pushed <= Len(listing.files)
        /\ \A j \in 1 .. listing.pushed : Handed(listing.files[j], q, seen)
    BY <1>2, <1>3, <1>12 DEF HlsInv, FragmentsFollow
  <2> QED BY <1>2, <1>3, <1>11, <2>1
<1> QED BY <1>8, <1>10, <1>12 DEF FragmentsFollow

\* A fragment that is pushed is preceded, and precedes the next.
LEMMA PushedInTurn ==
    ASSUME HlsInv, PushesFragment
    PROVE  FragmentsFollow'
<1> DEFINE q == playList.que  files == listing.files  n == listing.pushed + 1  g == files[n]
           seen == looping.seen
<1>1. /\ looping' = looping /\ listing'.at = "notify" /\ listing'.pushed = n
      /\ listing.at = "notify" /\ listing'.files = files
  BY DEF PushesFragment, HlsInv, HlsTypes, Listings
<1>2. /\ q \in Seq(Int) /\ Len(q) \in Nat /\ DOMAIN q = 1 .. Len(q)
      /\ files \in Seq(Int) /\ n \in 1 .. Len(files) /\ Len(files) \in Nat
      /\ DOMAIN files = 1 .. Len(files)
  BY DEF HlsInv, HlsTypes, PlayLists, Listings, PushesFragment
<1>3. /\ looping'.seen = 1 .. LastSeen' /\ looping'.fragment >= 1
      /\ looping'.at # "loop" => looping'.seen # {}
  BY <1>1 DEF HlsInv, FragmentsFollow, LastSeen
<1>4. CASE ~playList.active
  <2>1. playList' = playList
    BY <1>4 DEF PushesFragment
  <2> QED BY <1>1, <1>3, <1>4, <2>1 DEF HlsInv, FragmentsFollow, Preceded
<1>5. CASE playList.active
  <2>1. playList' = [playList EXCEPT !.que = Append(q, g)] /\ g \in Int
    BY <1>2, <1>5, ElementOfSeq DEF PushesFragment
  <2>2. playList'.que = Append(q, g)
    BY <2>1 DEF HlsInv, HlsTypes, PlayLists
  <2>3. /\ Append(q, g) \in Seq(Int) /\ Len(Append(q, g)) = Len(q) + 1
        /\ Append(q, g)[Len(q) + 1] = g /\ \A i \in 1 .. Len(q) : Append(q, g)[i] = q[i]
    BY <1>2, <2>1, OneMore
  <2>4. \A j \in 1 .. n - 1 : Handed(files[j], q, seen)
    <3>1. n - 1 = listing.pushed
      BY DEF HlsInv, HlsTypes, Listings
    <3> QED BY <1>1, <1>5, <3>1 DEF HlsInv, FragmentsFollow
  <2>5. g = 1 \/ \E j \in 1 .. n - 1 : files[j] = g - 1
    BY <1>2 DEF HlsInv, TextFollows, Listed
  <2> HIDE DEF g, n
  <2>6. Preceded(g, Len(q) + 1, q, seen)
    <3>1. CASE g = 1
      BY <3>1 DEF Preceded
    <3>2. CASE \E j \in 1 .. n - 1 : files[j] = g - 1
      <4>1. Handed(g - 1, q, seen)
        BY <2>4, <3>2
      <4> QED BY <1>2, <4>1 DEF Handed, Preceded
    <3> QED BY <2>5, <3>1, <3>2
  <2>7. ASSUME NEW f \in Int, NEW i \in 1 .. Len(q) + 1, Preceded(f, i, q, seen)
        PROVE  Preceded(f, i, Append(q, g), seen)
    BY <1>2, <2>3, <2>7 DEF Preceded
  <2>8. \A i \in DOMAIN playList'.que : Preceded(playList'.que[i], i, playList'.que, looping'.seen)
    <3> SUFFICES ASSUME NEW i \in 1 .. Len(q) + 1
                 PROVE  Preceded(Append(q, g)[i], i, Append(q, g), seen)
      BY <1>1, <2>2, <2>3
    <3>1. CASE i = Len(q) + 1
      BY <2>1, <2>3, <2>6, <2>7, <3>1
    <3>2. CASE i # Len(q) + 1
      <4>1. i \in 1 .. Len(q) /\ Append(q, g)[i] = q[i] /\ q[i] \in Int
        BY <1>2, <2>3, <3>2, ElementOfSeq
      <4>2. Preceded(q[i], i, q, seen)
        BY <1>2, <4>1 DEF HlsInv, FragmentsFollow
      <4> QED BY <2>7, <4>1, <4>2
    <3> QED BY <3>1, <3>2
  <2>9. \A j \in 1 .. n : Handed(files[j], Append(q, g), seen)
    <3> SUFFICES ASSUME NEW j \in 1 .. n PROVE Handed(files[j], Append(q, g), seen)
      OBVIOUS
    <3>1. CASE j = n
      <4>1. Len(q) + 1 \in DOMAIN Append(q, g) /\ Append(q, g)[Len(q) + 1] = files[j]
        BY <1>2, <2>3, <3>1 DEF g
      <4> QED BY <4>1 DEF Handed
    <3>2. CASE j # n
      <4>1. j \in 1 .. n - 1
        BY <1>2, <3>2
      <4>2. Handed(files[j], q, seen)
        BY <2>4, <4>1
      <4>3. DOMAIN q \subseteq DOMAIN Append(q, g)
        BY <1>2, <2>3
      <4> QED BY <1>2, <2>3, <4>2, <4>3 DEF Handed
    <3> QED BY <3>1, <3>2
  <2> QED BY <1>1, <1>2, <1>3, <2>2, <2>8, <2>9 DEF FragmentsFollow
<1> QED BY <1>4, <1>5

LEMMA FragmentsKept ==
    ASSUME HlsInv, HlsNext
    PROVE  FragmentsFollow'
<1> USE DEF HlsInv, FragmentsFollow, Preceded, Handed, LastSeen
<1>1. CASE UNCHANGED <<listing, playList, looping>>
  BY <1>1
<1>2. CASE AsksForList
  <2>1. FALSE \in BOOLEAN /\ <<>> \in Seq(Int) /\ listing \in Listings
    BY EmptySeq DEF HlsTypes
  <2>2. /\ listing'.at = listing.at /\ listing'.pushed = listing.pushed
        /\ listing'.files = listing.files
    BY <1>2, <2>1, ClearedList, Zenon DEF AsksForList
  <2> QED BY <1>2, <2>2 DEF AsksForList
<1>3. CASE ListArrives
  <2>1. listing'.at = "text"
    BY <1>3 DEF ListArrives, HlsTypes, Listings
  <2> QED BY <1>3, <2>1 DEF ListArrives
<1>4. CASE PushesFragment
  BY <1>4, PushedInTurn
<1>5. CASE HasPushed
  <2>1. listing'.at = "text"
    BY <1>5 DEF HasPushed, HlsTypes, Listings
  <2> QED BY <1>5, <2>1 DEF HasPushed
<1>6. CASE ListEnds
  <2>1. listing'.at = "idle"
    BY <1>6 DEF ListEnds, HlsTypes, Listings
  <2> QED BY <1>6, <2>1 DEF ListEnds
<1>7. CASE \E k \in 1 .. Fragments : ListIsParsed(k)
  <2>1. PICK k \in 1 .. Fragments : ListIsParsed(k)
    BY <1>7
  <2>2. listing'.pushed = 0 /\ listing' \in Listings
    BY <2>1, ParseTypes
  <2>3. 0 <= Len(listing'.files)
    BY <2>2 DEF Listings
  <2>4. UNCHANGED <<playList, looping>>
    BY <2>1 DEF ListIsParsed
  <2> QED BY <2>2, <2>3, <2>4
<1>8. CASE TakesFragment
  BY <1>8, TakenInTurn
<1>9. CASE LocksDownload \/ PushesRequest \/ StartsDownload
  <2>1. /\ looping'.seen = looping.seen /\ looping'.fragment = looping.fragment
        /\ looping.at # "loop"
    BY <1>9 DEF LocksDownload, PushesRequest, StartsDownload, HlsTypes, Loops
  <2> QED BY <1>9, <2>1 DEF LocksDownload, PushesRequest, StartsDownload
<1>10. CASE HlsPauses
  <2>1. ~playList'.active /\ playList'.que \in {<<>>, playList.que}
    BY <1>10 DEF HlsPauses
  <2>2. UNCHANGED <<listing, looping>>
    BY <1>10 DEF HlsPauses
  <2>3. CASE playList'.que = <<>>
    BY <2>1, <2>2, <2>3
  <2>4. CASE playList'.que = playList.que
    BY <2>1, <2>2, <2>4
  <2> QED BY <2>1, <2>3, <2>4
<1>11. CASE HlsResumes
  <2>1. playList'.que = playList.que /\ listing.at = "idle"
    BY <1>11 DEF HlsResumes, HlsTypes, PlayLists, PauseHoldsLine
  <2> QED BY <1>11, <2>1 DEF HlsResumes
<1>12. CASE Publishes \/ SendsForList \/ LoadsNext \/ LoadsByte \/ LoadIsRefused \/ LoadEnds \/ TaskIsPaused
            \/ HlsReads
  BY <1>1, <1>12 DEF Publishes, SendsForList, LoadsNext, LoadsByte, LoadIsRefused, LoadEnds, TaskIsPaused,
                     HlsReads
<1> QED BY <1>2, <1>3, <1>4, <1>5, <1>6, <1>7, <1>8, <1>9, <1>10, <1>11, <1>12
           DEF HlsNext, LineStep

LEMMA RequestsKept ==
    ASSUME HlsInv, HlsNext
    PROVE  RequestsFollow' /\ LoadsWhole'
<1> USE HlsNumbers DEF HlsInv, RequestsFollow, LoadsWhole, LastPushed, LastTaken, NoneTaken
<1>1. CASE UNCHANGED <<looping, requests, loading, brokenOff>>
  BY <1>1 DEF LastSeen
<1>2. CASE TakesFragment
  <2>1. UNCHANGED <<requests, loading, brokenOff>> /\ looping.at = "loop"
    BY <1>2 DEF TakesFragment
  <2>2. CASE looping' = looping
    BY <1>1, <2>1, <2>2
  <2>3. CASE looping'.at = "download" /\ LastSeen' = LastSeen + 1
    <3>1. LastPushed' = LastPushed
      BY <1>2, <2>1, <2>3, TakenIsNext
    <3> QED BY <2>1, <3>1
  <2> QED BY <1>2, <2>2, <2>3, TakenIsNext
<1>3. CASE LocksDownload \/ StartsDownload
  <2>1. LastPushed' = LastPushed
    BY <1>3, ZenonT(60) DEF LocksDownload, StartsDownload, HlsTypes, Loops, LastSeen
  <2>2. /\ UNCHANGED <<requests, brokenOff>>
        /\ loading'.next = loading.next /\ loading'.saved = loading.saved
        /\ loading'.fragment = loading.fragment
        /\ loading'.at = "body" <=> loading.at = "body"
    BY <1>3 DEF LocksDownload, StartsDownload, HlsTypes, Loads
  <2> QED BY <2>1, <2>2
<1>4. CASE PushesRequest
  <2>1. LastPushed' = LastPushed + 1 /\ looping.fragment = LastTaken + Len(requests) + 1
    <3>1. looping.seen # {} /\ looping.fragment \in Int
      BY <1>4 DEF PushesRequest, HlsTypes, Loops, FragmentsFollow
    <3>2. looping' = [looping EXCEPT !.at = "start"] /\ looping.at = "push"
      BY <1>4 DEF PushesRequest
    <3>3. /\ looping'.at = "start" /\ looping'.seen = looping.seen
          /\ looping'.fragment = looping.fragment
      BY <3>2 DEF HlsTypes, Loops
    <3>4. LastSeen = looping.fragment /\ LastSeen' = looping.fragment
      BY <3>1, <3>3 DEF LastSeen
    <3>5. LastTaken \in Int /\ Len(requests) \in Nat
      BY DEF HlsTypes, Loads
    <3> QED BY <3>1, <3>2, <3>3, <3>4, <3>5
  <2>2. /\ looping.fragment \in Int /\ LastTaken \in Int
        /\ requests \in Seq(Int) /\ LastPushed \in Int
    BY DEF HlsTypes, Loops, Loads, LastSeen
  <2>3. requests' = Append(requests, looping.fragment) /\ UNCHANGED <<loading, brokenOff>>
    BY <1>4 DEF PushesRequest
  <2>4. RequestsFollow'
    <3>1. /\ Len(requests') = Len(requests) + 1 /\ Len(requests) \in Nat
          /\ DOMAIN requests' = 1 .. Len(requests) + 1
          /\ requests'[Len(requests) + 1] = looping.fragment
          /\ \A i \in 1 .. Len(requests) : requests'[i] = requests[i]
      BY <2>2, <2>3, OneMore
    <3>2. LastTaken' = LastTaken
      BY <2>3
    <3> HIDE DEF LastTaken, LastPushed
    <3> QED BY <2>1, <2>2, <3>1, <3>2, SMTT(60)
  <2> QED BY <2>3, <2>4
<1>5. CASE LoadsNext
  <2>1. UNCHANGED <<looping, brokenOff>> /\ LastPushed' = LastPushed /\ LastPushed \in Int
    BY <1>5 DEF LoadsNext, LastSeen, HlsTypes, Loops
  <2>2. CASE loading.next
    <3>1. /\ loading' = [at |-> "body", saved |-> 0, next |-> FALSE, fragment |-> Head(requests)]
          /\ requests' = Tail(requests) /\ requests # <<>> /\ requests \in Seq(Int)
      BY <1>5, <2>2 DEF LoadsNext, HlsTypes
    <3>2. LastTaken' = Head(requests) /\ Head(requests) = requests[1] /\ 1 \in DOMAIN requests
      BY <3>1, HeadAndTail
    <3>3. LastTaken' = LastTaken + 1 /\ LastTaken \in Int
      BY <3>2 DEF HlsTypes, Loads
    <3>4. LoadsWhole'
      BY <3>1
    <3>5. RequestsFollow'
      <4>1. /\ Len(requests) \in Nat /\ Len(Tail(requests)) = Len(requests) - 1
            /\ DOMAIN requests = 1 .. Len(requests)
            /\ DOMAIN Tail(requests) = 1 .. Len(requests) - 1
            /\ \A i \in 1 .. Len(requests) - 1 : Tail(requests)[i] = requests[i + 1]
        BY <3>1, HeadAndTail
      <4> HIDE DEF LastTaken, LastPushed
      <4> QED BY <2>1, <3>1, <3>3, <4>1, SMTT(60)
    <3> QED BY <3>4, <3>5
  <2>3. CASE ~loading.next
    <3>1. /\ loading' = [at |-> "body", saved |-> 0, next |-> FALSE, fragment |-> loading.fragment]
          /\ requests' = requests
      BY <1>5, <2>3 DEF LoadsNext
    <3> QED BY <2>1, <2>3, <3>1
  <2> QED BY <2>2, <2>3
<1>6. CASE LoadsByte \/ LoadIsRefused \/ LoadEnds
  <2>1. /\ loading.at = "body" /\ ~loading.next /\ loading'.fragment = loading.fragment
        /\ UNCHANGED <<looping, requests>>
    BY <1>6, ZenonT(60) DEF LoadsByte, LoadIsRefused, LoadEnds, HlsTypes, Loads
  <2>2. ~NoneTaken'
    BY <1>6, <2>1, ZenonT(60) DEF LoadsByte, LoadIsRefused, LoadEnds, HlsTypes, Loads
  <2>3. LastTaken' = LastTaken /\ LastPushed' = LastPushed
    BY <2>1, <2>2 DEF LastSeen
  <2>4. RequestsFollow'
    BY <2>1, <2>3
  <2>5. LoadsWhole'
    <3>1. CASE LoadsByte
      BY <2>1, <3>1 DEF LoadsByte, HlsTypes, Loads
    <3>2. CASE LoadIsRefused
      <4>1. /\ loading'.saved = loading.saved /\ ~loading'.next /\ loading'.at = "rest"
            /\ loading.saved \in Nat
        BY <2>1, <3>2 DEF LoadIsRefused, HlsTypes, Loads
      <4>2. brokenOff' \/ loading.saved = 0
        <5>1. loading.saved > 0 => brokenOff'
          BY <3>2, Zenon DEF LoadIsRefused
        <5> QED BY <4>1, <5>1
      <4> QED BY <4>1, <4>2
    <3>3. CASE LoadEnds
      BY <2>1, <3>3 DEF LoadEnds, HlsTypes, Loads
    <3> QED BY <1>6, <3>1, <3>2, <3>3
  <2> QED BY <2>4, <2>5
<1>7. CASE HlsResumes
  <2>1. /\ UNCHANGED <<looping, requests, brokenOff>> /\ loading'.at = "loop" /\ loading.at # "body"
        /\ loading'.next = loading.next /\ loading'.saved = loading.saved
        /\ loading'.fragment = loading.fragment
    BY <1>7, SMTT(60) DEF HlsResumes, HlsTypes, Loads, PauseHoldsLine
  <2> QED BY <2>1, SMTT(60) DEF LastSeen
<1>8. CASE Publishes \/ AsksForList \/ SendsForList \/ ListArrives \/ PushesFragment \/ HasPushed \/ ListEnds
           \/ (\E k \in 1 .. Fragments : ListIsParsed(k)) \/ TaskIsPaused \/ HlsReads \/ HlsPauses
  BY <1>1, <1>8 DEF Publishes, AsksForList, SendsForList, ListArrives, PushesFragment, HasPushed, ListEnds,
                    ListIsParsed, TaskIsPaused, HlsReads, HlsPauses
<1> QED BY <1>2, <1>3, <1>4, <1>5, <1>6, <1>7, <1>8 DEF HlsNext, LineStep

\* What was saved when one byte more is saved.
LEMMA SavesOne ==
    ASSUME NEW p \in Seq(Int), NEW d \in Seq(Int), NEW e \in Int
    PROVE  p \o d \in Seq(Int) /\ p \o Append(d, e) = Append(p \o d, e)
<1> DEFINE s == p \o d  t == p \o Append(d, e)
<1>1. Append(d, e) = d \o <<e>> /\ <<e>> \in Seq(Int)
  BY AppendIsConcat
<1>2. t = s \o <<e>> /\ s \in Seq(Int)
  BY <1>1, ConcatAssociative, ConcatProperties
<1>3. t = Append(s, e)
  BY <1>2, AppendIsConcat
<1> QED BY <1>2, <1>3

\* Three sequences in a row, whichever two are joined first.
LEMMA Regrouped ==
    ASSUME NEW p \in Seq(Int), NEW a \in Seq(Int), NEW b \in Seq(Int)
    PROVE  (p \o a) \o b = p \o (a \o b)
<1> DEFINE l == (p \o a) \o b  r == p \o (a \o b)
<1>1. /\ p \o a \in Seq(Int) /\ a \o b \in Seq(Int)
      /\ Len(p \o a) = Len(p) + Len(a) /\ Len(a \o b) = Len(a) + Len(b)
      /\ Len(p) \in Nat /\ Len(a) \in Nat /\ Len(b) \in Nat
  BY ConcatProperties
<1>2. /\ l \in Seq(Int) /\ r \in Seq(Int)
      /\ Len(l) = Len(p) + Len(a) + Len(b) /\ Len(r) = Len(p) + Len(a) + Len(b)
  BY <1>1, ConcatProperties
<1>3. ASSUME NEW i \in 1 .. Len(p) + Len(a) + Len(b) PROVE l[i] = r[i]
  <2>1. CASE i <= Len(p)
    BY <1>1, <2>1, ConcatProperties
  <2>2. CASE Len(p) < i /\ i <= Len(p) + Len(a)
    BY <1>1, <2>2, ConcatProperties
  <2>3. CASE Len(p) + Len(a) < i
    BY <1>1, <2>3, ConcatProperties
  <2> QED BY <1>1, <2>1, <2>2, <2>3
<1> HIDE DEF l, r
<1>4. l = r
  BY <1>1, <1>2, <1>3, SeqEqual
<1> QED BY <1>4 DEF l, r

\* What was saved is what was read and what is in the ring, and a read changes neither.
LEMMA ReadsMove ==
    ASSUME NEW p \in Seq(Int), NEW d \in Seq(Int), NEW n \in 1 .. Len(d)
    PROVE  (p \o SubSeq(d, 1, n)) \o SubSeq(d, n + 1, Len(d)) = p \o d
<1> DEFINE first == SubSeq(d, 1, n)  rest == SubSeq(d, n + 1, Len(d))
<1>1. Len(d) \in Nat /\ n \in 0 .. Len(d) /\ 1 \in 1 .. Len(d) + 1 /\ Len(d) \in n .. Len(d)
  OBVIOUS
<1>2. first \in Seq(Int) /\ rest \in Seq(Int)
  BY <1>1, Rests
<1>3. first \o rest = d
  BY <1>1, ConcatAdjacentSubSeq, SubSeqFull
<1> HIDE DEF first, rest
<1>4. (p \o first) \o rest = p \o (first \o rest)
  BY <1>2, Regrouped, ZenonT(60)
<1>5. (p \o first) \o rest = p \o d
  BY <1>3, <1>4
<1> QED BY <1>5 DEF first, rest

LEMMA LastSavedKept ==
    ASSUME HlsInv, HlsNext, ~LoadsByte
    PROVE  brokenOff' \/ LastSaved' = LastSaved
<1> USE HlsNumbers DEF HlsInv, LastSaved, NoneTaken
<1>1. CASE LoadsNext
  <2>1. CASE loading.next
    <3>1. /\ loading' = [at |-> "body", saved |-> 0, next |-> FALSE, fragment |-> Head(requests)]
          /\ requests # <<>> /\ requests \in Seq(Int)
      BY <1>1, <2>1 DEF LoadsNext, HlsTypes
    <3>2. Head(requests) = LastTaken + 1
      BY <3>1, HeadAndTail DEF RequestsFollow
    <3>3. LastSaved' = BytesBefore(LastTaken + 1)
      <4>1. BytesBefore(LastTaken + 1) \in Int
        BY DEF BytesBefore, LastTaken, HlsTypes, Loads
      <4>2. loading'.fragment = LastTaken + 1 /\ loading'.saved = 0 /\ ~loading'.next
        BY <3>1, <3>2
      <4> QED BY <4>1, <4>2 DEF BytesBefore
    <3>4. CASE NoneTaken
      BY <3>3, <3>4 DEF LastTaken, BytesBefore
    <3>5. CASE ~NoneTaken
      <4>1. /\ loading.saved = FragmentSize
            /\ LastTaken = loading.fragment /\ loading.fragment \in Int
        BY <2>1, <3>5 DEF LoadsWhole, LastTaken, HlsTypes, Loads
      <4>2. BytesBefore(loading.fragment + 1) = BytesBefore(loading.fragment) + FragmentSize
        BY <4>1 DEF BytesBefore
      <4> QED BY <3>3, <3>5, <4>1, <4>2
    <3> QED BY <3>4, <3>5
  <2>2. CASE ~loading.next
    <3>1. /\ loading'.saved = 0 /\ ~loading'.next /\ loading'.fragment = loading.fragment
          /\ loading.at # "body" /\ brokenOff' = brokenOff
      BY <1>1, <2>2 DEF LoadsNext
    <3> QED BY <2>2, <3>1 DEF LoadsWhole, HlsTypes, BytesBefore
  <2> QED BY <2>1, <2>2
<1>2. CASE LoadIsRefused \/ HlsResumes \/ StartsDownload
  BY <1>2, ZenonT(60) DEF LoadIsRefused, HlsResumes, StartsDownload, HlsTypes, Loads, BytesBefore
<1>3. CASE LoadEnds
  BY <1>3 DEF LoadEnds, HlsTypes, Loads, BytesBefore, LoadsWhole
<1>4. CASE loading' = loading
  BY <1>4, SMTT(60) DEF BytesBefore
<1>5. CASE Publishes \/ AsksForList \/ SendsForList \/ ListArrives \/ PushesFragment \/ HasPushed \/ ListEnds
           \/ (\E k \in 1 .. Fragments : ListIsParsed(k)) \/ TakesFragment \/ LocksDownload
           \/ PushesRequest \/ TaskIsPaused \/ HlsReads \/ HlsPauses
  BY <1>4, <1>5 DEF Publishes, AsksForList, SendsForList, ListArrives, PushesFragment, HasPushed, ListEnds,
                    ListIsParsed, TakesFragment, LocksDownload, PushesRequest, TaskIsPaused,
                    HlsReads, HlsPauses
<1> QED BY <1>1, <1>2, <1>3, <1>5 DEF HlsNext, LineStep

LEMMA SavedKept ==
    ASSUME HlsInv, HlsNext
    PROVE  SavedRises'
<1>1. /\ LastSaved \in Int /\ Saved \in Seq(Int) /\ DOMAIN Saved = 1 .. Len(Saved)
      /\ Len(Saved) \in Nat
  <2>1. LastSaved \in Int
    BY HlsNumbers DEF HlsInv, HlsTypes, LastSaved, BytesBefore, Loads, NoneTaken
  <2>2. Saved \in Seq(Int)
    BY ConcatProperties DEF HlsInv, HlsTypes, HlsRings, Saved
  <2> QED BY <2>1, <2>2
<1>2. pauses \in Nat /\ pauses' \in Nat /\ (pauses' = 0 => pauses = 0 /\ ~brokenOff')
  <2>1. HlsTypes' /\ PauseHoldsLine'
    BY HlsTypesKept, LineKept, SMTT(60) DEF HlsInv
  <2>2. pauses' = pauses \/ pauses' = pauses + 1
    BY ZenonT(60) DEF HlsNext, LineStep, Publishes, AsksForList, SendsForList, ListArrives, PushesFragment, HasPushed,
           ListEnds, ListIsParsed, TakesFragment, LocksDownload, PushesRequest, StartsDownload,
           LoadsNext, LoadsByte, LoadIsRefused, LoadEnds, TaskIsPaused, HlsReads, HlsPauses,
           HlsResumes
  <2> QED BY <2>1, <2>2, SMTT(60) DEF HlsInv, HlsTypes, PauseHoldsLine
<1>3. ~brokenOff' => ~brokenOff
  BY DEF HlsNext, LineStep, Publishes, AsksForList, SendsForList, ListArrives, PushesFragment, HasPushed,
         ListEnds, ListIsParsed, TakesFragment, LocksDownload, PushesRequest, StartsDownload,
         LoadsNext, LoadsByte, LoadIsRefused, LoadEnds, TaskIsPaused, HlsReads, HlsPauses,
         HlsResumes
<1>4. CASE LoadsByte
  <2> DEFINE e == Fragment(loading.fragment)[loading.saved + 1]
  <2>1. loading.fragment \in Int /\ loading.saved \in 0 .. FragmentSize - 1 /\ ~loading.next
    BY <1>4, HlsNumbers DEF LoadsByte, HlsInv, HlsTypes, Loads, LoadsWhole
  <2>2. e = LastSaved + 1 /\ e \in Int
    BY <2>1, ByteIs DEF LastSaved, NoneTaken
  <2>3. /\ hlsRing' = [hlsRing EXCEPT !.data = Append(hlsRing.data, e)]
        /\ UNCHANGED <<played, pauses>>
    BY <1>4 DEF LoadsByte
  <2>4. LastSaved' = LastSaved + 1
    <3>1. /\ loading'.saved = loading.saved + 1 /\ loading'.fragment = loading.fragment
          /\ ~loading'.next
      BY <1>4, <2>1 DEF LoadsByte, HlsInv, HlsTypes, Loads
    <3>2. BytesBefore(loading.fragment) \in Int /\ loading.saved \in Int
      <4>1. BytesBefore(loading.fragment) \in Int
        BY <2>1, ByteIs
      <4> QED BY <2>1, <4>1, HlsNumbers
    <3> QED BY <2>1, <3>1, <3>2 DEF LastSaved, NoneTaken, BytesBefore
  <2> HIDE DEF e
  <2>5. /\ hlsRing.data \in Seq(Int)
        /\ played \in Seq(Int) /\ hlsRing'.data = Append(hlsRing.data, e)
    BY <2>3 DEF HlsInv, HlsTypes, HlsRings
  <2>6. /\ Len(Saved') = Len(Saved) + 1 /\ DOMAIN Saved' = 1 .. Len(Saved) + 1
        /\ Saved'[Len(Saved) + 1] = e
        /\ \A i \in 1 .. Len(Saved) : Saved'[i] = Saved[i] /\ Saved[i] \in Int
    <3>1. Saved \in Seq(Int) /\ Saved' = Append(Saved, e)
      BY <2>2, <2>3, <2>5, SavesOne, SMTT(60) DEF Saved
    <3>2. \A i \in 1 .. Len(Saved) : Saved[i] \in Int
      BY <3>1, ElementOfSeq
    <3> HIDE DEF Saved
    <3> QED BY <2>2, <3>1, <3>2, OneMore
  <2> HIDE DEF Saved, LastSaved
  <2>7. ASSUME ~brokenOff, NEW i \in 1 .. Len(Saved) + 1
        PROVE  Saved'[i] <= LastSaved + 1 /\ (i < Len(Saved) + 1 => Saved'[i] < Saved'[i + 1])
    <3>1. CASE i = Len(Saved) + 1
      BY <1>1, <2>2, <2>6, <3>1
    <3>2. CASE i \in 1 .. Len(Saved)
      <4>1. /\ Saved'[i] = Saved[i] /\ Saved[i] \in Int /\ Saved[i] <= LastSaved
            /\ i < Len(Saved) => Saved[i] < Saved[i + 1]
        BY <1>1, <2>6, <2>7, <3>2 DEF HlsInv, SavedRises
      <4>2. CASE i = Len(Saved)
        BY <1>1, <2>2, <2>6, <4>1, <4>2
      <4>3. CASE i < Len(Saved)
        <5>1. i + 1 \in 1 .. Len(Saved) /\ Saved'[i + 1] = Saved[i + 1]
          BY <1>1, <2>6, <3>2, <4>3
        <5> QED BY <1>1, <4>1, <4>3, <5>1
      <4>4. i = Len(Saved) \/ i < Len(Saved)
        <5>1. Len(Saved) \in Int
          BY <1>1
        <5> QED BY <3>2, <5>1
      <4> QED BY <4>2, <4>3, <4>4
    <3>3. i = Len(Saved) + 1 \/ i \in 1 .. Len(Saved)
      BY <1>1
    <3> QED BY <3>1, <3>2, <3>3
  <2>8. ASSUME pauses = 0, NEW i \in 1 .. Len(Saved) + 1
        PROVE  Saved'[i] = (LastSaved + 1) - (Len(Saved) + 1) + i
    BY <1>1, <2>2, <2>6, <2>8, SMTT(60) DEF HlsInv, SavedRises
  <2> QED BY <1>1, <1>3, <2>3, <2>4, <2>6, <2>7, <2>8 DEF SavedRises
<1>5. CASE Saved' = Saved /\ ~LoadsByte
  BY <1>1, <1>2, <1>3, <1>5, LastSavedKept DEF HlsInv, SavedRises
<1>6. CASE HlsReads
  <2>1. PICK n \in 1 .. Len(hlsRing.data) :
           /\ played' = played \o SubSeq(hlsRing.data, 1, n)
           /\ hlsRing' = [hlsRing EXCEPT !.data = SubSeq(@, n + 1, Len(@))]
    BY <1>6 DEF HlsReads
  <2>2. hlsRing'.data = SubSeq(hlsRing.data, n + 1, Len(hlsRing.data))
    BY <2>1 DEF HlsInv, HlsTypes, HlsRings
  <2>3. hlsRing.data \in Seq(Int) /\ played \in Seq(Int)
    BY DEF HlsInv, HlsTypes, HlsRings
  <2>4. Saved' = Saved
    BY <2>1, <2>2, <2>3, ReadsMove, ZenonT(60) DEF Saved
  <2>5. LastSaved' = LastSaved /\ UNCHANGED <<brokenOff, pauses>>
    BY <1>6 DEF HlsReads, LastSaved, NoneTaken, BytesBefore
  <2> QED BY <1>1, <2>4, <2>5 DEF HlsInv, SavedRises
<1>7. CASE HlsPauses
  <2>1. hlsRing.data \in Seq(Int) /\ played \in Seq(Int)
    BY DEF HlsInv, HlsTypes, HlsRings
  <2>2. pauses' # 0 /\ LastSaved' = LastSaved /\ UNCHANGED <<played, brokenOff>>
    BY <1>2, <1>7 DEF HlsPauses, LastSaved, NoneTaken, BytesBefore
  <2>3. hlsRing'.data = hlsRing.data \/ hlsRing'.data = <<>>
    BY <1>7 DEF HlsPauses
  <2>4. CASE hlsRing'.data = hlsRing.data
    <3>1. Saved' = Saved
      BY <2>2, <2>4 DEF Saved
    <3> QED BY <1>1, <2>2, <3>1 DEF HlsInv, SavedRises
  <2>5. CASE hlsRing'.data = <<>>
    <3>1. Saved' = played
      BY <2>1, <2>2, <2>5, ConcatEmptySeq DEF Saved
    <3>2. /\ Len(played) \in Nat
          /\ Len(played) <= Len(Saved) /\ \A i \in 1 .. Len(played) : played[i] = Saved[i]
      BY <2>1, ConcatProperties DEF Saved
    <3>3. DOMAIN played = 1 .. Len(played)
      BY <2>1
    <3> QED BY <1>1, <2>2, <3>1, <3>2, <3>3, SMTT(60) DEF HlsInv, SavedRises
  <2> QED BY <2>3, <2>4, <2>5
<1>8. CASE HlsResumes
  <2>1. hlsRing'.data = hlsRing.data /\ played' = played
    BY <1>8 DEF HlsResumes, HlsInv, HlsTypes, HlsRings
  <2>2. ~LoadsByte
    BY <1>8 DEF HlsResumes, LoadsByte, HlsInv, PauseHoldsLine
  <2> QED BY <1>5, <2>1, <2>2 DEF Saved
<1>9. CASE UNCHANGED <<played, hlsRing>> /\ ~LoadsByte
  BY <1>5, <1>9, SMTT(60) DEF Saved
<1>10. CASE ~(LoadsByte \/ HlsReads \/ HlsPauses \/ HlsResumes)
  BY <1>9, <1>10
     DEF HlsNext, LineStep, Publishes, AsksForList, SendsForList, ListArrives, PushesFragment, HasPushed,
         ListEnds, ListIsParsed, TakesFragment, LocksDownload, PushesRequest, StartsDownload,
         LoadsNext, LoadIsRefused, LoadEnds, TaskIsPaused
<1> QED BY <1>4, <1>6, <1>7, <1>8, <1>10

\* The reader of an HLS stream gets its bytes in order and none twice, unless a pause broke
\* off the transfer of a fragment, and none is missing without a pause: for every number and
\* size of fragments, every capacity of the two queues and of the ring, and however often
\* the playlist is fetched and the download paused.
THEOREM FragmentsPlayInOrder == HlsSpec => []HlsReadsInOrder
<1>1. HlsInit => HlsInv
  <2> SUFFICES ASSUME HlsInit PROVE HlsInv
    OBVIOUS
  <2>1. <<>> \in Seq(Int) /\ Len(<<>>) = 0
    BY EmptySeq
  <2>2. HlsTypes
    <3>1. playList \in PlayLists /\ hlsRing \in HlsRings
      <4> DEFINE none == <<>>
      <4>1. /\ playList = [que |-> none, active |-> TRUE]
            /\ hlsRing = [data |-> none, active |-> TRUE]
        BY DEF HlsInit
      <4> HIDE DEF none
      <4> QED BY <2>1, <4>1 DEF PlayLists, HlsRings, none
    <3>2. listing \in Listings /\ looping \in Loops
      <4> DEFINE none == <<>>
      <4>1. listing = [at |-> "idle", total |-> 0, upto |-> 0, text |-> none, headed |-> FALSE,
                       files |-> none, pushed |-> 0, master |-> FALSE, isLive |-> FALSE]
        BY DEF HlsInit
      <4>2. none \in Seq(Int)
        BY <2>1
      <4> HIDE DEF none
      <4>3. listing \in Listings
        BY <4>1, <4>2 DEF Listings
      <4> QED BY <4>3 DEF HlsInit, Loops
    <3>3. loading \in Loads
      BY HlsNumbers DEF HlsInit, Loads
    <3>4. live \in BOOLEAN /\ published \in Int
      BY HlsNumbers DEF HlsInit
    <3> QED BY <2>1, <3>1, <3>2, <3>3, <3>4 DEF HlsInit, HlsTypes, Pausing
  <2>3. PauseHoldsLine
    BY DEF HlsInit, PauseHoldsLine
  <2>7. TextFollows
    BY DEF HlsInit, TextFollows, Listed
  <2>4. FragmentsFollow
    BY DEF HlsInit, FragmentsFollow, LastSeen
  <2>5. RequestsFollow /\ LoadsWhole
    BY DEF HlsInit, RequestsFollow, LoadsWhole, LastPushed, LastSeen, LastTaken, NoneTaken
  <2>6. SavedRises
    <3>1. Saved = <<>>
      BY <2>1, ConcatEmptySeq DEF HlsInit, Saved
    <3> QED BY <3>1 DEF SavedRises
  <2> QED BY <2>2, <2>3, <2>4, <2>5, <2>6, <2>7 DEF HlsInv
<1>2. HlsInv /\ [HlsNext]_hlsVars => HlsInv'
  <2> SUFFICES ASSUME HlsInv, [HlsNext]_hlsVars PROVE HlsInv'
    OBVIOUS
  <2>1. CASE HlsNext
    <3>1. HlsTypes' /\ PauseHoldsLine' /\ TextFollows' /\ FragmentsFollow'
      BY <2>1, HlsTypesKept, LineKept, TextKept, FragmentsKept DEF HlsInv
    <3>2. RequestsFollow' /\ LoadsWhole' /\ SavedRises'
      BY <2>1, RequestsKept, SavedKept
    <3> QED BY <3>1, <3>2 DEF HlsInv
  <2>2. CASE UNCHANGED hlsVars
    BY <2>2, ZenonT(60)
         DEF hlsVars, HlsInv, HlsTypes, PauseHoldsLine, TextFollows, FragmentsFollow, LastSeen,
             RequestsFollow, LastPushed, LastTaken, NoneTaken, LoadsWhole, SavedRises, Saved,
             LastSaved
  <2> QED BY <2>1, <2>2
<1>3. HlsInv => HlsReadsInOrder
  <2> SUFFICES ASSUME HlsInv, NEW i \in 1 .. Len(played) - 1
               PROVE  /\ ~brokenOff => played[i] < played[i + 1]
                      /\ pauses = 0 => played[i + 1] = played[i] + 1
    BY DEF HlsReadsInOrder
  <2>1. /\ hlsRing.data \in Seq(Int) /\ played \in Seq(Int) /\ Len(hlsRing.data) \in Nat
        /\ Len(played) \in Nat
    BY DEF HlsInv, HlsTypes, HlsRings
  <2>2. /\ Len(Saved) = Len(played) + Len(hlsRing.data) /\ DOMAIN Saved = 1 .. Len(Saved)
        /\ Saved[i] = played[i] /\ Saved[i + 1] = played[i + 1]
    BY <2>1, ConcatProperties, SMTT(60) DEF Saved
  <2>3. i \in DOMAIN Saved /\ i + 1 \in DOMAIN Saved /\ i < Len(Saved)
    BY <2>1, <2>2, SMTT(60)
  <2>4. LastSaved \in Int
    BY HlsNumbers DEF HlsInv, HlsTypes, LastSaved, BytesBefore, Loads, NoneTaken
  <2>5. ASSUME ~brokenOff PROVE played[i] < played[i + 1]
    BY <2>2, <2>3, <2>5 DEF HlsInv, SavedRises
  <2>6. ASSUME pauses = 0 PROVE played[i + 1] = played[i] + 1
    <3>1. /\ Saved[i] = LastSaved - Len(Saved) + i
          /\ Saved[i + 1] = LastSaved - Len(Saved) + (i + 1)
      BY <2>3, <2>6 DEF HlsInv, SavedRises
    <3> HIDE DEF Saved, LastSaved
    <3> QED BY <2>1, <2>2, <2>4, <3>1
  <2> QED BY <2>5, <2>6
<1> QED BY <1>1, <1>2, <1>3, PTL DEF HlsSpec
=============================================================================
