------------------------------ MODULE HlsSource ------------------------------
(***************************************************************************)
(* How an HLS stream is read.  Five threads work in a line: the update     *)
(* Task asks for the playlist again and again, the playlist downloader     *)
(* fetches it and pushes its fragments into playList_, the fragment loop   *)
(* turns those it has not seen into requests, the media downloader fetches *)
(* them into the ring, and the reader reads.  The monitor pauses the line  *)
(* from its end to its start, and resumes it.                              *)
(*                                                                         *)
(* A playlist is the number of fragments it lists, a byte is its number in *)
(* the stream: fragment f holds the bytes of Fragment(f).  A playlist may   *)
(* come in two pieces, cut between fragments, and each piece is parsed     *)
(* with what came before it.  Of a request, what HttpSource models is left *)
(* out: the network does not fail here, and nobody seeks.                  *)
(***************************************************************************)
EXTENDS Integers, Sequences

CONSTANTS Fragments,        \* fragments of the stream
          FragmentSize,     \* bytes of a fragment
          HlsRing,          \* RING_BUFFER_SIZE
          PlayListQueue,    \* capacity of playList_
          RequestQueue,     \* REQUEST_QUEUE_SIZE
          MaxUpdates,       \* bound of the fetches of the playlist
          MaxHlsPauses      \* bound of the pauses

ASSUME HlsAssumption ==
    /\ Fragments \in Nat \ {0} /\ FragmentSize \in Nat \ {0} /\ HlsRing \in Nat \ {0}
    /\ PlayListQueue \in Nat \ {0} /\ RequestQueue \in Nat \ {0}
    /\ MaxUpdates \in Nat \ {0} /\ MaxHlsPauses \in Nat

VARIABLES
    live,        \* whether the playlist has no end yet
    published,   \* fragments the server lists
    listing,     \* the playlist downloader: where it is, the list that it fetches, its
                 \* text and whether that begins with a header, files_ and master_
    asked,       \* requests of the playlist, made, about to be sent, and waiting
    playList,    \* playList_, and whether it is active
    looping,     \* the fragment loop: where it is, its fragment, fragmentDownloadStart
    requests,    \* requestQue_ of the media downloader
    loading,     \* the media downloader: where it is, its fragment, the bytes saved
    hlsRing,     \* the ring, and whether it is active
    played,      \* what the reader has got
    halted,      \* the Tasks that are paused
    pauseAt,     \* the Task the monitor waits for
    pauses,      \* pauses so far
    brokenOff    \* whether a transfer ended within a fragment (history)

hlsVars == <<live, published, listing, asked, playList, looping, requests, loading, hlsRing,
             played, halted, pauseAt, pauses, brokenOff>>

Fragment(f) == [i \in 1 .. FragmentSize |-> (f - 1) * FragmentSize + i]

HlsTypeOK ==
    /\ live \in BOOLEAN /\ published \in 1 .. Fragments
    /\ playList.que \in Seq(1 .. Fragments) /\ Len(playList.que) <= PlayListQueue
    /\ requests \in Seq(1 .. Fragments) /\ Len(requests) <= RequestQueue
    /\ listing \in [at : {"idle", "text", "notify"}, total : 0 .. Fragments, upto : 0 .. Fragments,
                    text : Seq(1 .. Fragments), headed : BOOLEAN, files : Seq(1 .. Fragments),
                    pushed : Nat, master : BOOLEAN, isLive : BOOLEAN]
    /\ asked \in [made : 0 .. MaxUpdates, opening : BOOLEAN, waiting : 0 .. MaxUpdates]
    /\ Len(hlsRing.data) <= HlsRing
    /\ halted \subseteq {"update", "list", "loop", "load"}
    /\ pauseAt \in {"none", "update", "list", "loop", "load", "paused"}

HlsInit ==
    /\ live \in BOOLEAN /\ published = (IF live THEN 1 ELSE Fragments)
    /\ listing = [at |-> "idle", total |-> 0, upto |-> 0, text |-> <<>>, headed |-> FALSE,
                  files |-> <<>>, pushed |-> 0, master |-> FALSE, isLive |-> FALSE]
    /\ asked = [made |-> 1, opening |-> FALSE, waiting |-> 1]
    /\ playList = [que |-> <<>>, active |-> TRUE]
    /\ looping = [at |-> "loop", fragment |-> 1, seen |-> {}]
    /\ requests = <<>>
    /\ loading = [at |-> "rest", fragment |-> 1, saved |-> 0, next |-> TRUE]
    /\ hlsRing = [data |-> <<>>, active |-> TRUE]
    /\ played = <<>>
    /\ halted = {} /\ pauseAt = "none" /\ pauses = 0 /\ brokenOff = FALSE

\* The server goes on with a live stream.
Publishes ==
    /\ live /\ published < Fragments
    /\ published' = published + 1
    /\ UNCHANGED <<live, listing, asked, playList, looping, requests, loading, hlsRing, played,
                   halted, pauseAt, pauses, brokenOff>>

-----------------------------------------------------------------------------
(* The playlist.                                                           *)

\* PlayListUpdateLoop, UpdateManifest: DoOpen clears the text, whoever appends to it.
AsksForList ==
    /\ listing.master /\ "update" \notin halted
    /\ asked.made < MaxUpdates /\ ~asked.opening
    /\ asked' = [asked EXCEPT !.made = @ + 1, !.opening = TRUE]
    /\ listing' = [listing EXCEPT !.text = <<>>, !.headed = FALSE]
    /\ UNCHANGED <<live, published, playList, looping, requests, loading, hlsRing, played,
                   halted, pauseAt, pauses, brokenOff>>

\* Then Download waits for operatorMutex_, which is held while a list is fetched.
SendsForList ==
    /\ asked.opening /\ listing.at = "idle"
    /\ asked' = [asked EXCEPT !.opening = FALSE, !.waiting = @ + 1]
    /\ UNCHANGED <<live, published, listing, playList, looping, requests, loading, hlsRing, played,
                   halted, pauseAt, pauses, brokenOff>>

\* The next transfer begins; the text is not cleared again.
ListArrives ==
    /\ listing.at = "idle" /\ asked.waiting > 0 /\ "list" \notin halted
    /\ asked' = [asked EXCEPT !.waiting = @ - 1]
    /\ listing' = [listing EXCEPT !.at = "text", !.total = published, !.upto = 0]
    /\ UNCHANGED <<live, published, playList, looping, requests, loading, hlsRing, played,
                   halted, pauseAt, pauses, brokenOff>>

\* M3U8::Update takes a text that begins with the header of a list; the end of the
\* list is the tag that says that the stream is not live.
HasHeader == IF listing.text = <<>> THEN listing.upto = 0 ELSE listing.headed
ParsesAsLive(k) == live \/ k < listing.total

\* SaveData appends a piece of the list and ParseManifest parses all there is: what an
\* earlier list has left of the text too.  The first piece of all decides whether the
\* stream is live: its end may be missing.
ListIsParsed(k) ==
    LET text == listing.text \o [i \in 1 .. k - listing.upto |-> listing.upto + i] IN
    /\ listing.at = "text" /\ listing.upto < k /\ k <= listing.total
    /\ listing' = [listing EXCEPT !.upto = k, !.pushed = 0, !.text = text, !.headed = HasHeader,
                                  !.at = IF HasHeader THEN "notify" ELSE @,
                                  !.files = IF HasHeader THEN text ELSE @,
                                  !.isLive = IF listing.master THEN @ ELSE ParsesAsLive(k),
                                  !.master = TRUE]
    /\ UNCHANGED <<live, published, asked, playList, looping, requests, loading, hlsRing, played,
                   halted, pauseAt, pauses, brokenOff>>

\* NotifyListChange, OnPlayListChanged: each fragment is pushed, or dropped when
\* the queue is not active.
PushesFragment ==
    /\ listing.at = "notify" /\ listing.pushed < Len(listing.files)
    /\ ~playList.active \/ Len(playList.que) < PlayListQueue
    /\ listing' = [listing EXCEPT !.pushed = @ + 1]
    /\ playList' = IF playList.active
                    THEN [playList EXCEPT !.que = Append(@, listing.files[listing.pushed + 1])]
                    ELSE playList
    /\ UNCHANGED <<live, published, asked, looping, requests, loading, hlsRing, played,
                   halted, pauseAt, pauses, brokenOff>>

HasPushed ==
    /\ listing.at = "notify" /\ listing.pushed = Len(listing.files)
    /\ listing' = [listing EXCEPT !.at = "text"]
    /\ UNCHANGED <<live, published, asked, playList, looping, requests, loading, hlsRing, played,
                   halted, pauseAt, pauses, brokenOff>>

ListEnds ==
    /\ listing.at = "text" /\ listing.upto = listing.total
    /\ listing' = [listing EXCEPT !.at = "idle"]
    /\ UNCHANGED <<live, published, asked, playList, looping, requests, loading, hlsRing, played,
                   halted, pauseAt, pauses, brokenOff>>

-----------------------------------------------------------------------------
(* The fragment loop.                                                      *)

\* A faulty FragmentDownloadLoop, which looks for the fragment in what it has
\* seen of this playlist only.
TakesEveryFragment ==
    LET f == Head(playList.que) IN
    /\ looping.at = "loop" /\ "loop" \notin halted
    /\ playList.active /\ playList.que # <<>>
    /\ playList' = [playList EXCEPT !.que = Tail(@)]
    /\ looping' = IF f \in looping.seen /\ f # 1 THEN looping
                  ELSE [at |-> "download", fragment |-> f,
                        seen |-> IF f = 1 THEN {1} ELSE looping.seen \cup {f}]
    /\ UNCHANGED <<live, published, listing, asked, requests, loading, hlsRing, played,
                   halted, pauseAt, pauses, brokenOff>>

\* FragmentDownloadLoop: a fragment that was seen before is dropped.
TakesFragment ==
    LET f == Head(playList.que) IN
    /\ looping.at = "loop" /\ "loop" \notin halted
    /\ playList.active /\ playList.que # <<>>
    /\ playList' = [playList EXCEPT !.que = Tail(@)]
    /\ looping' = IF f \in looping.seen THEN looping
                  ELSE [at |-> "download", fragment |-> f, seen |-> looping.seen \cup {f}]
    /\ UNCHANGED <<live, published, listing, asked, requests, loading, hlsRing, played,
                   halted, pauseAt, pauses, brokenOff>>

\* Download takes operatorMutex_, which the media downloader holds while it loads,
\* and keeps it while it waits in Push for room.
LocksDownload ==
    /\ looping.at = "download" /\ loading.at # "body"
    /\ looping' = [looping EXCEPT !.at = "push"]
    /\ UNCHANGED <<live, published, listing, asked, playList, requests, loading, hlsRing, played,
                   halted, pauseAt, pauses, brokenOff>>

PushesRequest ==
    /\ looping.at = "push" /\ Len(requests) < RequestQueue
    /\ requests' = Append(requests, looping.fragment)
    /\ looping' = [looping EXCEPT !.at = "start"]
    /\ UNCHANGED <<live, published, listing, asked, playList, loading, hlsRing, played,
                   halted, pauseAt, pauses, brokenOff>>

\* A faulty PutRequestIntoDownloader, which starts the downloader once.
StartsOnce ==
    /\ looping.at = "start"
    /\ looping' = [looping EXCEPT !.at = "loop"]
    /\ loading' = [loading EXCEPT !.at = IF @ = "rest" /\ looping.fragment = 1 THEN "loop" ELSE @]
    /\ UNCHANGED <<live, published, listing, asked, playList, requests, hlsRing, played,
                   halted, pauseAt, pauses, brokenOff>>

StartsDownload ==
    /\ looping.at = "start"
    /\ looping' = [looping EXCEPT !.at = "loop"]
    /\ loading' = [loading EXCEPT !.at = IF @ = "rest" THEN "loop" ELSE @]
    /\ UNCHANGED <<live, published, listing, asked, playList, requests, hlsRing, played,
                   halted, pauseAt, pauses, brokenOff>>

-----------------------------------------------------------------------------
(* The media downloader: whole fragments, one request after the other.     *)

MediaMutexFree == looping.at # "push"

\* The next request; or, when the last was broken off, that one from its start
\* (requestWholeFile_).
LoadsNext ==
    /\ loading.at = "loop" /\ "load" \notin halted /\ MediaMutexFree
    /\ loading.next => requests # <<>>
    /\ loading' = [at |-> "body", saved |-> 0, next |-> FALSE,
                   fragment |-> IF loading.next THEN Head(requests) ELSE loading.fragment]
    /\ requests' = IF loading.next THEN Tail(requests) ELSE requests
    /\ UNCHANGED <<live, published, listing, asked, playList, looping, hlsRing, played,
                   halted, pauseAt, pauses, brokenOff>>

LoadsByte ==
    /\ loading.at = "body" /\ loading.saved < FragmentSize
    /\ hlsRing.active /\ Len(hlsRing.data) < HlsRing
    /\ hlsRing' = [hlsRing EXCEPT !.data = Append(@, Fragment(loading.fragment)[loading.saved + 1])]
    /\ loading' = [loading EXCEPT !.saved = @ + 1]
    /\ UNCHANGED <<live, published, listing, asked, playList, looping, requests, played,
                   halted, pauseAt, pauses, brokenOff>>

\* A byte is refused by a ring that is not active: the transfer fails, the Task pauses.
LoadIsRefused ==
    /\ loading.at = "body" /\ loading.saved < FragmentSize /\ ~hlsRing.active
    /\ loading' = [loading EXCEPT !.at = "rest"]
    /\ brokenOff' = (brokenOff \/ loading.saved > 0)
    /\ UNCHANGED <<live, published, listing, asked, playList, looping, requests, hlsRing, played,
                   halted, pauseAt, pauses>>

\* HandleRetOK: the Task pauses when no request waits.
LoadEnds ==
    /\ loading.at = "body" /\ loading.saved = FragmentSize
    /\ loading' = [loading EXCEPT !.at = IF requests = <<>> THEN "rest" ELSE "loop", !.next = TRUE]
    /\ UNCHANGED <<live, published, listing, asked, playList, looping, requests, hlsRing, played,
                   halted, pauseAt, pauses, brokenOff>>

HlsReads ==
    /\ hlsRing.active /\ hlsRing.data # <<>>
    /\ \E n \in 1 .. Len(hlsRing.data) :
        /\ played' = played \o SubSeq(hlsRing.data, 1, n)
        /\ hlsRing' = [hlsRing EXCEPT !.data = SubSeq(@, n + 1, Len(@))]
    /\ UNCHANGED <<live, published, listing, asked, playList, looping, requests, loading,
                   halted, pauseAt, pauses, brokenOff>>

-----------------------------------------------------------------------------
(* The monitor pauses the Tasks one after the other, and resumes them.     *)

\* A Task is paused when it is asked to and its job is over.
AtRest(task) == CASE task = "update" -> ~asked.opening
                  [] task = "list"   -> listing.at = "idle"
                  [] task = "loop"   -> looping.at = "loop"
                  [] task = "load"   -> loading.at \in {"loop", "rest"}

AfterTask(task) == CASE task = "update" -> "list"
                     [] task = "list"   -> "loop"
                     [] task = "loop"   -> "load"
                     [] task = "load"   -> "paused"

\* Pause: of a live stream everything that waits is dropped.
HlsPauses ==
    /\ pauseAt = "none" /\ listing.master /\ pauses < MaxHlsPauses
    /\ pauses' = pauses + 1
    /\ hlsRing' = [data |-> IF listing.isLive THEN <<>> ELSE hlsRing.data, active |-> FALSE]
    /\ playList' = [que |-> IF listing.isLive THEN <<>> ELSE playList.que, active |-> FALSE]
    /\ pauseAt' = "update" /\ halted' = {"update"}
    /\ UNCHANGED <<live, published, listing, asked, looping, requests, loading, played, brokenOff>>

TaskIsPaused ==
    /\ pauseAt \in {"update", "list", "loop", "load"} /\ AtRest(pauseAt)
    /\ pauseAt' = AfterTask(pauseAt)
    /\ halted' = IF pauseAt = "load" THEN halted ELSE halted \cup {AfterTask(pauseAt)}
    /\ UNCHANGED <<live, published, listing, asked, playList, looping, requests, loading, hlsRing,
                   played, pauses, brokenOff>>

\* Resume, when the reader reads again.
HlsResumes ==
    /\ pauseAt = "paused"
    /\ pauseAt' = "none" /\ halted' = {}
    /\ hlsRing' = [hlsRing EXCEPT !.active = TRUE]
    /\ playList' = [playList EXCEPT !.active = TRUE]
    /\ loading' = [loading EXCEPT !.at = "loop"]
    /\ UNCHANGED <<live, published, listing, asked, looping, requests, played, pauses, brokenOff>>

LineStep ==
    \/ AsksForList \/ SendsForList \/ ListArrives \/ PushesFragment \/ HasPushed \/ ListEnds
    \/ \E k \in 1 .. Fragments : ListIsParsed(k)
    \/ TakesFragment \/ LocksDownload \/ PushesRequest \/ StartsDownload
    \/ LoadsNext \/ LoadsByte \/ LoadIsRefused \/ LoadEnds
    \/ TaskIsPaused

HlsNext == Publishes \/ LineStep \/ HlsReads \/ HlsPauses \/ HlsResumes

HlsFairness == WF_hlsVars(LineStep) /\ WF_hlsVars(HlsReads) /\ WF_hlsVars(HlsResumes)

HlsSpec == HlsInit /\ [][HlsNext]_hlsVars /\ HlsFairness

-----------------------------------------------------------------------------
(* Properties.                                                             *)

\* The reader gets the bytes of the stream in order and none twice, unless a
\* pause broke off the transfer of a fragment (which begins again with its first
\* byte), and none is missing unless a pause dropped what waited.
HlsReadsInOrder ==
    \A i \in 1 .. Len(played) - 1 :
        /\ ~brokenOff => played[i] < played[i + 1]
        /\ pauses = 0 => played[i + 1] = played[i] + 1

\* The list that was asked for last is refused: its text was cleared when it had begun, or
\* follows the rest of a list to which that had happened.
LastListIsLost ==
    /\ asked = [made |-> MaxUpdates, opening |-> FALSE, waiting |-> 0]
    /\ listing.at = "idle" /\ ~listing.headed

HlsIsPlayedOut == Len(played) = Fragments * FragmentSize \/ pauses > 0 \/ LastListIsLost

\* A stream that is not live, and that nobody pauses, is played to its end, whatever lists
\* were lost in between, if only the last one is taken.
HlsPlaysOut == ~live ~> HlsIsPlayedOut

\* A download that waits until its request is pushed gets it pushed: "wait until
\* push success" (downloader.cpp:142).
DownloadIsPushed == (looping.at = "push") ~> (looping.at # "push")
=============================================================================
