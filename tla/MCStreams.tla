------------------------------ MODULE MCStreams ------------------------------
\* The ways of the data from the network to the screen, each on an instance of
\* its own and with the fairness of its threads: a file over HTTP, a stream over
\* HLS, and the frames through a decoder.  The other ways stay as they began.
EXTENDS HttpSource, HlsSource, AsyncCodec

VARIABLE way   \* the way the data goes

streamsVars == <<way, httpVars, hlsVars, codecVars>>

StreamsInit ==
    /\ way \in {"http", "hls", "codec"}
    /\ HttpInit /\ HlsInit /\ CodecInit
    /\ way # "hls" => live

Flows(w, step) ==
    /\ way = w /\ way' = way /\ step
    /\ IF w = "http" THEN TRUE ELSE UNCHANGED httpVars
    /\ IF w = "hls" THEN TRUE ELSE UNCHANGED hlsVars
    /\ IF w = "codec" THEN TRUE ELSE UNCHANGED codecVars

StreamsNext ==
    \/ Flows("http", HttpNext)
    \/ Flows("hls", HlsNext)
    \/ Flows("codec", CodecNext)

\* The fairness of HttpSpec, HlsSpec and CodecSpec.
StreamsFairness ==
    /\ SF_httpVars(Flows("http", SeekStep)) /\ WF_httpVars(Flows("http", CloseStep))
    /\ WF_httpVars(Flows("http", FetchStep)) /\ WF_httpVars(Flows("http", WatchStep))
    /\ WF_hlsVars(Flows("hls", LineStep)) /\ WF_hlsVars(Flows("hls", HlsReads))
    /\ WF_hlsVars(Flows("hls", HlsResumes))
    /\ WF_codecVars(Flows("codec", DemuxStep)) /\ WF_codecVars(Flows("codec", HandleStep))
    /\ WF_codecVars(Flows("codec", DecodeStep)) /\ WF_codecVars(Flows("codec", PushStep))
    /\ WF_codecVars(Flows("codec", PlayerStep))

StreamsSpec == StreamsInit /\ [][StreamsNext]_streamsVars /\ StreamsFairness

\* The decoder plays what it is given to its end, and so does an HLS stream that is not
\* live: CodecPlaysOut and HlsPlaysOut, each on its way, which never changes.
StreamsPlayOut ==
    ((way = "codec" /\ call = "none") \/ (way = "hls" /\ ~live))
        ~> ((way = "codec" /\ CodecIsPlayedOut) \/ (way = "hls" /\ HlsIsPlayedOut))
=============================================================================
