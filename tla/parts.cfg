SPECIFICATION PartsSpec
CONSTANTS
    PoolClients = {1, 2, 3}
    Memories = {1, 2, 3, 4}
    PoolOptions <- SmallPools
    Sizes = {1, 2}
    AllocMayFail = TRUE
    Streams = {"audio", "video"}
    PlayerApi = {"Prepare", "PrepareAsync", "Play", "Pause", "Seek", "Stop"}
    Faults = {"parse", "start", "seek", "negotiate"}
    MaxPlayerCalls = 7
    LateSources = {TRUE, FALSE}
    MaxRises = 1
    MaxLateCalls = 3
    Syncers = {"audio", "video"}
    TrackStart = 1
    TrackEnd = 4
    FrameTimes = {1, 3}
    Latencies = {1}
    MaxSteady = 2
    SyncApi = {"Prepare", "Play", "Pause", "Seek", "Stop"}
    MaxSyncCalls = 4
    Modes = {"pull", "push"}
    MediaSize = 7
    ReadSizes = {1, 3}
    PackerCapacity = 4
    MaxPeeks = 1
    MaxReads = 5
    SourceMayFail = TRUE
    ReportInterval = 2
    MaxLooperTime = 2
    MaxEvents = 3
    RecStreams = {"audio", "video"}
    RecApi = {"SetAudio", "SetVideo", "Configure", "Prepare", "Start", "Pause", "Resume", "Stop", "StopNow", "Reset"}
    RecFaults = {"prepare", "start", "read", "timeout"}
    MaxRecCalls = 5
    MaxFrames = 2
    EncoderDepth = 1
    Demuxers = {"aac", "mp3", "mp4"}
    FrameSizes <- SmallFrames
    LeadIn = 2
    IoSize = 5
    OnceLength = 2
    MaxHiccups = 1
    MaxFrameSeeks = 2
    MaxReopens = 1
    InCount = 2
    OutCount = 2
    OutPluginBuffers = {1, 2}
    MaxHdiFrames = 1
    MaxHdiCalls = 3
    MaxHdiErrors = 1
    MaxStalls = 1
    VideoFrames = 2
    AvDepth = 1
    VideoInQueue = 1
    VideoBuffers = 2
    MaxCorrupt = 1
    MaxFlushes = 1
    AuSinks = {"hdi", "server", "sdl"}
    AuFrames = 2
    AuParts = 2
    AuRoom = 2
    MaxAuCalls = 4
    MaxInterrupts = 1
    VideoPlugins = {"surface", "sdl"}
    VsFrames = 3
    VsMemories = 2
    SurfaceBuffers = 2
    VsQueueRoom = 1
    MaxVsCalls = 3
    MaxRefused = 1
    AnySlots = {1, 2, 3}
    AnyValues = {1, 2}
    FormatNames = {"a", "b"}
    MetaIds = {1, 2, 3}
    FormatTags <- SmallTags
    MaxFormatCalls = 3
    MaxAllocs = 2
    Libraries = {"l1", "l2", "l3"}
    LibraryDefs <- SmallLibraries
    StaticDefs <- SmallStatic
    SniffSources <- SmallSources
    MaxFinds = 2
    MaxWrapCalls = 8
    NgDecoders <- SmallDecoders
    NgSinks <- SmallSinks
    NgStreams <- SmallStreams
    NgIntRange = 4
    MaxNgOpens = 3
    MaxNgFaults = 1
    FfMedia <- SmallMedia
    NearEnd = 1
    MaxFfOpens = 2
    MaxFfSeeks = 1
    MaxFfSelects = 1
    MaxFfErrors = 1
    MuxPlugins <- SmallMuxers
    MuxTracks <- SmallTracks
    Container = "mp4"
    MuxPorts = 2
    AvioSize = 2
    MaxMuxFrames = 3
    MaxRecordings = 2
    MaxSeekFaults = 1
    MaxShortWrites = 0
    AcKinds = {"encoder", "ffmpeg", "aac", "mp3"}
    AcFrame = 2
    AcPushes = {1, 3}
    AcLength = 3
    AcRingFrames = 2
    AcDelay = 1
    AcLong = {2}
    MaxAcCalls = 2
    MaxAcFaults = 1
    CpDowns <- SmallDowns
    CpSettings <- SmallCaptures
    CpSupported <- SmallService
    CpKnown <- SmallTables
    CpUnit = 4
    CpSlack = 2
    CpJitter = 1
    CpFileFrames = 3
    CpSurfaceQueue = 2
    MaxCpCalls = 5
    MaxCpFrames = 3
    MaxCpFaults = 1
    SrcMedia <- SmallSourceMedia
    SrcBuilds <- SmallBuilds
    SrcReads = {1, 3}
    SrcMemory = 2
    SrcPoolMax = 2
    MaxSrcCalls = 4
    MaxSrcReads = 3
    BmConfigs <- SmallBufferConfigs
    BmWrites = {2}
    BmPositions <- SmallBufferPositions
    BmCapacities = {3}
    BmPage = 5
    MaxBmSends = 2
    MaxBmSteps = 2
    RqIds = {1, 2}
    RqMemories = {"shared", "virtual"}
    RqWorlds = {"remote", "producer", "consumer"}
    RqSizes = {1, 2}
    RqMaxSize = 32
    MaxRqFrames = 2
    MaxRqCalls = 4
    MaxRqLost = 1
    PlClients = {"a", "b"}
    PlFilters = {1, 2, 3}
    PlTypes <- OneType
    PlCommands = {"Prepare", "Start", "Pause", "Resume", "Stop", "Flush", "Release"}
    PlBuilds <- SmallPipelines
    FactoryTypes = {"vdec"}
    MaxPlCalls = 2
    MaxPlFailures = 1
    PtMedia <- SmallPtMedia
    PtStops = {TRUE, FALSE}
    MaxPtRounds = 2
    MaxPtFrames = 2
    LpMedia <- SmallLiteMedia
    LpVolumes = {0}
    LpFaults = {"source", "start", "stop", "seek", "error"}
    MaxLpCalls = 5
    MaxLpErrors = 1
    MaxLpJobs = 2
    SpKinds = {"server", "hdi", "sdl"}
    SpStreams <- SmallSinkStreams
    PortBases = {"U8", "S16", "S24"}
    MaxSpStreams = 3
    MaxSpRefusals = 1
    SyThreads = {"t1", "t2"}
    SyMutexes = {"m1"}
    SyGuard = "m1"
    SyLockNames = {"a", "b"}
    SyWaits <- SmallWaits
    SyGiga = 2
    MaxSyTime = 3
    MaxSyCalls = 3
VIEW PartsView
INVARIANTS
    PartsTypeOK
    PoolServes
    PlayersKeepTheirWord
    PositionFollowsPlay
    TimeIsKept
    RecordsOneFile
    DataKeepsItsPlace
    CodecsDeliver
    SinksRender
    ValuesStaySound
    PluginsFit
    SourcesDeliver
PROPERTIES
    PreparedWhenAllReady
CHECK_DEADLOCK FALSE
