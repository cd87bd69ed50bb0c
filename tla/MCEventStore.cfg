CONSTANTS
    Writer = {w1, w2}
    Reader = {r1}
    Backends = {"memory", "file"}
    Limit = 2
    Hours = 2
    HourLength = 2
    TopN = 1
    Seen <- MCSeen
    MaxEvents = 4
    MaxShort = 1
    MaxRestarts = 1
    None = None
SPECIFICATION Spec
SYMMETRY Symmetry
INVARIANTS EventsAreLatest StatsMatchList SeriesIsComplete SavedEventsListed
PROPERTY SpoiltOnlyByShortWrite
