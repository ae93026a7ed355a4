SPECIFICATION ServicesSpec
CONSTANTS
    Cities = {"surat", "vadodara"}
    NoArea = "none"
    Ages = {18, 20}
    MaxPictures = 2
    Organizers = {"o1", "o2"}
    Admins = {"a1", "a2"}
    LastDay = 1
    BirthYears = {2003, 2004, 2005}
    ThisYears = {2023, 2024}
    AgeLimits = {18, 19, 20, 21}
    RowIds = {1, 2, 3, 4}
    LastKey = 5
    TicksPerMs = 2
    PageLimit = 2
    MaxTouches = 1
    Parts = 2
    IstOffset = 1
    FirstDay = 3
    FinalDay = 9
    DefaultRangeDays = 2
    MaxRangeDays = 6
    DailyBucketMaxDays = 3
    MaxRecorded = 2
    Limit = 2
    WindowMs = 4
    SecondMs = 3
    LastMs = 12
    MaxBatch = 2
    MaxQueue = 3
    MaxEntries = 6
    Tabs = {t1, t2}
    MaxLogins = 2
    MaxRotations = 2
    MaxLost = 1
INVARIANTS
    PicturesAgree ProfileHonest BadgesTrue
    CandidatesFit PagesComplete TrendsAddUp LimitHolds LogsKept TurnsKeepSession
CHECK_DEADLOCK FALSE
