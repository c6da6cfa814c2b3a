CONSTANTS
  Prices = {"k1", "k2", "k3"}
  Promotions = {"m1"}
  Amounts = {1, 2}
  Currencies = {"eur", "usd"}
  Unknown = "unknown"
  Qualities = {100, 60}
  MinJump = 3
  MassChange = 2
  Window = 1
  Gaps = {1, 2}
  General = {"g"}
  Answering = {"a"}
  Own = {"o"}
  Phrases = {"w"}
  NoPhrase = "no phrase"
  Undefined = "undefined"
  Misses = 2
  ManyChanges = 2
  Pages = {"p1", "p2"}
  Kinds = {"price", "text"}
  Sizes = {2, 3}
  OwnPoints = {2}
  Raisers = {"r1", "r2"}
  Cooldown = 1
  Lookback = 1
  MaxSignals = 3
  MaxDays = 2
  Rivals = {"c1", "c2", "c3"}
  Moves = {"up"}
  Refreshers = {"r1", "r2"}
  WindowDays = 1
  MinHistory = 1
  MinObserved = 3
  MinAffected = 2
  MinShare = 60
  PatternDays = 3
  MaxRows = 2
  Sites = {"s1", "s2"}
  Percents = {5, 70}
  DayLength = 3
  ShownFor = 2
  HalfLife = 2
  Corroborating = 3
  Repeating = 4
  MaxSignalled = 3
  MaxTime = 5
  Origins = {"o1", "o2"}
  Readers = {"r1", "r2"}
  MaxRedirects = 1
  MaxChunks = 1
  RobotsTtl = 1
  CacheSize = 1
  MaxClock = 2
  Browsers = {"b1", "b2"}
  Checks = {"q1", "q2"}
  Sessions = {"s1", "s2"}
  NoSession = "none"
  Attempts = 1
  WiderBy = 2
  LoginWindow = 2
  Absolute = 3
  Idle = 2
  TouchEvery = 1
  MaxHours = 5
  Competitors = {"c1", "c2"}
  Urls = {"u1", "u2"}
  Products = {"k"}
  Period = 1
  LastTick = 4
  MaxEvents = 4
  PlanNames = {"a", "b", "c"}
  Sums = {1, 2}
  Coins = {"eur", "usd"}
  Discounts = {20}
  MaxBlocks = 5
  MaxNodes = 2
  Competitor = {"c1", "c2", "c3"}
  MonitoredUrl = {"u1", "u2"}
  Posts = {"p1", "p2"}
  CompetitorsPerOrg = 1
  UrlsPerOrg = 1
  MaxSnapshots = 1
  Connection = {"n1", "n2"}
  Screens = {"b1", "b2"}
  MaxPending = 2
  MaxUpdates = 3
  Words = {"x", "y"}
  MaxWords = 5
  MaxEdits = 4
  ContextWords = 2
  MergeGap = 1
  Sources = {"u1", "u2"}
  Cadences = {1, 3}
  StaleMultiple = 1
  StaleMin = 2
  PartialMin = 2
  RecentWindow = 2
  RecentRows = 2
  RecentDays = 2
  StopAfter = 2
  StopFailures = 2
  MaxToday = 4
  MaxAttempts = 5
  Admins = {"b1", "b2"}
  Hosts = {"h1"}
  Secrets = {"p1"}
  MaxUpserts = 2
  MaxTests = 1
  Firms = {1}
  BundleFirms = 1
  BundleEvents = 1
  BundleItems = 1
  CitesPerClaim = 1
  Passages = {"p"}
  AskedKeys = {"a", "b"}
  MaxDetected = 1
SPECIFICATION PagesSpec
PROPERTY KeysKeepTheirPrice
CHECK_DEADLOCK FALSE
