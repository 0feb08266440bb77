SPECIFICATION TablesSpec
CONSTANTS
  Clients = {s1, s2}
  MacOf <- MCMacOf
  Data = {d1, d2}
  NotSeen = NotSeen
  NoPointer = NoPointer
  Retention = 2
  MaxRound = 1
  MaxNow = 4
  Callers = {s1, s2}
  Jobs = {j1}
  Second = 2
  Limit = 2
  MaxTime = 3
  MaxCall = 2
  MaxSlack = 2
  Unset = Unset
  Maintenances = {m1}
  Kinds = {"get_fan", "gnms_ping"}
  InPlace = {"gnms_ping"}
  Items <- MCItems
  Results <- MCResults
  Savers = {s1, s2}
  MaxBatch = 2
  None = None
  Requests = {s1, s2}
  Overrides = {1}
  Default = Default
  Targets = {h1, h2}
  Silent = {h2}
  Slots = 1
  Retries = 1
  MaxAttempts = 3
  Hostnames = {h1, h2}
  Addresses = {i1}
  MaxRows = 2
  Empty = Empty
  New = New
  Devices = {d1, d2}
  Names <- MCNames
  CanonOf <- MCCanonOf
  MaxLinks = 2
  NoName = NoName
  NoLink = NoLink
  CategoryNames = {n1, n2}
  Macs = {x1}
  MaxCategories = 2
  MaxRowsMade = 2
  MaxLines = 2
  Editors = {s1, s2}
  Hosts = {h1}
  Strict = {}
  Lenient = {"transceiver"}
  TypeOf <- MCTypeOf
  Viewers = {s1, s2}
  MaxCount = 2
  MaxStored = 3
  Blank = Blank
  Never = Never
  Projects = {m1}
  MaxUsers = 3
  NoProject = NoProject
  Keep = Keep
  Patterns = {"7.1", "patch"}
  PackagesWith <- MCPackagesWith
  PlanParts <- MCPlanParts
  MaxPlans = 2
  NoPlan = NoPlan
  PortReports <- MCPortReports
  PackageLists <- MCPackageLists
  NeighborLists <- MCNeighborLists
  Terminals = {t1, t2}
  p1 = p1
  s1 = s1
  s2 = s2
  g1 = g1
  Sightings <- MCSightings
  Nowhere = Nowhere
  NoRecord = NoRecord
  Marker = Marker
  Members = {t1}
  Interval = 2
  Window = 2
  KeptFor = 2
  MaxTick = 3
  MaxSaves = 2
  Regenerators = {s1, s2}
  Candidates <- MCCandidates
  NoSpeed = NoSpeed
  Nobody = Nobody
  Owners = {c1}
  MaxCandidates = 3
  Attributes = {n1, n2}
  Settings = {d1, d2}
  NoSetting = NoSetting
  Fresh = 1
  MaxClock = 4
  MaxObserved = 3
  CaseIds = {1, 2, 3}
  MacRank <- MCMacRank
  TagNames = {1}
  Persons = {c1, c2}
  Admin = c1
  NoPing = NoPing
  NotAsked = NotAsked
  MaxNotes = 2
  Titles = {n1, n2}
  Untitled = Untitled
  MaxCategoryIds = 4
  MaxContacts = 2
  MaxImported = 2
  PingRows <- MCPingRows
  Served = {"a"}
  MaxListed = 2
  NoSide = NoSide
  Unanswered = Unanswered
  ListedIds = {1, 2, 3}
  ListMacs = {1, 2}
  ListIps = {"i1", "i2"}
  ListTenants = {"a", "b"}
  Groups = {g1, g2}
  PageLength = 1
  NoClient = NoClient
  KindIds = {1, 2}
  ShelfIds = {1, 2, 3}
INVARIANTS
  RecentPointerHasRow
  ActiveTimeCounted CurrentHasBatch CleanCacheInForce EmptyIsExplained
  DevicesDistinct EndsUsedOnce MembersOnce GrowthShown OnePM
  ListShown SummariesAgree JudgedAsAsked PlaceIsBest BoardAgrees PingsShown PagesAgree DeletedIsGone
PROPERTIES
  ShowsCurrentView ShowsHistory IgnoreIsPerIndicator ChangesAsObserved LinesLand
SYMMETRY SameSlots
CHECK_DEADLOCK FALSE
