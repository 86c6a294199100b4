CONSTANTS
  GlobalDocs <- MCGlobalDocs
  ProjectDocs <- MCProjectDocs
  Rules = {"r3"}
  Builds = {"other"}
  Edits = 3
  Chats = {c1, c2}
  FirstChats = {c1}
  NoChat = NoChat
  Acts = 3
  Batches <- MCBatches
  RecentBudget = 2
  Pictures = {TRUE}
  HistoryBound = 5
  ClockBound = 6
  Flows = {"f1", "f2"}
  Tokens = {"a", "b"}
  ProviderKinds = {"anthropic", "openai", "chatgpt"}
  SendBound <- MCSendBound
  Callers = {r1, r2}
  Logins = {l1}
  Ports = {1455}
  MintBound = 3
  AgeBound = 1
  Formats = {"anthropic", "openai", "chatgpt"}
  MessageBound = 4
  CallBound = 2
  Workers = {w1, w2}
  Start <- MCStart
  Plans <- MCPlans
  Drafts <- MCDrafts
  Secrets = {"s"}
  CrashBound = 1
  Jobs = {j1, j2}
  Headlines = {"a"}
  PromptBound = 2
  OutputCap = 2
  ReadSize = 2
  SpeechBound = 3
  ExitCodes = {0}
  Sessions = {"s1", "s2"}
  Threads = {"t1", "t2"}
  Fields = {"yolo"}
  OldFiles <- MCOldFiles
  Lists <- MCLists
  OpBound = 2
  KillBound = 1
  MaxSteps = 4
  MaxTodos = 0
  MaxTurns = 2
  Compacting = TRUE
  Continues = TRUE
SPECIFICATION ServicesSpec
VIEW PartView
CHECK_DEADLOCK FALSE
INVARIANTS
  ServicesTypeOK
  AuthorityAccepted
  EngineOutlivesJoined
  SessionsFollowed
  RequestFaithful
  SummaryTrue
  StreamTruthful
  SignInKept
  WireFaithful
  FilesSafe
  TitleJobsSettle
  CommandHonest
  StoreKept
  CompactionPaced
