SPECIFICATION Spec
CONSTANTS
  Triggers = {t1, t2}
  MaxIssues = 2
  ChoreFaults = 1
  Creators = {c1, c2}
  NewRepo = {c1}
  AppFaults = 1
  Callers = {v1, v2}
  RowFaults = 1
  Messages = {m1, m2}
  CommandFaults = 2
  Requests = {q1, q2}
  ProposalFaults = 1
  Steps = {s1, s2}
  Editors = {e1, e2}
  MaxPosition = 1
  PlanRequests = {q1, q2}
  MaxContent = 3
  PlanFaults = 1
  Conversations = {d1}
  PlanKey = plan
  Runs = {r1, r2}
  MaxAgentSessions = 1
  MaxMade = 3
  Transactional = {w1, w2}
  Implicit = {w3, w4}
  MaxRetries = 3
  StatementFaults = 1
  ChatSent = {g1, g2}
  MessageFaults = 1
  Attempts = 3
  AssignFaults = 4
  AskedByOne = {p1, p2}
  AskedByOther = {p3}
  ConfigNames = {"preset", "mine"}
  MaxConfigs = 3
  RunsAsked = {n1, n2}
  Cancels = {u1, u2}
  GroupRequests = {j1, j2}
  RowsEach = 2
  RecordFaults = 2
  Workers = 3
  MainFaults = 2
  SubBranches = {b1}
  OwnBranches = {b2}
  OtherBranches = {}
  Clicks = {k1, k2}
  CleanupChanges = 1
  CleanupFaults = 1
  SignalMessages = {h1, h2, h3}
  MaxOffers = 2
  SignalFaults = 2
  LinkUsers = {o1, o2}
  LinkPolls = {l1, l2}
  Mails = {i1}
  LinkFaults = 1
INVARIANTS OneInstance CreationsHold ProposalsHold ChatHolds  CopilotHolds CleanupIsSafe SignalHolds
PROPERTIES DeletionsHold
CHECK_DEADLOCK FALSE
