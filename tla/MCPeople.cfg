SPECIFICATION MCSpec
CHECK_DEADLOCK FALSE
SYMMETRY Symmetry
CONSTANTS
  Users = {u1, u2}
  Posts = {p1}
  None = None
  Notices = {n1, n2, n3}
  NoticeTypes = {"like", "tip"}
  Names = {"bob", "bob_1"}
  Suggested <- Candidates
  Asks = {a1, a2, a3}
  Opens = {o1, o2, o3}
  Moves = {m1, m2, m3}
  Repeats = 2
  Chats = {h1, h2}
  Blocks = {b1, b2}
  Sends = {s1}
  Drafts = {d1}
  Clears = {c1, c2}
  MaxClock = 2
  PageSize = 2
  Sockets = {k1, k2, k3}
  MaxDeaths = 1
  Deals = {t1, t2}
  Messages = {g1}
  Replies = {r1, r2}
INVARIANTS
  PeopleTypesOK
  SecondUnreadNeedsOverlap
  SharedNameNeedsOverlap
  ChatsStaySingle
  ClearedStaysCleared
  SessionKnowsSockets
  OpenedByItsDeal
PROPERTY
  DeliveriesSpareBlocked
