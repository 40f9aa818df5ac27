SPECIFICATION MCSpec
CHECK_DEADLOCK FALSE
CONSTANTS
  Users = {u1, u2}
  Posts = {p1}
  None = None
  Tips = {t1, t2}
  Amounts = {1, 2}
  Deposit = 2
  Calls = {c1, c2, c3}
  Events = {"tip1", "mint", "sale1", "sale2", "sent", "tip2"}
  Block <- EventBlock
  Type <- EventType
  Loops = {l1, l2}
  BlockLimit = 2
  ItemLimit = 2
  MaxBlock = 3
  MaxTicks = 2
  NoEvent = NoEvent
  Mints = {m1, m2}
  Categories = {"music"}
  Visits = {v1, v2, v3}
  Unit = 1
  Files = {f1, f2}
  Attempts = 2
  MaxDeaths = 1
  Fans = {a1}
  Works = {w1, w2, w3}
  Offers = {o1, o2}
  Terms = {"month"}
  Purchases = {s1, s2}
  Confirms = {k1, k2}
  Looks = {i1, i2}
  Held = {"subscription"}
INVARIANTS
  ContentTypesOK
  OverdraftNeedsOverlap
  TipsConserved
  MarksAddUp
  ReactionCountsAddresses
  NothingLost
  ReplayNeedsTrouble
  OwnerIsLatest
  NothingPassesTransfers
  VisitsAddUp
  FeedsShowVisible
  UploadsKept
  LiveNeedsLivepeer
  SecondActiveNeedsPending
  PurchaseCountsOnce
  ImageFollowsTitles
PROPERTY
  DoneStays
