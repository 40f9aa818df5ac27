SPECIFICATION BlockSpec
CHECK_DEADLOCK FALSE
CONSTANTS
  Users = {u1, u2}
  Posts = {p1}
  None = None
  Chats = {c1, c2}
  Blocks = {b1, b2}
  Sends = {s1}
INVARIANT BlockIsCreated
