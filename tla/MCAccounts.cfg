SPECIFICATION AccountsSpec
CONSTANTS
  h1 = h1
  h2 = h2
  b1 = b1
  Tabs = {h1, h2}
  Browsers = {b1, "b2"}
  Mailboxes = {"m1", "m2"}
  Spellings <- Typed
  MaxUsers = 2
  MaxSessions = 2
  MaxClicks = 3
  Instances = {h1, h2}
  Limit = 1
  Window = 2
  Burst = 1
  MaxSkew = 1
  MaxTime = 4
  Calls = {h1, h2}
  Users = {"u1", "u2"}
  Staff = {"u2"}
  Stars = {1, 5}
  MaxReviews = 2
  Requests = {h1, h2}
  Roles = {"user", "moderator", "admin"}
  Statuses = {"active", "deprecated"}
  MaxAudits = 3
  Clicks = {h1, h2}
  Apis = {"a1"}
  MaxCollections = 2
SYMMETRY Symmetry
INVARIANTS
  AccountsSound
  ActsAsShown
  LimitsHold
  ReviewsSound
  ModerationSound
  LibrarySound
CHECK_DEADLOCK FALSE
