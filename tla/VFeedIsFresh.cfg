CONSTANTS
  Requests = {q1}
  PostSlots = 2
  Want = 1
  MaxPosts = 3
  MaxEdits = 0
  MaxRoutes = 1
  MaxRestarts = 0
  PutMayFail = FALSE
  ReadMayFail = FALSE
  NoPost = NoPost
  PerAuthor = 2
  GetMayFail = FALSE
SPECIFICATION MCSpec
INVARIANT CalmFeedIsFresh
