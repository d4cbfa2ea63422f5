CONSTANTS
  Requests = {q1, q2}
  PostSlots = 3
  Want = 1
  MaxPosts = 4
  MaxEdits = 1
  MaxRoutes = 2
  MaxRestarts = 1
  PutMayFail = TRUE
  ReadMayFail = TRUE
  NoPost = NoPost
  PerAuthor = 2
  GetMayFail = TRUE
SPECIFICATION MCSpec
INVARIANT OneNumberEach
INVARIANT CalmAdvertisedIsThere
INVARIANT CalmAnsweredIsKept
INVARIANT CalmQuietIsPublished
INVARIANT CalmFeedIsWhole
