CONSTANTS
  Users = {u1, u2}
  Author = u1
  Hints = {"none", "update"}
  BillingStatuses = {"completed"}
  VoteChangesMax = 1
  BillingStatusChangesMax = 1
  VotesPageSize = 1
  MaxLeaves = 4
  MaxComments = 2
  MaxEvents = 1
SPECIFICATION Spec
CHECK_DEADLOCK FALSE
INVARIANTS
  WritesAreIndexed
  CommentsAreReadable
  DeletedTextIsGone
  PagesPartitionVotes
  ApprovedWritesAreInUpdateThreads
