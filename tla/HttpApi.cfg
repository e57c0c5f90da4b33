\* Two workers on one secret while engines are mounted; one engine call fails.
CONSTANTS
  w1 = w1
  w2 = w2
  m1 = m1
  m2 = m2
  p1 = p1
  e1 = e1
  e2 = e2
  None = None
  Workers = {w1, w2}
  Requests <- HttpRequests
  Budgets <- HttpBudgets
  Stored <- OneSecret
  Paths = {p1}
  Engines = {e1, e2}
  MountPoints = {"secret", "other", "third"}
  Mounters = {m1, m2}
  MountCalls <- HttpMounts
  Initial <- Secrets
  NotJson <- NotJsonText
  EmptyObject <- NoMembers
  Word = 8
  Merged <- json_merge_patch
  Subkeys <- SubkeysOf
SPECIFICATION FairSpec
INVARIANTS PatchBase ErrorsHaveNoEffect DestroyAnswered MountsKept
PROPERTY EveryRequestAnswered
CHECK_DEADLOCK FALSE
