CONSTANTS
  a = a
  b = b
  x = x
  y = y
  s1 = s1
  s2 = s2
  Sessions = {s1, s2}
  Readers = {r1}
  Ids = {a, b}
  Bodies = {x, y}
  Bad = Bad
  None = None
  Submissions <- MCSubmissions
  MaxBatch = 2
  MaxPage = 2
  MaxSeq = 3
SPECIFICATION FairSpec
INVARIANT StoreInv
INVARIANT NoSkip
INVARIANT AnswersJustified
PROPERTY WholeDocuments
PROPERTY LogSpec
PROPERTY TransactionsEnd
