SPECIFICATION StartSpec
CONSTANTS
  m1 = m1  m2 = m2  e1 = e1  e2 = e2
  Chats = {1, 2}
  Models = {m1, m2}
  Embeddings = {e1, e2}
  NoEmbedding = NoEmbedding
  Humans = 2
  MaxFaults = 2
  MaxEdits = 3
INVARIANT TypeOK
PROPERTIES
  IndexIsTrue
  RetriedIndexCatchesUp
CHECK_DEADLOCK FALSE
