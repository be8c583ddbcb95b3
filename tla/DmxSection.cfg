SPECIFICATION FairSpec
CONSTANTS
  Users = {u1}
  Poll = poll
  NC = 1
  NF = 2
  MaxAlloc = 2
  Callbacks = {{"req","upd"}}
  FreeAll = FALSE
INVARIANTS TypeOK CursorOnList
PROPERTIES FilterPromise OncePerSection FreeEnds
