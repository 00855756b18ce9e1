SPECIFICATION Spec
CONSTANTS
  c1 = c1
  c2 = c2
  l1 = l1
  l2 = l2
  h1 = h1
  h2 = h2
  Clients <- MCClients
  Loopers <- MCLoopers
  Handlers <- MCHandlers
  MaxIds = 2
  MaxPosts = 2
  NULL = NULL
INVARIANTS DeliveredRight RepliesArrive
SYMMETRY Interchangeable
CHECK_DEADLOCK FALSE
