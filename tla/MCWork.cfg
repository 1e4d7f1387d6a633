SPECIFICATION WorkSpec
CONSTANTS
  orders = orders
  stock = stock
  Comps = {orders, stock}
  Receiving = {stock}
  Elsewhere = {stock}
  Operations = {"read", "add"}
  Served <- Before
  Theirs <- After
  RESENDS = 1
  TRIES = 1
  Messages = 2
  Rounds = 1
  r1 = r1
  r2 = r2
  Replicas = {r1, r2}
  List = 2
  Steps = 2
  LEASE = 1
  MaxCrashes = 1
  Copies = {r1, r2}
  Program <- Onboard
  Answers = {1, 2}
  Place <- KeyOrder
  PAGE = 1
  Attempts = 2
  Absent = 0
INVARIANTS WorkOK NotWaitingOnSealed AfterTheOneBefore OneRunner CopiesAgree NotAskedAgain OneIdentity
PROPERTIES TeardownEnds TakenUp EveryoneServes
CHECK_DEADLOCK FALSE
