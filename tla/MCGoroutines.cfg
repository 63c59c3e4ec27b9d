SPECIFICATION GoroutinesSpec
CONSTANTS
  N = 4
  task = task
  timed = timed
  late = late
  ruby = ruby
  emma = emma
  c1 = c1
  c2 = c2
  Plain <- OnePlain
  Timed <- TwoTimed
  Inputs <- TimedFirst
  Clients <- TwoClients
  MaxPaintings = 2
  MaxSales = 3
  Books <- TwoBooks
  Readers <- TwoClients
  MaxSide = 7
  Goroutines <- TwoClients
INVARIANTS
  TypesOK
  OneAnswer
  SellsEachOnce
  AnswersAgree
PROPERTIES
  FuturesAnswered
  TikTakReturns
  TreasureIsFound
CHECK_DEADLOCK FALSE
