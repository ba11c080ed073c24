SPECIFICATION MCSpec
CONSTANTS
  timer = timer
  console = console
  network = network
  disk = disk
  printer = printer
  Timer = timer
  Pollers = {console, network}
  Requesters = {disk, printer}
  Delays <- SomeDelays
  SystemTick = 2
  UserTick = 1
  RandomYield = TRUE
  Chars = {x, y, q, eof}
  Quit = q
  EOF = eof
  MaxTyped = 4
  Machines = {m1, m2}
  Clients = {t1, t2}
  Main = t1
  Senders = {m1}
  Boxes = {0, 1}
  MaxSends = 3
INVARIANTS PendingExact EchoRight PostInv MailInOrder EndsRight
PROPERTIES RequestAnswered EchoedEventually SendReturns MailArrives
