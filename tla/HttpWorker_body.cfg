SPECIFICATION Spec
CONSTANTS
  c1 = c1  c2 = c2  c3 = c3  w1 = w1  w2 = w2
  Clients <- TwoClients
  Workers <- OneWorker
  Requests <- OnlyPost
  Conduct = {"segments"}
  Capacity = 8
  MaxHeaders = 2
  MaxOpen = 2
INVARIANTS OwnBody
