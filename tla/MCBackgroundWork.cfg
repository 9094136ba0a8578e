\* Two overlapping runs over batches of two out of three orders.
SPECIFICATION FairSpec
CONSTANTS
  Orders = {o1, o2, o3}
  Runs = {w1, w2}
  Batch = 2
  MaxFaults = 1
PROPERTIES
  Refreshed
  Delivered
