\* Two clients and three orders: orders that overlap each other, and a client that
\* comes or leaves between any two sends.
CONSTANTS
  Conns = {c1, c2}
  Orders = {o1, o2, o3}
  NoConn = NoConn
  NoOrder = NoOrder
SPECIFICATION FairSpec
INVARIANT SeenIsSegment
PROPERTIES ImplementsFeed JamIsForEver PublishReturns LiveUpdates
\* Everything is published and every client gone, or the loop is jammed.
CHECK_DEADLOCK FALSE
