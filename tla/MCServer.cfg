\* Two connections on one descriptor, two buffers and a submission ring of one
\* entry, so that every ring and queue fills up.
SPECIFICATION Spec
CONSTANTS
  Fds = {1}
  BufEntries = 2
  TailMod = 4
  SqEntries = 1
  QueueCapacity = 1
  MaxConns = 2
  MaxMsgs = 4
  MaxWrites = 2
  MaxCqes = 3
INVARIANTS TypeOK RequestIntact ReplyIntact StaysOnConnection ConnectionServed ReplicaFollows
CHECK_DEADLOCK FALSE
