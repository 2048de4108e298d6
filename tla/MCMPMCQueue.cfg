\* Two threads on two slots, long enough for every slot to be reused.  Liveness:
\* no symmetry.
SPECIFICATION FairSpec
CONSTANTS
  Threads = {t1, t2}
  Data = {a, b}
  NoData = NoData
  NoThread = NoThread
  Capacity = 2
  MaxTickets = 4
INVARIANTS TypeOK TicketDiscipline NoDataRace PopsInOrder DropDrains
PROPERTIES FullIsJustified EmptyIsJustified ImplementsBoundedQueue LockFreedom
CHECK_DEADLOCK FALSE
