\* Two pumps and one eTIMS batch after the same invoice (an ordinary event is
\* the case without the batch); one loop crashes, one COMPLETED cannot be written.
SPECIFICATION FairSpec
CONSTANTS
  Events = {i1}
  Invoices = {i1}
  Pumps = {u1, u2}
  Batches = {b1}
  MaxAttempts = 3
  MaxCrashes = 1
  MaxLostWrites = 1
  None = None
INVARIANTS
  TypeOK
  OneDeliverer
  AttemptsAreTrue
  DeliveredOnce
PROPERTIES
  ImplementsWorkQueue
  EventsSettle
