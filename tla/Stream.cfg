SPECIFICATION FairSpec
CONSTANTS
    n1 = n1
    n2 = n2
    b1 = b1
    byId = byId
    byBatch = byBatch
    Notif = {n1, n2}
    Batches = {b1}
    NoBatch = NoBatch
    BatchOf <- OneBatch
    Clients = {byId, byBatch}
    KeyOf <- Watched
    Capacity = 1
    MaxEvents = 2
INVARIANTS TypeOK NoSendOnClosed StreamInOrder
PROPERTIES PublishReturns GoneIsForgotten
