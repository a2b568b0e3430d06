\* A client without a filter and one that asks for the worker's batch.
SPECIFICATION FairSpec
CONSTANTS
    api = api  worker = worker  request = request  delivery = delivery
    b1 = b1  c1 = c1  c2 = c2  NoBatch = NoBatch
    Process <- Processes
    Api <- api
    Source <- Sources
    HubOf <- Hubs
    BatchOf <- Batches
    Client <- TwoClients
    Filter <- Filters
    MaxEvents <- Numbers
    BroadcastCap = 2
    SendCap = 1
CHECK_DEADLOCK FALSE
INVARIANTS
    TypeOK
    ClosedOnce
    NoGaps
    
PROPERTIES
    PartingIsNoticed
