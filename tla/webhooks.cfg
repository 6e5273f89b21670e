SPECIFICATION LiveSpec
CONSTANTS
    e1 = e1
    e2 = e2
    h1 = h1
    Events = {e1, e2}
    Hooks = {h1}
    Deliveries <- MCDeliveries
    Eventful <- MCEventful
    MaxRetries = 2
    MaxTries = 3
    FailLimit = 2
    Keep = 1
    MaxTroubles = 1
INVARIANTS TypeOK OneTryAtATime DeletedStaysSilent FailuresAreReal BooksAreExact
PROPERTIES KeepsContract KeepsNewest DeliverySettles EventIsDelivered
CHECK_DEADLOCK FALSE
