SPECIFICATION FairSpec
CONSTANTS
    none = none
    Orders <- MCOrders
    Unavailable = {"coupon"}
    MaxStorePurchaseItems = 2
    MaxPurchases = 2
    MaxWaiting = 2
    MaxCommands = 2
    MaxEvents = 3
    MaxCreations = 2
INVARIANTS
    OneAuthorization
    WhatWasOrdered
    SubscriptionKnown
PROPERTIES
    StoreOpensAgain
\* After the last purchase and the last coordinator nothing has to happen.
CHECK_DEADLOCK FALSE
