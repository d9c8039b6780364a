\* The payout of an escrow order and the adapter as it is; workers live.
SPECIFICATION ExecutionSpec
CONSTANTS
    Invoices = {}
    DirectOrders = {}
    Months = 0
    Net = 2
    OwnAmount = 2
    Threshold = 2
    Transfers = 1
    AdapterFits = FALSE
PROPERTY UnsentIsFollowedUp
CHECK_DEADLOCK FALSE
