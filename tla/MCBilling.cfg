\* One invoice, one direct order, the payout of an escrow order and a monthly
\* one of the same balance, each with a transfer and its retry.
SPECIFICATION MCSpec
CONSTANTS
    Invoices = {i1}
    DirectOrders = {o1}
    Months = 1
    Net = 2
    OwnAmount = 2
    Threshold = 2
    Transfers = 2
    AdapterFits = TRUE
INVARIANTS
    BillingSafe
    RowsFollowStripe
    BooksOnlySentMoney
PROPERTY SentPayoutEnds
CHECK_DEADLOCK FALSE
