SPECIFICATION Spec
CHECK_DEADLOCK FALSE
CONSTANTS
    w1 = w1
    w2 = w2
    i1 = i1
    i2 = i2
    p1 = p1
    p2 = p2
    p3 = p3
    Rest = Rest
    JobAlone = TRUE
    Workers <- MCWorkers
    Invoices <- TwoInvoices
    Payments <- ThreePayments
    Amount <- Worth
    Turn <- InTurn
    Months <- TwoMonths
    Month <- MonthOf
    Window <- BothMonths
    Party <- OneName
    SamePartner <- NoPairs
    SameAccount <- AccountOfFirst
    Days <- Distance
    NearDays = 7
    StaleDays = 30
    Requests <- SomeRequests
    Schedules <- SomeSchedules
SYMMETRY WorkerSymmetry
INVARIANTS TypeOK PaymentsFit
PROPERTIES JobKeepsDecisions PaidStaysPaid
