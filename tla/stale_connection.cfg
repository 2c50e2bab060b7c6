CONSTANTS
    MaxLate = 1
    MaxServed = 3
SPECIFICATION Spec
INVARIANT TypeOK
INVARIANT PostAtMostOnce
INVARIANT NoEmptyPost
INVARIANT NoStaleFailure
PROPERTY ImplementsExchange
