SPECIFICATION ReferralSpec
CONSTANTS
    Accounts = {a1, a2}
    Amounts = {1}
    Refs = {t1, t2, t3}
    t1 = t1
    t2 = t2
    t3 = t3
    TripOf <- MCTripOf
    Threshold = 2
    MaxRewards = 1
    Bonus = 1
\* Each of these properties is refuted, whichever is checked alone.
INVARIANTS
    RewardedOnce
    MinimumOfTrips
CHECK_DEADLOCK FALSE
