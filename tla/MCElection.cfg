\* Schedules of two of three producers, one registered later; the first can
\* not be banned, so a candidate is always left.
CONSTANTS
    Producer = {1, 2, 3}
    NUM_OF_TOP_BPS = 2
    UPDATE_CYCLE = 2
    Key = {k1}
    Stake = {0, 1, 2}
    FirstProducers = {1, 2}
    Removable = {2, 3}
    Punishable = {2}
    Caller = {1, 2}
    MaxUntilOpen = 1
SPECIFICATION Spec
INVARIANTS TypeOK ElectedAreBest
PROPERTIES BannedLeave ShortIsFinal
CHECK_DEADLOCK FALSE
