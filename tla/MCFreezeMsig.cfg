\* Two producers, one or both in the schedule, one open proposal at a time.
CONSTANTS
    x = x  n1 = n1  p1 = p1  p2 = p2  c1 = c1  c2 = c2  a1 = a1
    Committer = {c1, c2}
    Account = {a1}
    NoCommitter = NoCommitter
    MaxAdded = 1
    Additions <- FirstAdds
    Transaction <- Unlock1OrActivate
    Proposal <- OneProposal
    Approver = {p1, p2}
    Requests <- BothAsked
    Producers <- OneOrTwo
    Legacy <- OldRow
    Proposable <- OneExpires
    MaxTime = 2
SPECIFICATION SystemSpec
INVARIANTS SystemTypeOK ReviewedTableKept
PROPERTIES ReleasedByConfirmation ImplementsFreezeList ExecutedByQuorum SystemActsOnce
CHECK_DEADLOCK FALSE
