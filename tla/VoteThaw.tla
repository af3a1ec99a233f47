------------------------------ MODULE VoteThaw ------------------------------
(***************************************************************************)
(* Vote with a history of the unstakings, for what an unstaked amount has  *)
(* to wait.                                                                *)
(***************************************************************************)
EXTENDS Vote

VARIABLE unstakedAt   \* block in which unstaking of a row last grew

Grew(i) == votes'[i].unstaking > votes[i].unstaking

HInit == Init /\ unstakedAt = [i \in Tables \X Voter \X BP |-> 0]
HNext ==
    /\ Next
    /\ unstakedAt' = [i \in Tables \X Voter \X BP |->
                        IF Grew(i) THEN block ELSE unstakedAt[i]]
HSpec == HInit /\ [][HNext]_<<vars, unstakedAt>>

\* What is unstaked waits: no token becomes available from an unstaking
\* amount unless more than FROZEN_DELAY blocks have passed since that amount
\* last grew, whether by vote, vote4ram or outfixvote. (A votefix may take it
\* earlier, into a new lock.)
ThawDelay ==
    [][\A t \in Tables, v \in Voter, b \in BP :
          /\ votes'[<<t, v, b>>].unstaking < votes[<<t, v, b>>].unstaking
          /\ available'[v] > available[v]
          => block > unstakedAt[<<t, v, b>>] + FROZEN_DELAY]_<<vars, unstakedAt>>
=============================================================================
