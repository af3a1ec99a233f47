----------------------------- MODULE MCVoteThaw -----------------------------
(* VoteThaw with the small constants of MCVote. *)
EXTENDS MCVote, VoteThaw
=============================================================================
