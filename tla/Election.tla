------------------------------ MODULE Election ------------------------------
(***************************************************************************)
(* The election of producers: every UPDATE_CYCLE blocks onblock offers the *)
(* chain the registered producers with the most votes, without those that  *)
(* are banned (removebp) or punished, and the chain passes an offer        *)
(* through its stages, proposed, pending and active (onblock.cpp,          *)
(* producer.cpp). Also setemergency, which counts over the active schedule.*)
(*                                                                         *)
(* How votes move and how a producer comes to be punished are in Vote and  *)
(* Punish: here both change at any time.                                   *)
(***************************************************************************)
EXTENDS Integers, FiniteSets, SequencesExt

CONSTANTS
    Producer,         \* names, ordered as numbers are
    NUM_OF_TOP_BPS,   \* producers in a schedule
    UPDATE_CYCLE,     \* blocks between elections
    Key,              \* block signing keys
    Stake,            \* values of total_staked
    FirstProducers,   \* registered at the start
    Removable,        \* producers removebp is called for
    Punishable,       \* producers that are punished and bailed
    Caller,           \* producers that call setemergency
    MaxUntilOpen      \* bound: blocks the first election may be put off by

ASSUME ElectionAssumption ==
    /\ IsFiniteSet(Producer) /\ Producer \subseteq Nat \ {0}
    /\ NUM_OF_TOP_BPS \in Nat \ {0} /\ UPDATE_CYCLE \in Nat \ {0}
    /\ Stake \subseteq Nat /\ 0 \in Stake
    /\ FirstProducers \subseteq Producer /\ Cardinality(FirstProducers) >= NUM_OF_TOP_BPS
    /\ Removable \subseteq Producer /\ Punishable \subseteq Producer
    /\ Caller \subseteq Producer
    /\ MaxUntilOpen \in Nat
\* Some producer can always be elected.
ASSUME CandidateAssumption == FirstProducers \ (Removable \cup Punishable) # {}

VARIABLES
    cycle,       \* current_block_num of the last onblock, modulo UPDATE_CYCLE
    untilOpen,   \* blocks until the one configured under update.bp, 0 from it on
    bps,         \* rows of the registered producers
    blackpro,    \* producers banned by removebp
    punished,    \* producers whose bp_status is PUNISHED
    emergency,   \* chainstatus
    proposed, pending, active    \* the chain's schedules

registryVars == <<bps, blackpro, punished>>
schedules == <<proposed, pending, active>>
vars == <<cycle, untilOpen, registryVars, emergency, schedules>>

Registered == {p \in Producer : bps[p].exists}

\* A schedule has the names and their keys; the chain has them in the order
\* of names, so a set tells all.
Entry(p) == <<p, bps[p].block_signing_key>>
Names(schedule) == {e[1] : e \in schedule}
NoSchedule == {}

\* The chain is in an emergency only while more than two thirds of a
\* schedule's producers call it one, though the schedule may have changed
\* since they were counted (producer.cpp:48).
EmergencyCalled ==
    emergency => Cardinality({p \in Registered : bps[p].emergency}) > (NUM_OF_TOP_BPS * 2) \div 3

TypeOK ==
    /\ cycle \in 0..(UPDATE_CYCLE - 1) /\ untilOpen \in 0..MaxUntilOpen
    /\ bps \in [Producer -> [exists : BOOLEAN, block_signing_key : Key,
                             total_staked : Stake, emergency : BOOLEAN]]
    /\ blackpro \subseteq Producer /\ punished \subseteq Producer
    /\ emergency \in BOOLEAN /\ EmergencyCalled
    /\ \A schedule \in {proposed, pending, active} :
          /\ schedule \subseteq Registered \X Key
          /\ Cardinality(schedule) <= NUM_OF_TOP_BPS
          /\ Cardinality(Names(schedule)) = Cardinality(schedule)
    /\ active # NoSchedule

Init ==
    /\ cycle = 0 /\ untilOpen \in {0, MaxUntilOpen}
    /\ \E key \in Key :
          bps = [p \in Producer |-> [exists |-> p \in FirstProducers, block_signing_key |-> key,
                                     total_staked |-> 0, emergency |-> FALSE]]
    /\ blackpro = {} /\ punished = {}
    /\ emergency = FALSE
    /\ proposed = NoSchedule /\ pending = NoSchedule
    /\ \E first \in SUBSET FirstProducers :
          Cardinality(first) = NUM_OF_TOP_BPS /\ active = {Entry(p) : p \in first}

-----------------------------------------------------------------------------
(* The registry *)

\* updatebp; the row of a new producer starts without votes
UpdateBp(p, key) ==
    /\ bps' = [bps EXCEPT ![p] = [@ EXCEPT !.exists = TRUE, !.block_signing_key = key]]
    /\ UNCHANGED <<cycle, untilOpen, blackpro, punished, emergency, schedules>>

\* Votes (module Vote) bring total_staked of a producer to s.
Voted(p, s) ==
    /\ bps[p].exists
    /\ bps' = [bps EXCEPT ![p].total_staked = s]
    /\ UNCHANGED <<cycle, untilOpen, blackpro, punished, emergency, schedules>>

\* removebp, of a registered producer or of any other name; nothing takes a
\* name off the list
RemoveBp(p) ==
    /\ blackpro' = blackpro \cup {p}
    /\ UNCHANGED <<cycle, untilOpen, bps, punished, emergency, schedules>>

\* exec_punish_bp, and bailpunish or monitorevise (module Punish)
Punished(p) ==
    /\ punished' = (punished \ {p}) \cup ({p} \ punished)
    /\ UNCHANGED <<cycle, untilOpen, bps, blackpro, emergency, schedules>>

EmergencyOf(rows) ==
    Cardinality({p \in Names(active) : rows[p].emergency}) > (NUM_OF_TOP_BPS * 2) \div 3

\* setemergency; also by a producer that is not in the schedule
SetEmergency(p, value) ==
    /\ bps[p].exists /\ Names(active) \subseteq Registered
    /\ bps' = [bps EXCEPT ![p].emergency = value]
    /\ emergency' = EmergencyOf(bps')
    /\ UNCHANGED <<cycle, untilOpen, blackpro, punished, schedules>>

-----------------------------------------------------------------------------
(* update_elected_bps *)

CandidatesBanned == Registered \ punished
\* is_producer_in_blacklist and is_producer_in_punished are skipped
Candidates == Registered \ (blackpro \cup punished)

\* vote_schedule[i].second. The loop reads up to NUM_OF_TOP_BPS entries,
\* also behind the end of the vector: there is the memory it has reserved,
\* which nothing wrote before and a contract's allocator hands out as zeros.
StakeAt(top, i) == IF i <= Len(top) THEN bps[top[i]].total_staked ELSE 0

BeforeLower(top, p, i) == StakeAt(top, i) < bps[p].total_staked
\* The place i where the loop inserts p: the first with no more votes.
Before(top, p, i) == StakeAt(top, i) <= bps[p].total_staked

\* The loop body: what it makes of the vector for the row of p.
Insert(p) == [top \in Seq(Producer) |->
    LET places == {i \in 1..NUM_OF_TOP_BPS : Before(top, p, i)}
        inserted == InsertAt(top, Min(places), p)
    IN  IF Len(top) >= NUM_OF_TOP_BPS /\ StakeAt(top, Len(top)) > bps[p].total_staked
        THEN top
        ELSE IF places = {} THEN top
        ELSE SubSeq(inserted, 1, Min({Len(inserted), NUM_OF_TOP_BPS}))]

\* vote_schedule after the rows of the producers named up to n, which the
\* loop takes in the order of names
VoteSchedule ==
    LET after[n \in 0..Max(Producer)] ==
            IF n = 0 THEN <<>>
            ELSE IF n \in Candidates THEN Insert(n)[after[n - 1]] ELSE after[n - 1]
    IN  after[Max(Producer)]
ElectedAll == {Entry(p) : p \in Candidates}
Elected == {Entry(p) : p \in ToSet(VoteSchedule)}

\* set_proposed_producers (external): the chain takes one proposal at a
\* time, and none equal to the schedule it will use next or of no producers.
SetProposedProducers(schedule) ==
    LET next == IF pending # NoSchedule THEN pending ELSE active
    IN  proposed' = IF proposed = NoSchedule /\ schedule # next THEN schedule ELSE proposed

ShortAnyway == FALSE
\* onblock returns at once when the schedule is too short.
Short == Cardinality(active) < NUM_OF_TOP_BPS

\* onblock, as far as the election goes
OnBlock ==
    LET current == (cycle + 1) % UPDATE_CYCLE
        wait == IF untilOpen > 0 THEN untilOpen - 1 ELSE 0
    IN  /\ cycle' = current /\ untilOpen' = wait
        /\ IF ~Short /\ current = 0 /\ wait = 0
           THEN SetProposedProducers(Elected)
           ELSE UNCHANGED proposed
        /\ UNCHANGED <<registryVars, emergency, pending, active>>

\* The chain (external): a proposal whose block cannot be undone any more
\* becomes pending, ...
BecomePending ==
    /\ proposed # NoSchedule /\ pending = NoSchedule
    /\ pending' = proposed /\ proposed' = NoSchedule
    /\ UNCHANGED <<cycle, untilOpen, registryVars, emergency, active>>

\* ... and is used when the block that made it pending cannot be undone.
BecomeActive ==
    /\ pending # NoSchedule
    /\ active' = pending /\ pending' = NoSchedule
    /\ UNCHANGED <<cycle, untilOpen, registryVars, emergency, proposed>>

Next ==
    \/ \E p \in Producer, key \in Key : UpdateBp(p, key)
    \/ \E p \in Producer, s \in Stake : Voted(p, s)
    \/ \E p \in Removable : RemoveBp(p)
    \/ \E p \in Punishable : Punished(p)
    \/ \E p \in Caller, value \in BOOLEAN : SetEmergency(p, value)
    \/ OnBlock \/ BecomePending \/ BecomeActive

\* Blocks go on being produced, each runs onblock, and with them earlier
\* ones become irreversible. Nobody has to call an action.
Spec == Init /\ [][Next]_vars
             /\ WF_vars(OnBlock) /\ WF_vars(BecomePending) /\ WF_vars(BecomeActive)

-----------------------------------------------------------------------------
Outranks(q, p) ==
    \/ bps[q].total_staked > bps[p].total_staked
    \/ bps[q].total_staked = bps[p].total_staked /\ q > p

\* The insertion by index, with its reads behind the end of the vector and
\* its early continue, elects exactly the candidates with the most votes,
\* NUM_OF_TOP_BPS of them or all when there are fewer; of equals the later
\* names (onblock.cpp:132).
ElectedAreBest ==
    ToSet(VoteSchedule) =
        {p \in Candidates :
            Cardinality({q \in Candidates : Outranks(q, p)}) < NUM_OF_TOP_BPS}

\* A banned producer leaves the schedule, whatever votes, registrations and
\* punishments go on, unless the schedule has become too short for onblock.
BannedLeave ==
    \A p \in Producer : (p \in blackpro) ~> (p \notin Names(active) \/ Short)

\* Once a schedule with too few producers is in use and no other is on its
\* way, onblock never elects again: the schedule is final, whoever registers
\* and is voted for (onblock.cpp:21).
ShortIsFinal ==
    [][Cardinality(active) < NUM_OF_TOP_BPS /\ proposed = NoSchedule /\ pending = NoSchedule
         => UNCHANGED schedules]_vars
=============================================================================
