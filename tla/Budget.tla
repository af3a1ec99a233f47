------------------------------- MODULE Budget -------------------------------
(***************************************************************************)
(* eosio.budget: a committee votes on motions that ask for core tokens,    *)
(* and again on each takecoin of a passed motion, which is paid from the   *)
(* contract's balance when it passes. A motion, and a takecoin, carry the  *)
(* list of the members they were put to; a hand-over does not change it.   *)
(*                                                                         *)
(* Titles, contents, memos and budgetconfig, which nothing reads, are left *)
(* out. Quantities are in the core symbol, no other can be paid; they are  *)
(* not checked and may be negative. Members of a committee are distinct.   *)
(***************************************************************************)
EXTENDS Integers, FiniteSets

CONSTANTS
    Proposer,           \* accounts that propose
    Pledge,             \* what each has pledged under block.out
    MIN_BUDGET_PLEDGE,  \* proposals need more
    Committee,          \* the committees a hand-over may appoint
    APPROVE_BLOCK_NUM,  \* blocks a motion or takecoin is open
    Asked, Taken,       \* quantities of motions and of takecoins
    Funds,              \* the contract's balance at the start
    MaxBlock, MaxMotion, MaxTakeCoin    \* bounds: last block, largest ids

ASSUME ProposerAssumption == IsFiniteSet(Proposer) /\ Pledge \in [Proposer -> Int]
ASSUME CommitteeAssumption == \A C \in Committee : IsFiniteSet(C) /\ C # {}
ASSUME NumberAssumption ==
    /\ APPROVE_BLOCK_NUM \in Nat /\ Funds \in Nat /\ MIN_BUDGET_PLEDGE \in Nat
    /\ Asked \subseteq Int /\ Taken \subseteq Int
    /\ MaxBlock \in Nat /\ MaxMotion \in Nat /\ MaxTakeCoin \in Nat

VARIABLES
    block,      \* current_block_num()
    committee,  \* the members, {} without a row
    motions,    \* motions rows
    approvers,  \* approvers rows, by proposer and id of the motion
    takecoins,  \* takecoins rows, by proposer and id
    held,       \* the contract's core tokens
    received,   \* what each proposer has been paid
    drawn       \* history: what each motion has asked and what it has paid

tables == <<committee, motions, approvers, takecoins>>
money == <<held, received, drawn>>
vars == <<block, tables, money>>

Member == UNION Committee
Section == {"proposed", "passed", "rejected", "turned down"}   \* 0 to 3

\* The lists of an approvers or takecoins row
Ballot == [requested : SUBSET Member, approved : SUBSET Member, unapproved : SUBSET Member]
IsBallot(b) ==
    /\ b \in Ballot
    /\ b.requested \cap b.approved = {} /\ b.requested \cap b.unapproved = {}
    /\ b.approved \cap b.unapproved = {}
NewBallot == [requested |-> committee, approved |-> {}, unapproved |-> {}]

MotionRow == [proposer : Proposer, quantity : Int, section : Section, end : Nat]
TakeCoinRow == [motion : Nat, quantity : Int, section : Section, end : Nat, ballot : Ballot]

With(f, x, row) == [y \in DOMAIN f \cup {x} |-> IF y = x THEN row ELSE f[y]]
Without(f, x) == [y \in DOMAIN f \ {x} |-> f[y]]
NoRows == [x \in {} |-> x]

TypeOK ==
    /\ block \in Nat /\ committee \subseteq Member
    /\ DOMAIN motions \subseteq Nat
    /\ \A i \in DOMAIN motions : motions[i] \in MotionRow
    /\ DOMAIN approvers = {<<motions[i].proposer, i>> : i \in DOMAIN motions}
    /\ \A k \in DOMAIN approvers : IsBallot(approvers[k])
    /\ DOMAIN takecoins \subseteq Proposer \X Nat
    /\ \A k \in DOMAIN takecoins :
         takecoins[k] \in TakeCoinRow /\ IsBallot(takecoins[k].ballot)
    /\ held \in Nat /\ received \in [Proposer -> Nat]
    /\ DOMAIN drawn = DOMAIN motions
    /\ \A i \in DOMAIN drawn : drawn[i] \in [asked : Int, paid : Nat]

Init ==
    /\ block = 1 /\ committee = {}
    /\ motions = NoRows /\ approvers = NoRows /\ takecoins = NoRows
    /\ held = Funds /\ received = [p \in Proposer |-> 0]
    /\ drawn = NoRows

-----------------------------------------------------------------------------
\* available_primary_key: one above the largest id in use
AvailableKey(ids) == IF ids = {} THEN 0 ELSE 1 + CHOOSE i \in ids : \A j \in ids : j <= i

HasPledge(p) == Pledge[p] > MIN_BUDGET_PLEDGE

Size(b) == Cardinality(b.requested) + Cardinality(b.approved) + Cardinality(b.unapproved)
AgreedByHalf(b) == Cardinality(b.approved) > Size(b) \div 2
Agreed(b) == Cardinality(b.approved) > (Size(b) * 2) \div 3
Refused(b) == Cardinality(b.unapproved) > Size(b) \div 3

AfterYesAsked(b, member) == [b EXCEPT !.approved = @ \cup {member}]
AfterYes(b, member) ==
    [b EXCEPT !.requested = @ \ {member}, !.approved = @ \cup {member}]
AfterNo(b, member) ==
    [b EXCEPT !.requested = @ \ {member}, !.unapproved = @ \cup {member}]

\* handover, by the contract itself
HandOver(C) ==
    /\ committee' = C
    /\ UNCHANGED <<block, motions, approvers, takecoins, money>>

Propose(p, quantity) ==
    LET id == AvailableKey(DOMAIN motions)
    IN  /\ HasPledge(p) /\ committee # {} /\ id <= MaxMotion
        /\ motions' = With(motions, id, [proposer |-> p, quantity |-> quantity,
                                         section |-> "proposed",
                                         end |-> block + APPROVE_BLOCK_NUM])
        /\ approvers' = With(approvers, <<p, id>>, NewBallot)
        /\ drawn' = With(drawn, id, [asked |-> quantity, paid |-> 0])
        /\ UNCHANGED <<block, committee, takecoins, held, received>>

\* The approvers row of motion id
BallotOf(id) == <<motions[id].proposer, id>>

Approve(member, id) ==
    /\ id \in DOMAIN motions
    /\ motions[id].end > block /\ motions[id].section = "proposed"
    /\ member \in approvers[BallotOf(id)].requested
    /\ LET ballot == AfterYes(approvers[BallotOf(id)], member)
       IN  /\ approvers' = [approvers EXCEPT ![BallotOf(id)] = ballot]
           /\ motions' = IF Agreed(ballot)
                         THEN [motions EXCEPT ![id].section = "passed"] ELSE motions
    /\ UNCHANGED <<block, committee, takecoins, money>>

\* unapprove, whatever the section is
Unapprove(member, id) ==
    /\ id \in DOMAIN motions
    /\ motions[id].end > block
    /\ member \in approvers[BallotOf(id)].requested
    /\ LET ballot == AfterNo(approvers[BallotOf(id)], member)
       IN  /\ approvers' = [approvers EXCEPT ![BallotOf(id)] = ballot]
           /\ motions' = IF Refused(ballot)
                         THEN [motions EXCEPT ![id].section = "rejected"] ELSE motions
    /\ UNCHANGED <<block, committee, takecoins, money>>

TakeCoin(p, id, quantity) ==
    LET key == AvailableKey({k[2] : k \in {k \in DOMAIN takecoins : k[1] = p}})
    IN  /\ HasPledge(p)
        /\ id \in DOMAIN motions
        /\ motions[id].end < block
        /\ motions[id].section = "passed"
        /\ motions[id].proposer = p
        /\ motions[id].quantity >= quantity
        /\ committee # {} /\ key <= MaxTakeCoin
        /\ takecoins' = With(takecoins, <<p, key>>,
             [motion |-> id, quantity |-> quantity, section |-> "proposed",
              end |-> block + APPROVE_BLOCK_NUM, ballot |-> NewBallot])
        /\ UNCHANGED <<block, committee, motions, approvers, money>>

\* A takecoin of p that has passed is paid, by an inline transfer that fails,
\* and undoes it all, when the amount is negative or more than is held.
CanPayUnchecked(id, quantity) ==
    /\ id \in DOMAIN motions
    /\ motions[id].section = "passed"
    /\ quantity \in 0..held
CanPay(id, quantity) ==
    /\ id \in DOMAIN motions
    /\ motions[id].quantity >= quantity
    /\ motions[id].section = "passed"
    /\ quantity \in 0..held
Pay(p, id, quantity) ==
    /\ CanPay(id, quantity)
    /\ motions' = [motions EXCEPT ![id].quantity = @ - quantity]
    /\ held' = held - quantity
    /\ received' = [received EXCEPT ![p] = @ + quantity]
    /\ drawn' = [drawn EXCEPT ![id].paid = @ + quantity]

AgreeCoin(member, k) ==
    /\ k \in DOMAIN takecoins
    /\ takecoins[k].end > block /\ takecoins[k].section = "proposed"
    /\ member \in takecoins[k].ballot.requested
    /\ LET ballot == AfterYes(takecoins[k].ballot, member)
       IN  /\ takecoins' = [takecoins EXCEPT
                ![k].ballot = ballot,
                ![k].section = IF Agreed(ballot) THEN "passed" ELSE @]
           /\ IF Agreed(ballot) THEN Pay(k[1], takecoins[k].motion, takecoins[k].quantity)
              ELSE UNCHANGED <<motions, money>>
    /\ UNCHANGED <<block, committee, approvers>>

UnagreeCoin(member, k) ==
    /\ k \in DOMAIN takecoins
    /\ takecoins[k].end > block /\ takecoins[k].section = "proposed"
    /\ member \in takecoins[k].ballot.requested
    /\ LET ballot == AfterNo(takecoins[k].ballot, member)
       IN  takecoins' = [takecoins EXCEPT
              ![k].ballot = ballot,
              ![k].section = IF Refused(ballot) THEN "rejected" ELSE @]
    /\ UNCHANGED <<block, committee, motions, approvers, money>>

\* turndown, by the contract itself
TurnDown(id) ==
    /\ id \in DOMAIN motions
    /\ motions' = [motions EXCEPT ![id].section = "turned down"]
    /\ UNCHANGED <<block, committee, approvers, takecoins, money>>

\* closemotion by the proposer, in any section. The proposer is read from the
\* row just erased, whose memory nothing has reused. Takecoins stay.
CloseMotion(id) ==
    /\ id \in DOMAIN motions
    /\ motions' = Without(motions, id)
    /\ approvers' = Without(approvers, BallotOf(id))
    /\ drawn' = Without(drawn, id)
    /\ UNCHANGED <<block, committee, takecoins, held, received>>

CloseCoin(k) ==
    /\ k \in DOMAIN takecoins
    /\ takecoins' = Without(takecoins, k)
    /\ UNCHANGED <<block, committee, motions, approvers, money>>

NextBlock ==
    /\ block < MaxBlock /\ block' = block + 1
    /\ UNCHANGED <<tables, money>>

Next ==
    \/ \E C \in Committee : HandOver(C)
    \/ \E p \in Proposer, quantity \in Asked : Propose(p, quantity)
    \/ \E id \in 0..MaxMotion :
         \/ \E m \in Member : Approve(m, id) \/ Unapprove(m, id)
         \/ \E p \in Proposer, quantity \in Taken : TakeCoin(p, id, quantity)
         \/ TurnDown(id) \/ CloseMotion(id)
    \/ \E k \in Proposer \X (0..MaxTakeCoin) :
         \/ \E m \in Member : AgreeCoin(m, k) \/ UnagreeCoin(m, k)
         \/ CloseCoin(k)
    \/ NextBlock
Spec == Init /\ [][Next]_vars

-----------------------------------------------------------------------------
Of(part, b, n, d) == d * Cardinality(part) > n * Size(b)
TwoThirds(b) == Of(b.approved, b, 2, 3)
OneThird(b) == Of(b.unapproved, b, 1, 3)

\* A motion or takecoin is passed exactly when more than two thirds of the
\* members it was put to have approved, rejected only when more than a third
\* have refused (README_zh.md of eosio.budget): the integer divisions round
\* neither way, unapprove in any section overturns no passed motion, and a
\* hand-over in the middle changes neither.
VerdictBacked ==
    /\ \A i \in DOMAIN motions :
         LET b == approvers[BallotOf(i)]
         IN  /\ motions[i].section = "passed" => TwoThirds(b)
             /\ motions[i].section = "rejected" => OneThird(b)
             /\ motions[i].section = "proposed" => ~TwoThirds(b) /\ ~OneThird(b)
    /\ \A k \in DOMAIN takecoins :
         LET b == takecoins[k].ballot
         IN  /\ takecoins[k].section = "passed" <=> TwoThirds(b)
             /\ takecoins[k].section = "rejected" <=> OneThird(b)

\* What is left of a motion and what was paid for it are what it asked: with
\* several takecoins open at a time, with negative ones, and with payments
\* that fail after the rows were written, no motion pays more than the
\* committee has passed (eosio.budget.cpp:185-200).
PaidWithinAsked ==
    \A i \in DOMAIN motions :
        /\ motions[i].quantity + drawn[i].paid = drawn[i].asked
        /\ drawn[i].paid > 0 => drawn[i].paid <= drawn[i].asked

-----------------------------------------------------------------------------
(* Violated: what the documentation says and the code does not do. *)

\* "the takecoin proposer must be the motion proposer" (the check of takecoin,
\* eosio.budget.cpp:141): what is paid is paid to the proposer of the motion
\* it is paid from. But a takecoin outlives its motion and finds, under the
\* same id, that of another proposer.
PaidToItsProposer ==
    [][\A k \in DOMAIN takecoins \cap DOMAIN takecoins' :
         takecoins[k].section = "proposed" /\ takecoins'[k].section = "passed" =>
            motions[takecoins[k].motion].proposer = k[1]]_vars
=============================================================================
