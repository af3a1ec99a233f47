------------------------------- MODULE Token --------------------------------
(***************************************************************************)
(* eosio.token: tokens with an issuer, a supply and a maximum supply, and  *)
(* the balances of accounts, whose rows are erased when they fall to zero. *)
(* Symbols are told apart by a code and a precision; tables only by the    *)
(* code. Memos, notifications and who pays for memory are left out.        *)
(***************************************************************************)
EXTENDS Integers, FiniteSets, Functions

CONSTANTS
    Account,     \* the accounts that exist
    Code,        \* symbol codes
    CoreCode,    \* "EOS", which is not created here
    Precision,   \* precisions a symbol may have
    NoStat,      \* a stat table without its row
    Supplies,    \* amounts offered to create
    Amounts      \* amounts offered to the other calls

ASSUME AccountAssumption == IsFiniteSet(Account)
ASSUME AmountAssumption == Supplies \subseteq Int /\ Amounts \subseteq Int

Symbol == Code \X Precision
Stat == [symbol : Symbol, supply : Nat, max_supply : Nat, issuer : Account]
ASSUME NoStatAssumption == NoStat \notin Stat

VARIABLES
    stat,       \* stat rows, by symbol code
    accounts    \* accounts rows, by symbol code and owner

vars == <<stat, accounts>>

NoRow == [exists |-> FALSE, balance |-> 0]

TypeOK ==
    /\ stat \in [Code -> Stat \cup {NoStat}]
    /\ accounts \in [Code \X Account -> [exists : BOOLEAN, balance : Nat]]

Init ==
    /\ stat = [c \in Code |-> NoStat]
    /\ accounts = [r \in Code \X Account |-> NoRow]

-----------------------------------------------------------------------------
Known(symbol) == stat[symbol[1]] # NoStat /\ stat[symbol[1]].symbol = symbol

CoversAny(table, code, owner, amount) == table[<<code, owner>>].exists
\* sub_balance can be done
Covers(table, code, owner, amount) ==
    table[<<code, owner>>].exists /\ amount <= table[<<code, owner>>].balance

\* A row left with nothing is erased.
Reduced(row, amount) ==
    IF row.balance = amount THEN NoRow ELSE [row EXCEPT !.balance = row.balance - amount]
SubBalance(table, code, owner, amount) ==
    [table EXCEPT ![<<code, owner>>] = Reduced(@, amount)]
AddBalanceAnew(table, code, owner, amount) ==
    [table EXCEPT ![<<code, owner>>] = [exists |-> TRUE, balance |-> amount]]
AddBalance(table, code, owner, amount) ==
    [table EXCEPT ![<<code, owner>>] = [exists |-> TRUE, balance |-> @.balance + amount]]

Create(issuer, symbol, max_supply) ==
    /\ max_supply > 0
    /\ symbol[1] # CoreCode
    /\ stat[symbol[1]] = NoStat
    /\ stat' = [stat EXCEPT ![symbol[1]] =
          [symbol |-> symbol, supply |-> 0, max_supply |-> max_supply, issuer |-> issuer]]
    /\ UNCHANGED accounts

\* issue by the issuer: it gets the tokens first, and an inline transfer
\* passes them on.
Issue(to, symbol, amount) ==
    LET code == symbol[1]
        issued == AddBalance(accounts, code, stat[code].issuer, amount)
    IN  /\ Known(symbol)
        /\ 0 < amount /\ amount <= stat[code].max_supply - stat[code].supply
        /\ stat' = [stat EXCEPT ![code].supply = @ + amount]
        /\ accounts' = IF to = stat[code].issuer THEN issued
                       ELSE AddBalance(SubBalance(issued, code, stat[code].issuer, amount),
                                       code, to, amount)

\* retire by the issuer
Retire(symbol, amount) ==
    LET code == symbol[1]
    IN  /\ Known(symbol)
        /\ 0 < amount
        /\ Covers(accounts, code, stat[code].issuer, amount)
        /\ stat' = [stat EXCEPT ![code].supply = @ - amount]
        /\ accounts' = SubBalance(accounts, code, stat[code].issuer, amount)

Transfer(from, to, symbol, amount) ==
    /\ from # to
    /\ Known(symbol)
    /\ 0 < amount
    /\ Covers(accounts, symbol[1], from, amount)
    /\ accounts' = AddBalance(SubBalance(accounts, symbol[1], from, amount),
                              symbol[1], to, amount)
    /\ UNCHANGED stat

\* open makes a row of balance zero, or does nothing when there is one.
Open(owner, symbol) ==
    /\ Known(symbol)
    /\ accounts' = [accounts EXCEPT ![<<symbol[1], owner>>].exists = TRUE]
    /\ UNCHANGED stat

\* close looks at the code alone.
Close(owner, symbol) ==
    /\ accounts[<<symbol[1], owner>>].exists
    /\ accounts[<<symbol[1], owner>>].balance = 0
    /\ accounts' = [accounts EXCEPT ![<<symbol[1], owner>>] = NoRow]
    /\ UNCHANGED stat

Next ==
    \E symbol \in Symbol, owner \in Account :
        \/ \E max \in Supplies : Create(owner, symbol, max)
        \/ \E amount \in Amounts :
             \/ Issue(owner, symbol, amount)
             \/ Retire(symbol, amount)
             \/ \E to \in Account : Transfer(owner, to, symbol, amount)
        \/ Open(owner, symbol)
        \/ Close(owner, symbol)
Spec == Init /\ [][Next]_vars

-----------------------------------------------------------------------------
BalanceSum(table, code) == SumFunction([a \in Account |-> table[<<code, a>>].balance])

\* The supply of a token is the sum of its balances and at most max_supply,
\* whatever rows were erased at zero, opened, closed and made again between
\* an issue and its inline transfer: no code adds the balances up, and it is
\* why a balance can never overflow (eosio.token.cpp:117-145).
SupplyIsSum ==
    \A c \in Code :
        /\ BalanceSum(accounts, c) = IF stat[c] = NoStat THEN 0 ELSE stat[c].supply
        /\ stat[c] # NoStat => stat[c].supply <= stat[c].max_supply
=============================================================================
