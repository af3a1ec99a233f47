----------------------------- MODULE TokenProofs -----------------------------
(***************************************************************************)
(* Theorems of module Token: no balance or supply is ever negative, and    *)
(* the supply of a token is the sum of its balances. The two need each     *)
(* other: a retired amount leaves a natural supply because it is part of   *)
(* one balance, which the sum of all is not below.                         *)
(***************************************************************************)
EXTENDS Token, Sums

IInv == TypeOK /\ SupplyIsSum

Table == [Code \X Account -> [exists : BOOLEAN, balance : Nat]]
Balances(table, code) == [a \in Account |-> table[<<code, a>>].balance]

-----------------------------------------------------------------------------
(* Sums of balances *)

LEMMA SumIs ==
    ASSUME NEW table, NEW code
    PROVE  BalanceSum(table, code) = SumFunctionOnSet(Balances(table, code), Account)
<1>. QED
  BY DEF BalanceSum, Balances, SumFunction

\* In a table, balances and their sums are naturals, no sum below a balance.
LEMMA SumBounds ==
    ASSUME NEW table \in Table, NEW code \in Code
    PROVE  /\ BalanceSum(table, code) \in Nat
           /\ \A a \in Account : table[<<code, a>>].balance <= BalanceSum(table, code)
<1>. DEFINE f == Balances(table, code)
<1>1. \A a \in Account : f[a] \in Nat /\ f[a] = table[<<code, a>>].balance
  BY DEF Table, Balances
<1>. HIDE DEF f
<1>2. SumFunctionOnSet(f, Account) \in Nat
  BY <1>1, AccountAssumption, SumNat
<1>3. \A a \in Account : f[a] <= SumFunctionOnSet(f, Account)
  BY <1>1, AccountAssumption, SumAtLeast
<1>4. BalanceSum(table, code) = SumFunctionOnSet(f, Account)
  BY SumIs DEF f
<1>. QED
  BY <1>1, <1>2, <1>3, <1>4

\* next is a table with n more of the token, and as much of every other.
Moved(next, table, code, n) ==
    /\ next \in Table
    /\ BalanceSum(next, code) = BalanceSum(table, code) + n
    /\ \A c \in Code \ {code} : BalanceSum(next, c) = BalanceSum(table, c)

\* One row gets another balance.
LEMMA SumOfChanged ==
    ASSUME NEW table \in Table, NEW code \in Code, NEW owner \in Account,
           NEW row \in [exists : BOOLEAN, balance : Nat]
    PROVE  Moved([table EXCEPT ![<<code, owner>>] = row], table, code,
                 row.balance - table[<<code, owner>>].balance)
<1>. DEFINE next == [table EXCEPT ![<<code, owner>>] = row]
<1>1. next \in Table
  BY DEF Table
<1>2. BalanceSum(next, code)
        = BalanceSum(table, code) + (row.balance - table[<<code, owner>>].balance)
  <2>. DEFINE f == Balances(table, code)
              g == Balances(next, code)
  <2>1. \A a \in Account : f[a] \in Int /\ g[a] \in Int
    BY <1>1 DEF Table, Balances
  <2>2. \A a \in Account \ {owner} : g[a] = f[a]
    BY DEF Table, Balances
  <2>3. f[owner] = table[<<code, owner>>].balance /\ g[owner] = row.balance
    BY DEF Table, Balances
  <2>4. /\ BalanceSum(table, code) = SumFunctionOnSet(f, Account)
        /\ BalanceSum(next, code) = SumFunctionOnSet(g, Account)
    BY SumIs
  <2>5. BalanceSum(table, code) \in Nat
    BY SumBounds
  <2>6. f[owner] \in Int /\ g[owner] \in Int
    BY <2>1
  <2>. HIDE DEF f, g
  <2>7. SumFunctionOnSet(g, Account) = SumFunctionOnSet(f, Account) - f[owner] + g[owner]
    BY <2>1, <2>2, AccountAssumption, SumChange
  <2>. HIDE DEF next
  <2>. QED
    BY <2>3, <2>4, <2>5, <2>6, <2>7
<1>3. ASSUME NEW c \in Code \ {code}
      PROVE  BalanceSum(next, c) = BalanceSum(table, c)
  <2>1. Balances(next, c) = Balances(table, c)
    BY DEF Table, Balances
  <2>. QED
    BY <2>1, SumIs
<1>. QED
  BY <1>1, <1>2, <1>3 DEF Moved

\* A row with another field.
LEMMA RowExcept ==
    ASSUME NEW E, NEW e \in E, NEW n \in Nat, NEW r \in [exists : E, balance : Nat]
    PROVE  /\ [r EXCEPT !.balance = n] = [exists |-> r.exists, balance |-> n]
           /\ [r EXCEPT !.exists = e] = [exists |-> e, balance |-> r.balance]
           /\ [exists |-> r.exists, balance |-> n] \in [exists : E, balance : Nat]
<1>. QED
  OBVIOUS

LEMMA Add ==
    ASSUME NEW table \in Table, NEW code \in Code, NEW owner \in Account, NEW amount \in Nat
    PROVE  Moved(AddBalance(table, code, owner, amount), table, code, amount)
<1>1. PICK old \in Nat : old = table[<<code, owner>>].balance
  BY DEF Table
<1>2. [exists |-> TRUE, balance |-> old + amount] \in [exists : BOOLEAN, balance : Nat]
  BY <1>1
<1>3. PICK row \in [exists : BOOLEAN, balance : Nat] :
          row = [exists |-> TRUE, balance |-> old + amount]
  BY <1>2, Zenon
<1>4. AddBalance(table, code, owner, amount) = [table EXCEPT ![<<code, owner>>] = row]
  BY <1>1, <1>3 DEF AddBalance
<1>5. Moved([table EXCEPT ![<<code, owner>>] = row], table, code,
            row.balance - table[<<code, owner>>].balance)
  BY SumOfChanged
<1>6. row.balance - table[<<code, owner>>].balance = amount
  BY <1>1, <1>3
<1>. QED
  BY <1>4, <1>5, <1>6

LEMMA Subtract ==
    ASSUME NEW table \in Table, NEW code \in Code, NEW owner \in Account, NEW amount \in Nat,
           Covers(table, code, owner, amount)
    PROVE  Moved(SubBalance(table, code, owner, amount), table, code, 0 - amount)
<1>1. PICK old \in [exists : BOOLEAN, balance : Nat] : old = table[<<code, owner>>]
  BY DEF Table
<1>2. amount <= old.balance
  BY <1>1 DEF Covers
<1>3. old.balance - amount \in Nat
  BY <1>2
<1>4. [old EXCEPT !.balance = old.balance - amount]
        = [exists |-> old.exists, balance |-> old.balance - amount]
  BY <1>3, RowExcept
<1>5. NoRow \in [exists : BOOLEAN, balance : Nat]
  BY DEF NoRow
<1>6. [exists |-> old.exists, balance |-> old.balance - amount]
          \in [exists : BOOLEAN, balance : Nat]
  BY <1>3, RowExcept
<1>7. PICK row \in [exists : BOOLEAN, balance : Nat] :
          row = IF old.balance = amount THEN NoRow
                ELSE [exists |-> old.exists, balance |-> old.balance - amount]
  BY <1>5, <1>6, Zenon
<1>8. SubBalance(table, code, owner, amount) = [table EXCEPT ![<<code, owner>>] = row]
  <2>1. Reduced(old, amount) = row
    BY <1>4, <1>7 DEF Reduced
  <2>. QED
    BY <1>1, <2>1 DEF SubBalance
<1>9. Moved([table EXCEPT ![<<code, owner>>] = row], table, code,
            row.balance - table[<<code, owner>>].balance)
  BY SumOfChanged
<1>10. row.balance - table[<<code, owner>>].balance = 0 - amount
  BY <1>1, <1>2, <1>7 DEF NoRow
<1>. QED
  BY <1>8, <1>9, <1>10

-----------------------------------------------------------------------------
(* The invariant *)

\* Nothing exists at the start.
LEMMA InitIInv == Init => IInv
<1>. SUFFICES ASSUME Init PROVE IInv
  OBVIOUS
<1>1. TypeOK
  BY DEF Init, TypeOK, NoRow
<1>2. ASSUME NEW c \in Code
      PROVE  BalanceSum(accounts, c) = 0 /\ stat[c] = NoStat
  <2>. DEFINE f == Balances(accounts, c)
  <2>1. \A a \in Account : f[a] = 0
    BY DEF Init, NoRow, Balances
  <2>2. BalanceSum(accounts, c) = SumFunctionOnSet(f, Account)
    BY SumIs
  <2>. HIDE DEF f
  <2>3. SumFunctionOnSet(f, Account) = 0
    BY <2>1, AccountAssumption, SumZero
  <2>. QED
    BY <2>2, <2>3 DEF Init
<1>. QED
  BY <1>1, <1>2 DEF IInv, SupplyIsSum

\* The supply of one token, if it exists, and of the others.
Supplied(table, rows, c) ==
    /\ BalanceSum(table, c) = IF rows[c] = NoStat THEN 0 ELSE rows[c].supply
    /\ rows[c] # NoStat => rows[c].supply <= rows[c].max_supply

LEMMA SupplyOfEach == SupplyIsSum <=> \A c \in Code : Supplied(accounts, stat, c)
<1>. QED
  BY DEF SupplyIsSum, Supplied

\* A step that leaves all tokens but one alone, and that one supplied.
LEMMA OneToken ==
    ASSUME IInv, NEW code \in Code, accounts' \in Table,
           NEW row \in Stat \cup {NoStat}, stat' = [stat EXCEPT ![code] = row],
           \A c \in Code \ {code} : BalanceSum(accounts', c) = BalanceSum(accounts, c),
           BalanceSum(accounts', code) = IF row = NoStat THEN 0 ELSE row.supply,
           row # NoStat => row.supply <= row.max_supply
    PROVE  IInv'
<1>1. TypeOK'
  BY DEF IInv, TypeOK, Table
<1>2. stat'[code] = row /\ \A c \in Code \ {code} : stat'[c] = stat[c]
  BY DEF IInv, TypeOK
<1>3. \A c \in Code : BalanceSum(accounts, c)' = BalanceSum(accounts', c)
  BY DEF BalanceSum
<1>4. ASSUME NEW c \in Code
      PROVE  /\ BalanceSum(accounts', c) = IF stat'[c] = NoStat THEN 0 ELSE stat'[c].supply
             /\ stat'[c] # NoStat => stat'[c].supply <= stat'[c].max_supply
  <2>1. CASE c = code
    BY <1>2, <2>1
  <2>2. CASE c # code
    BY <1>2, <2>2 DEF IInv, SupplyIsSum
  <2>. QED
    BY <2>1, <2>2
<1>5. SupplyIsSum'
  BY <1>3, <1>4 DEF SupplyIsSum
<1>. QED
  BY <1>1, <1>5 DEF IInv

\* What the invariant says of a token that exists.
LEMMA KnownToken ==
    ASSUME IInv, NEW symbol \in Symbol, Known(symbol)
    PROVE  /\ symbol[1] \in Code /\ accounts \in Table
           /\ stat[symbol[1]] \in Stat /\ stat[symbol[1]] # NoStat
           /\ BalanceSum(accounts, symbol[1]) = stat[symbol[1]].supply
           /\ stat[symbol[1]].supply <= stat[symbol[1]].max_supply
<1>1. symbol[1] \in Code
  BY DEF Symbol
<1>2. stat[symbol[1]] \in Stat /\ stat[symbol[1]] # NoStat
  BY <1>1 DEF Known, IInv, TypeOK
<1>. QED
  BY <1>1, <1>2 DEF IInv, TypeOK, Table, SupplyIsSum

LEMMA CreateIInv ==
    ASSUME IInv, NEW issuer \in Account, NEW symbol \in Symbol, NEW max_supply \in Supplies,
           Create(issuer, symbol, max_supply)
    PROVE  IInv'
<1>. DEFINE code == symbol[1]
            row == [symbol |-> symbol, supply |-> 0, max_supply |-> max_supply,
                    issuer |-> issuer]
<1>1. code \in Code
  BY DEF Symbol
<1>2. max_supply \in Nat /\ 0 <= max_supply
  BY AmountAssumption DEF Create
<1>3. row \in Stat /\ row # NoStat
  BY <1>2, NoStatAssumption DEF Stat
<1>4. row.supply = 0 /\ row.max_supply = max_supply
  OBVIOUS
<1>5. stat' = [stat EXCEPT ![code] = row] /\ accounts' = accounts /\ stat[code] = NoStat
  BY DEF Create
<1>6. BalanceSum(accounts, code) = 0 /\ accounts \in Table
  BY <1>1, <1>5 DEF IInv, SupplyIsSum, TypeOK, Table
<1>. HIDE DEF row, code
<1>7. BalanceSum(accounts', code) = row.supply /\ accounts' \in Table
  BY <1>4, <1>5, <1>6
<1>. QED
  BY <1>1, <1>2, <1>3, <1>4, <1>5, <1>7, OneToken

\* A row with another supply is a row.
LEMMA SupplyRow ==
    ASSUME NEW r \in Stat, NEW n \in Nat, NEW row, row = [r EXCEPT !.supply = n]
    PROVE  row \in Stat /\ row # NoStat /\ row.supply = n /\ row.max_supply = r.max_supply
<1>. QED
  BY NoStatAssumption DEF Stat

LEMMA IssueIInv ==
    ASSUME IInv, NEW to \in Account, NEW symbol \in Symbol, NEW amount \in Amounts,
           Issue(to, symbol, amount)
    PROVE  IInv'
<1>. DEFINE code == symbol[1]
            issuer == stat[code].issuer
            issued == AddBalance(accounts, code, issuer, amount)
            passed == SubBalance(issued, code, issuer, amount)
            row == [stat[code] EXCEPT !.supply = stat[code].supply + amount]
<1>1. /\ code \in Code /\ accounts \in Table
      /\ stat[code] \in Stat /\ stat[code] # NoStat
      /\ BalanceSum(accounts, code) = stat[code].supply
  BY KnownToken DEF Issue
<1>2. /\ amount \in Nat /\ amount <= stat[code].max_supply - stat[code].supply
      /\ stat' = [stat EXCEPT ![code] = row]
      /\ accounts' = IF to = issuer THEN issued ELSE AddBalance(passed, code, to, amount)
  BY AmountAssumption DEF Issue
<1>3. issuer \in Account /\ stat[code].supply \in Nat /\ stat[code].max_supply \in Nat
  BY <1>1 DEF Stat
<1>. HIDE DEF issuer, code
<1>4. /\ row \in Stat /\ row # NoStat /\ row.supply = stat[code].supply + amount
      /\ row.max_supply = stat[code].max_supply
  BY <1>1, <1>2, <1>3, SupplyRow
<1>. HIDE DEF row
<1>5. row.supply <= row.max_supply
  BY <1>2, <1>3, <1>4
<1>6. Moved(issued, accounts, code, amount)
  BY <1>1, <1>2, <1>3, Add
<1>7. issued[<<code, issuer>>]
        = [exists |-> TRUE, balance |-> accounts[<<code, issuer>>].balance + amount]
  BY <1>1, <1>3 DEF AddBalance, Table
<1>8. CASE to = issuer
  <2>1. accounts' = issued
    BY <1>2, <1>8
  <2>. HIDE DEF issued
  <2>2. /\ accounts' \in Table /\ BalanceSum(accounts', code) = row.supply
        /\ \A c \in Code \ {code} : BalanceSum(accounts', c) = BalanceSum(accounts, c)
    BY <1>1, <1>4, <1>6, <2>1 DEF Moved
  <2>. QED
    BY <1>1, <1>2, <1>4, <1>5, <2>2, OneToken
<1>9. CASE to # issuer
  <2>1. accounts[<<code, issuer>>].balance \in Nat
    BY <1>1, <1>3 DEF Table
  <2>. HIDE DEF issued
  <2>2. Covers(issued, code, issuer, amount)
    BY <1>2, <1>7, <2>1 DEF Covers
  <2>3. issued \in Table
    BY <1>6 DEF Moved
  <2>4. Moved(passed, issued, code, 0 - amount)
    BY <1>1, <1>2, <1>3, <2>2, <2>3, Subtract
  <2>. HIDE DEF passed
  <2>5. accounts' = AddBalance(passed, code, to, amount)
    BY <1>2, <1>9
  <2>6. passed \in Table
    BY <2>4 DEF Moved
  <2>7. Moved(AddBalance(passed, code, to, amount), passed, code, amount)
    BY <1>1, <1>2, <2>6, Add
  <2>8. Moved(accounts', passed, code, amount)
    BY <2>5, <2>7
  <2>9. BalanceSum(accounts', code) = row.supply
    BY <1>1, <1>2, <1>3, <1>4, <1>6, <2>4, <2>8 DEF Moved
  <2>10. /\ accounts' \in Table
        /\ \A c \in Code \ {code} : BalanceSum(accounts', c) = BalanceSum(accounts, c)
    BY <1>6, <2>4, <2>8 DEF Moved
  <2>. QED
    BY <1>1, <1>2, <1>4, <1>5, <2>9, <2>10, OneToken
<1>. QED
  BY <1>8, <1>9

LEMMA RetireIInv ==
    ASSUME IInv, NEW symbol \in Symbol, NEW amount \in Amounts, Retire(symbol, amount)
    PROVE  IInv'
<1>. DEFINE code == symbol[1]
            issuer == stat[code].issuer
            row == [stat[code] EXCEPT !.supply = stat[code].supply - amount]
<1>1. /\ code \in Code /\ accounts \in Table
      /\ stat[code] \in Stat /\ stat[code] # NoStat
      /\ BalanceSum(accounts, code) = stat[code].supply
      /\ stat[code].supply <= stat[code].max_supply
  BY KnownToken DEF Retire
<1>2. /\ amount \in Nat /\ Covers(accounts, code, issuer, amount)
      /\ stat' = [stat EXCEPT ![code] = row]
      /\ accounts' = SubBalance(accounts, code, issuer, amount)
  BY AmountAssumption DEF Retire
<1>3. issuer \in Account /\ stat[code].supply \in Nat /\ stat[code].max_supply \in Nat
  BY <1>1 DEF Stat
<1>. HIDE DEF issuer, code
<1>4. accounts[<<code, issuer>>].balance <= BalanceSum(accounts, code)
  BY <1>1, <1>3, SumBounds
<1>5. accounts[<<code, issuer>>].balance \in Nat
  BY <1>1, <1>3 DEF Table
<1>6. stat[code].supply - amount \in Nat
  BY <1>1, <1>2, <1>3, <1>4, <1>5 DEF Covers
<1>7. /\ row \in Stat /\ row # NoStat /\ row.supply = stat[code].supply - amount
      /\ row.max_supply = stat[code].max_supply
  BY <1>1, <1>6, SupplyRow
<1>. HIDE DEF row
<1>8. row.supply <= row.max_supply
  BY <1>1, <1>2, <1>3, <1>7
<1>9. Moved(SubBalance(accounts, code, issuer, amount), accounts, code, 0 - amount)
  BY <1>1, <1>2, <1>3, Subtract
<1>10. /\ accounts' \in Table
      /\ BalanceSum(accounts', code) = BalanceSum(accounts, code) + (0 - amount)
      /\ \A c \in Code \ {code} : BalanceSum(accounts', c) = BalanceSum(accounts, c)
  BY <1>2, <1>9 DEF Moved
<1>11. BalanceSum(accounts', code) = row.supply
  BY <1>1, <1>2, <1>3, <1>7, <1>10
<1>. QED
  BY <1>1, <1>2, <1>7, <1>8, <1>10, <1>11, OneToken

\* Calls that leave the supply of a token, and the sum of its balances, alone.
LEMMA SameSums ==
    ASSUME IInv, accounts' \in Table, UNCHANGED stat,
           \A c \in Code : BalanceSum(accounts', c) = BalanceSum(accounts, c)
    PROVE  IInv'
<1>1. TypeOK'
  BY DEF IInv, TypeOK, Table
<1>2. \A c \in Code : BalanceSum(accounts, c)' = BalanceSum(accounts', c)
  BY DEF BalanceSum
<1>3. SupplyIsSum'
  BY <1>2 DEF IInv, SupplyIsSum
<1>. QED
  BY <1>1, <1>3 DEF IInv

LEMMA TransferIInv ==
    ASSUME IInv, NEW from \in Account, NEW to \in Account, NEW symbol \in Symbol,
           NEW amount \in Amounts, Transfer(from, to, symbol, amount)
    PROVE  IInv'
<1>. DEFINE code == symbol[1]
            less == SubBalance(accounts, code, from, amount)
<1>1. code \in Code /\ accounts \in Table
  BY KnownToken DEF Transfer
<1>2. /\ amount \in Nat /\ Covers(accounts, code, from, amount)
      /\ accounts' = AddBalance(less, code, to, amount) /\ UNCHANGED stat
  BY AmountAssumption DEF Transfer
<1>. HIDE DEF code
<1>3. Moved(less, accounts, code, 0 - amount)
  BY <1>1, <1>2, Subtract
<1>. HIDE DEF less
<1>4. less \in Table
  BY <1>3 DEF Moved
<1>5. Moved(AddBalance(less, code, to, amount), less, code, amount)
  BY <1>1, <1>2, <1>4, Add
<1>6. Moved(accounts', less, code, amount)
  BY <1>2, <1>5
<1>7. BalanceSum(accounts, code) \in Nat
  BY <1>1, SumBounds
<1>8. BalanceSum(accounts', code) = BalanceSum(accounts, code)
  BY <1>2, <1>3, <1>6, <1>7 DEF Moved
<1>9. \A c \in Code : BalanceSum(accounts', c) = BalanceSum(accounts, c)
  BY <1>3, <1>6, <1>8 DEF Moved
<1>10. accounts' \in Table
  BY <1>6 DEF Moved
<1>. QED
  BY <1>2, <1>9, <1>10, SameSums

\* open and close only make and erase rows of balance zero.
LEMMA RowIInv ==
    ASSUME IInv, NEW code \in Code, NEW owner \in Account, UNCHANGED stat,
           NEW row \in [exists : BOOLEAN, balance : Nat],
           row.balance = accounts[<<code, owner>>].balance,
           accounts' = [accounts EXCEPT ![<<code, owner>>] = row]
    PROVE  IInv'
<1>1. accounts \in Table
  BY DEF IInv, TypeOK, Table
<1>2. Moved([accounts EXCEPT ![<<code, owner>>] = row], accounts, code,
            row.balance - accounts[<<code, owner>>].balance)
  BY <1>1, SumOfChanged
<1>3. BalanceSum(accounts, code) \in Nat /\ row.balance \in Nat
  BY <1>1, SumBounds
<1>4. row.balance - accounts[<<code, owner>>].balance = 0
  BY <1>3
<1>5. Moved(accounts', accounts, code, 0)
  BY <1>2, <1>4
<1>6. BalanceSum(accounts', code) = BalanceSum(accounts, code)
  BY <1>3, <1>5 DEF Moved
<1>7. /\ accounts' \in Table
      /\ \A c \in Code \ {code} : BalanceSum(accounts', c) = BalanceSum(accounts, c)
  BY <1>5 DEF Moved
<1>8. \A c \in Code : BalanceSum(accounts', c) = BalanceSum(accounts, c)
  BY <1>6, <1>7
<1>. QED
  BY <1>7, <1>8, SameSums

LEMMA OpenIInv ==
    ASSUME IInv, NEW owner \in Account, NEW symbol \in Symbol, Open(owner, symbol)
    PROVE  IInv'
<1>1. symbol[1] \in Code
  BY DEF Symbol
<1>2. PICK r \in [exists : BOOLEAN, balance : Nat] : r = accounts[<<symbol[1], owner>>]
  BY <1>1 DEF IInv, TypeOK
<1>3. PICK row \in [exists : BOOLEAN, balance : Nat] :
          row = [exists |-> TRUE, balance |-> r.balance]
  <2>1. [exists |-> TRUE, balance |-> r.balance] \in [exists : BOOLEAN, balance : Nat]
    OBVIOUS
  <2>. QED
    BY <2>1, Zenon
<1>4. [r EXCEPT !.exists = TRUE] = row
  BY <1>3, RowExcept
<1>5. accounts' = [accounts EXCEPT ![<<symbol[1], owner>>] = row] /\ UNCHANGED stat
  BY <1>2, <1>4 DEF Open
<1>6. row.balance = accounts[<<symbol[1], owner>>].balance
  BY <1>2, <1>3
<1>. QED
  BY <1>1, <1>5, <1>6, RowIInv

LEMMA CloseIInv ==
    ASSUME IInv, NEW owner \in Account, NEW symbol \in Symbol, Close(owner, symbol)
    PROVE  IInv'
<1>1. symbol[1] \in Code
  BY DEF Symbol
<1>2. /\ accounts' = [accounts EXCEPT ![<<symbol[1], owner>>] = NoRow]
      /\ accounts[<<symbol[1], owner>>].balance = 0 /\ UNCHANGED stat
  BY DEF Close
<1>3. NoRow \in [exists : BOOLEAN, balance : Nat] /\ NoRow.balance = 0
  BY DEF NoRow
<1>. QED
  BY <1>1, <1>2, <1>3, RowIInv

\* No call ends the invariant.
LEMMA NextIInv ==
    ASSUME IInv, [Next]_vars
    PROVE  IInv'
<1>1. CASE UNCHANGED vars
  BY <1>1 DEF vars, IInv, TypeOK, SupplyIsSum, BalanceSum
<1>2. CASE Next
  <2>1. PICK symbol \in Symbol, owner \in Account :
            \/ \E max \in Supplies : Create(owner, symbol, max)
            \/ \E amount \in Amounts :
                 \/ Issue(owner, symbol, amount)
                 \/ Retire(symbol, amount)
                 \/ \E to \in Account : Transfer(owner, to, symbol, amount)
            \/ Open(owner, symbol)
            \/ Close(owner, symbol)
    BY <1>2 DEF Next
  <2>2. CASE \E max \in Supplies : Create(owner, symbol, max)
    BY <2>2, CreateIInv
  <2>3. CASE \E amount \in Amounts : Issue(owner, symbol, amount)
    BY <2>3, IssueIInv
  <2>4. CASE \E amount \in Amounts : Retire(symbol, amount)
    BY <2>4, RetireIInv
  <2>5. CASE \E amount \in Amounts, to \in Account : Transfer(owner, to, symbol, amount)
    BY <2>5, TransferIInv
  <2>6. CASE Open(owner, symbol)
    BY <2>6, OpenIInv
  <2>7. CASE Close(owner, symbol)
    BY <2>7, CloseIInv
  <2>. QED
    BY <2>1, <2>2, <2>3, <2>4, <2>5, <2>6, <2>7
<1>. QED
  BY <1>1, <1>2

\* Every reachable state satisfies the types and the sums.
THEOREM Invariance == Spec => []IInv
<1>. QED
  BY InitIInv, NextIInv, PTL DEF Spec

\* Every reachable state is well typed: no balance, supply or maximum is
\* ever negative.
THEOREM TypeCorrect == Spec => []TypeOK
<1>1. IInv => TypeOK
  BY DEF IInv
<1>. QED
  BY <1>1, Invariance, PTL

\* The supply of every token is the sum of its balances and within its
\* maximum, for any accounts, symbols and amounts.
THEOREM SupplyAlwaysSum == Spec => []SupplyIsSum
<1>1. IInv => SupplyIsSum
  BY DEF IInv
<1>. QED
  BY <1>1, Invariance, PTL
=============================================================================
