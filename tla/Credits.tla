------------------------------ MODULE Credits ------------------------------
(***************************************************************************)
(* The credit store (sparquet-studio/server/credits.py, CreditStore): one  *)
(* account per team, holds taken before a run and given back after it, a   *)
(* free monthly allowance spent before the balance, and an append-only     *)
(* ledger. Every action below is one SQLite transaction taken under the    *)
(* store's lock, so these are the steps other threads can interleave with. *)
(* Amounts are whole credits, a month is a number, and what an entry names *)
(* besides its money (tags, job, workflow, actor) is left out.             *)
(***************************************************************************)
EXTENDS Integers, Sequences, SequencesExt

CONSTANTS
  Teams,        \* account ids
  Runs,         \* executions on a remote target; local ones cost nothing
  Payer,        \* the team each run is charged to
  UnitCost,     \* credits_per_write
  AssistCost,   \* assist_credits_per_turn
  FreeMonthly,  \* free_monthly
  Opening,      \* initial_balance
  Grants,       \* amounts an administrator may grant, or take back (negative)
  MaxWrites,    \* bound: destinations one run declares or writes
  MaxMonth,     \* bound: how often the month turns
  MaxRestarts,  \* bound: how often the process restarts
  MaxEntries    \* bound: ledger length at which grants and turns stop

ASSUME PayerAssumption == Payer \in [Runs -> Teams]
ASSUME CostAssumption ==
  UnitCost \in Nat /\ AssistCost \in Nat /\ FreeMonthly \in Nat /\ Opening \in Nat
ASSUME GrantAssumption == Grants \subseteq Int \ {0}
ASSUME BoundAssumption ==
  MaxWrites \in Nat /\ MaxMonth \in Nat /\ MaxRestarts \in Nat /\ MaxEntries \in Nat

VARIABLES
  account,      \* the account row of each team
  opened,       \* teams that have a row
  ledger,       \* the entries of each team, oldest first
  reservation,  \* the hold of each run
  request,      \* how far the runner got with each run
  month,        \* current_period()
  gate,         \* enforced()
  restarts

vars == <<account, opened, ledger, reservation, request, month, gate, restarts>>

Row   == [balance : Nat, spent : Nat, period : Nat, freeUsed : Nat, held : Nat]
Entry == [reason : {"grant", "run", "assist"}, amount : Int, applied : BOOLEAN,
          after : Nat, free : Nat, short : Nat, period : Nat]
Hold  == [amount : Nat, status : {"none", "open", "released", "abandoned"}]

NewRow(m) ==
  [balance |-> 0, spent |-> 0, period |-> m, freeUsed |-> 0, held |-> 0]
GrantEntry(n, after, m) ==
  [reason |-> "grant", amount |-> n, applied |-> TRUE, after |-> after,
   free |-> 0, short |-> 0, period |-> m]

Init ==
  /\ account = [t \in Teams |-> NewRow(0)]
  /\ opened = {}
  /\ ledger = [t \in Teams |-> <<>>]
  /\ reservation = [r \in Runs |-> [amount |-> 0, status |-> "none"]]
  /\ request = [r \in Runs |-> "idle"]
  /\ month = 0
  /\ gate \in BOOLEAN
  /\ restarts = 0

-----------------------------------------------------------------------------
(* _ensure: the row a transaction starts from. A team seen for the first   *)
(* time gets its opening balance, and a month that turned refills the free *)
(* allowance without carrying anything over.                               *)

\* Mutant of Ensured: what was used of the allowance survives the month.
EnsuredCarriesOver(t) ==
  IF t \notin opened THEN [NewRow(month) EXCEPT !.balance = Opening]
  ELSE [account[t] EXCEPT !.period = month]

Ensured(t) ==
  IF t \notin opened THEN [NewRow(month) EXCEPT !.balance = Opening]
  ELSE IF account[t].period # month
  THEN [account[t] EXCEPT !.period = month, !.freeUsed = 0]
  ELSE account[t]

\* Mutant of EnsuredLedger: the opening balance leaves no entry.
OpenedSilently(t) == ledger[t]

EnsuredLedger(t) ==
  IF t \notin opened /\ Opening # 0
  THEN <<GrantEntry(Opening, Opening, month)>> ELSE ledger[t]

Commit(t, row, entries) ==
  /\ account' = [account EXCEPT ![t] = row]
  /\ opened' = opened \union {t}
  /\ ledger' = [ledger EXCEPT ![t] = entries]

Smaller(a, b) == IF a <= b THEN a ELSE b
\* Mutant of AtLeastZero: max(0, ...) left out.
Unclamped(n) == n

AtLeastZero(n) == IF n \in Nat THEN n ELSE 0

FreeRemaining(row) == AtLeastZero(FreeMonthly - row.freeUsed)
\* Mutant of Available: what was used of the allowance is not taken off.
AvailableWithWholeAllowance(row) == FreeMonthly + row.balance - row.held

Available(row)     == FreeRemaining(row) + row.balance - row.held

\* Mutant of FromFree: the balance is drawn before the allowance.
FromFreeLast(row, cost) == Smaller(FreeRemaining(row), AtLeastZero(cost - row.balance))

\* What a cost takes from the allowance, then from the balance; what neither
\* covers is a shortfall, never a negative balance.
FromFree(row, cost)  == Smaller(FreeRemaining(row), cost)
\* Mutant of Shortfall: what cannot be paid in full is not paid at all.
ShortfallInFull(row, cost) ==
  IF gate /\ cost - FromFree(row, cost) > row.balance THEN cost - FromFree(row, cost) ELSE 0

Shortfall(row, cost) ==
  IF gate THEN AtLeastZero(cost - FromFree(row, cost) - row.balance) ELSE 0
FromBalance(row, cost) == cost - FromFree(row, cost) - Shortfall(row, cost)

\* Metering alone counts what was spent and moves nothing.
Billed(row, cost) ==
  [row EXCEPT !.spent    = @ + cost,
              !.balance  = IF gate THEN @ - FromBalance(row, cost) ELSE @,
              !.freeUsed = IF gate THEN @ + FromFree(row, cost) ELSE @]

BillEntry(reason, row, cost) ==
  [reason |-> reason, amount |-> -cost, applied |-> gate,
   after |-> Billed(row, cost).balance,
   free |-> IF gate THEN FromFree(row, cost) ELSE 0,
   short |-> Shortfall(row, cost), period |-> row.period]

Bill(t, reason, cost) ==
  LET row == Ensured(t)
  IN  Commit(t, Billed(row, cost), Append(EnsuredLedger(t), BillEntry(reason, row, cost)))

-----------------------------------------------------------------------------
\* account(): even a read opens the account or turns its month.
Account(t) ==
  /\ Commit(t, Ensured(t), EnsuredLedger(t))
  /\ UNCHANGED <<reservation, request, month, gate, restarts>>

Grant(t, n) ==
  LET row == Ensured(t) IN
  /\ Len(ledger[t]) < MaxEntries
  /\ row.balance + n >= 0
  /\ Commit(t, [row EXCEPT !.balance = @ + n],
            Append(EnsuredLedger(t), GrantEntry(n, row.balance + n, row.period)))
  /\ UNCHANGED <<reservation, request, month, gate, restarts>>

\* A run that declares some writes is admitted: under enforcement it holds their
\* cost, a runner that only meters (or writes that cost nothing) holds nothing.
Reserve(r, writes) ==
  LET t == Payer[r]
      row == Ensured(t)
      cost == writes * UnitCost
  IN
  /\ request[r] = "idle"
  /\ request' = [request EXCEPT ![r] = "admitted"]
  /\ \/ /\ gate /\ cost > 0
        /\ Available(row) >= cost
        /\ Commit(t, [row EXCEPT !.held = @ + cost], EnsuredLedger(t))
        /\ reservation' = [reservation EXCEPT ![r] = [amount |-> cost, status |-> "open"]]
     \/ /\ ~(gate /\ cost > 0)
        /\ UNCHANGED <<account, opened, ledger, reservation>>
  /\ UNCHANGED <<month, gate, restarts>>

\* InsufficientCredits: the transaction is abandoned, its _ensure included.
ReserveRefused(r, writes) ==
  /\ request[r] = "idle"
  /\ gate /\ Available(Ensured(Payer[r])) < writes * UnitCost
  /\ request' = [request EXCEPT ![r] = "refused"]
  /\ UNCHANGED <<account, opened, ledger, reservation, month, gate, restarts>>

\* Mutant of Release: a hold that is back already is given back again.
ReleaseAgain(r) ==
  /\ request[r] # "idle"
  /\ reservation[r].status # "none"
  /\ account' = [account EXCEPT ![Payer[r]].held = AtLeastZero(@ - reservation[r].amount)]
  /\ reservation' = [reservation EXCEPT ![r].status = "released"]
  /\ UNCHANGED <<opened, ledger, request, month, gate, restarts>>

\* release() on any run's reservation, however often: only an open hold moves.
Release(r) ==
  /\ request[r] # "idle"
  /\ reservation[r].status = "open"
  /\ account' = [account EXCEPT ![Payer[r]].held = AtLeastZero(@ - reservation[r].amount)]
  /\ reservation' = [reservation EXCEPT ![r].status = "released"]
  /\ UNCHANGED <<opened, ledger, request, month, gate, restarts>>

\* The second half of settle(): the hold is back, the writes that succeeded are
\* charged. Writing nothing costs nothing and records nothing.
Charge(r, writes) ==
  LET cost == writes * UnitCost IN
  /\ request[r] = "admitted"
  /\ reservation[r].status # "open"
  /\ request' = [request EXCEPT ![r] = "charged"]
  /\ IF cost > 0 THEN Bill(Payer[r], "run", cost)
     ELSE Commit(Payer[r], Ensured(Payer[r]), EnsuredLedger(Payer[r]))
  /\ UNCHANGED <<reservation, month, gate, restarts>>

\* record_assist of a turn answered by a remote model.
RecordAssist(t) ==
  /\ Len(ledger[t]) < MaxEntries
  /\ AssistCost > 0
  /\ Bill(t, "assist", AssistCost)
  /\ UNCHANGED <<reservation, request, month, gate, restarts>>

MonthTurns ==
  /\ month < MaxMonth
  /\ month' = month + 1
  /\ UNCHANGED <<account, opened, ledger, reservation, request, gate, restarts>>

\* The holds the process that died left open in the account of team t.
Stale(t) == {r \in Runs : Payer[r] = t /\ reservation[r].status = "open"}
HeldBy(S) == MapThenSumSet(LAMBDA r : reservation[r].amount, S)

\* The process restarts, perhaps with enforcement switched: release_stale() gives
\* every open hold back, and no thread is left to charge the runs that had it.
Restart ==
  /\ restarts < MaxRestarts
  /\ restarts' = restarts + 1
  /\ gate' \in BOOLEAN
  /\ account' = [t \in Teams |->
       [account[t] EXCEPT !.held = AtLeastZero(@ - HeldBy(Stale(t)))]]
  /\ reservation' = [r \in Runs |->
       IF reservation[r].status = "open"
       THEN [reservation[r] EXCEPT !.status = "abandoned"] ELSE reservation[r]]
  /\ request' = [r \in Runs |-> IF request[r] = "admitted" THEN "gone" ELSE request[r]]
  /\ UNCHANGED <<opened, ledger, month>>

Next ==
  \/ \E t \in Teams : Account(t) \/ RecordAssist(t) \/ \E n \in Grants : Grant(t, n)
  \/ \E r \in Runs, w \in 1..MaxWrites : Reserve(r, w) \/ ReserveRefused(r, w)
  \/ \E r \in Runs : Release(r) \/ \E w \in 0..MaxWrites : Charge(r, w)
  \/ MonthTurns
  \/ Restart

Spec == Init /\ [][Next]_vars

-----------------------------------------------------------------------------
TypeOK ==
  /\ account \in [Teams -> Row]
  /\ opened \subseteq Teams
  /\ ledger \in [Teams -> Seq(Entry)]
  /\ reservation \in [Runs -> Hold]
  /\ request \in [Runs -> {"idle", "refused", "admitted", "charged", "gone"}]
  /\ month \in Nat
  /\ gate \in BOOLEAN
  /\ restarts \in 0..MaxRestarts

Applied(e) == IF e.applied THEN e.amount + e.free + e.short ELSE 0

\* Entries that continue one another from zero up to a balance.
Explains(entries, balance) ==
  /\ \A i \in 1..Len(entries) :
       entries[i].after = (IF i = 1 THEN 0 ELSE entries[i - 1].after) + Applied(entries[i])
  /\ balance = IF Len(entries) = 0 THEN 0 ELSE entries[Len(entries)].after

\* The ledger accounts for every credit of the balance: each entry continues where
\* the one before it ended, and the last one is what the account row says. No
\* grant, charge, turn, month or restart moves a balance without an entry.
LedgerExplainsBalance ==
  \A t \in Teams : Explains(ledger[t], account[t].balance)

\* What could not be paid is recorded only against an account that is down to
\* zero; a balance is never driven below it, nor money forgiven while there is any.
ShortfallOnlyAtZero ==
  \A t \in Teams : \A i \in DOMAIN ledger[t] :
    ledger[t][i].short > 0 => ledger[t][i].applied /\ ledger[t][i].after = 0

\* The ledger can be audited: it explains every balance and every credit forgiven.
LedgerIsHonest == LedgerExplainsBalance /\ ShortfallOnlyAtZero

\* The held column is what the open reservations add up to, and a hold is open only
\* for a run this process admitted: none outlives its run or is given back twice.
HeldIsPromised ==
  /\ \A t \in Teams : account[t].held = HeldBy(Stale(t))
  /\ \A r \in Runs : reservation[r].status = "open" => request[r] = "admitted"

InMonth(t, m) == {i \in DOMAIN ledger[t] : ledger[t][i].period = m}
FreeIn(t, m)  == MapThenSumSet(LAMBDA i : ledger[t][i].free, InMonth(t, m))

\* The invoice of a month never waives more than the allowance, and what it waived
\* is what the row counts as used: a month that turns in mid-run, a restart or a
\* concurrent turn of the assistant burns no allowance twice.
FreeAllowanceAudited ==
  \A t \in Teams :
    /\ \A m \in 0..month : FreeIn(t, m) <= FreeMonthly
    /\ account[t].freeUsed = FreeIn(t, account[t].period)

\* The allowance is drawn first: a charge touches the balance (or falls short) only
\* when the month it is booked in has no free credit left.
FreeFirst ==
  [][\A t \in Teams :
       LET e == Last(ledger'[t]) IN
       /\ ledger'[t] # ledger[t]
       /\ e.reason # "grant" /\ (Applied(e) < 0 \/ e.short > 0)
       => account'[t].freeUsed = FreeMonthly]_ledger

\* The monthly allowance is spent first, once, and in the month it belongs to.
AllowanceIsHonest == []FreeAllowanceAudited /\ FreeFirst

=============================================================================
