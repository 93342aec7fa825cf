--------------------------- MODULE CreditsProofs ---------------------------
(***************************************************************************)
(* Proofs about the credit store, for any teams, runs, prices, allowances  *)
(* and grants.                                                             *)
(***************************************************************************)
EXTENDS CreditedRuns, FiniteSetTheorems, SequenceTheorems, WellFoundedInduction, TLAPS

-----------------------------------------------------------------------------
(* What one bill does to a row.                                            *)

LEMMA BillFacts ==
  ASSUME NEW row \in Row, NEW cost \in Nat, gate \in BOOLEAN
  PROVE  /\ FromFree(row, cost) \in Nat
         /\ Shortfall(row, cost) \in Nat
         /\ FromBalance(row, cost) \in Nat
         /\ gate => FromBalance(row, cost) <= row.balance
         /\ Shortfall(row, cost) > 0 => gate /\ FromBalance(row, cost) = row.balance
  BY CostAssumption
  DEF Row, FromFree, Shortfall, FromBalance, FreeRemaining, AtLeastZero, Smaller

LEMMA EnsuredIsRow ==
  ASSUME TypeOK, NEW t \in Teams
  PROVE  /\ Ensured(t) \in Row
         /\ EnsuredLedger(t) \in Seq(Entry)
<1> USE CostAssumption DEF TypeOK
<1>1. account[t] \in Row /\ ledger[t] \in Seq(Entry) /\ month \in Nat
  OBVIOUS
<1>2. NewRow(month) \in Row
  BY <1>1 DEF NewRow, Row
<1>3. Ensured(t) \in Row
  BY <1>1, <1>2 DEF Ensured, Row
<1>4. GrantEntry(Opening, Opening, month) \in Entry
  BY <1>1 DEF GrantEntry, Entry
<1>5. EnsuredLedger(t) \in Seq(Entry)
  BY <1>1, <1>4 DEF EnsuredLedger
<1> QED
  BY <1>3, <1>5

LEMMA BillTypes ==
  ASSUME NEW row \in Row, NEW cost \in Nat, gate \in BOOLEAN, NEW reason \in {"run", "assist"}
  PROVE  /\ Billed(row, cost) \in Row
         /\ BillEntry(reason, row, cost) \in Entry
<1> DEFINE balance == IF gate THEN row.balance - FromBalance(row, cost) ELSE row.balance
           freeUsed == IF gate THEN row.freeUsed + FromFree(row, cost) ELSE row.freeUsed
<1>1. Billed(row, cost) \in Row
  <2>1. Billed(row, cost) = [row EXCEPT !.spent = row.spent + cost,
                                        !.balance = balance, !.freeUsed = freeUsed]
    BY Zenon DEF Billed
  <2>2. balance \in Nat /\ freeUsed \in Nat /\ row.spent + cost \in Nat
    BY BillFacts DEF Row
  <2> HIDE DEF balance, freeUsed
  <2> QED
    BY <2>1, <2>2 DEF Row
<1>2. Billed(row, cost).balance \in Nat
  BY <1>1 DEF Row
<1>3. /\ (IF gate THEN FromFree(row, cost) ELSE 0) \in Nat
      /\ -cost \in Int
      /\ row.period \in Nat
  BY BillFacts DEF Row
<1>4. BillEntry(reason, row, cost) \in Entry
  BY <1>2, <1>3, BillFacts DEF BillEntry, Entry
<1> QED
  BY <1>1, <1>4

-----------------------------------------------------------------------------
(***************************************************************************)
(* The invariant. LedgerExplainsBalance needs to know that a team without a *)
(* row has no entry yet, since _ensure opens its account with one.         *)
(***************************************************************************)
UnopenedIsEmpty ==
  \A t \in Teams \ opened : ledger[t] = <<>> /\ account[t].balance = 0

LedgerInv ==
  /\ TypeOK
  /\ UnopenedIsEmpty
  /\ LedgerExplainsBalance
  /\ ShortfallOnlyAtZero

Sound(e) == e.short > 0 => e.applied /\ e.after = 0

LEMMA AppendExplains ==
  ASSUME NEW s \in Seq(Entry), NEW b \in Nat, NEW e \in Entry,
         Explains(s, b), e.after = b + Applied(e)
  PROVE  Explains(Append(s, e), e.after)
<1> DEFINE n == Len(s)
<1>1. /\ Len(Append(s, e)) = n + 1 /\ n \in Nat
      /\ Append(s, e)[n + 1] = e
      /\ \A i \in 1..n : Append(s, e)[i] = s[i]
  OBVIOUS
<1>2. ASSUME NEW i \in 1..(n + 1)
      PROVE  Append(s, e)[i].after =
               (IF i = 1 THEN 0 ELSE Append(s, e)[i - 1].after) + Applied(Append(s, e)[i])
  <2>1. CASE i \in 1..n
    BY <1>1, <2>1 DEF Explains
  <2>2. CASE i = n + 1 /\ n = 0
    BY <1>1, <2>2 DEF Explains
  <2>3. CASE i = n + 1 /\ n # 0
    BY <1>1, <2>3 DEF Explains
  <2> QED
    BY <1>1, <1>2, <2>1, <2>2, <2>3
<1> QED
  BY <1>1, <1>2 DEF Explains

LEMMA EnsuredExplains ==
  ASSUME LedgerInv, NEW t \in Teams
  PROVE  /\ Explains(EnsuredLedger(t), Ensured(t).balance)
         /\ \A i \in DOMAIN EnsuredLedger(t) : Sound(EnsuredLedger(t)[i])
<1> USE CostAssumption DEF LedgerInv
<1>1. CASE t \in opened
  <2>1. Ensured(t).balance = account[t].balance /\ EnsuredLedger(t) = ledger[t]
    BY <1>1 DEF Ensured, EnsuredLedger, TypeOK, Row
  <2> QED
    BY <2>1 DEF LedgerExplainsBalance, ShortfallOnlyAtZero, Sound
<1>2. CASE t \notin opened /\ Opening = 0
  <2>1. Ensured(t).balance = 0 /\ EnsuredLedger(t) = <<>>
    BY <1>2 DEF Ensured, EnsuredLedger, UnopenedIsEmpty, NewRow
  <2> QED
    BY <2>1 DEF Explains, Sound
<1>3. CASE t \notin opened /\ Opening # 0
  <2> DEFINE e == GrantEntry(Opening, Opening, month)
  <2>1. Ensured(t).balance = Opening /\ EnsuredLedger(t) = <<e>>
    BY <1>3 DEF Ensured, EnsuredLedger, NewRow
  <2>2. e.after = Opening /\ Applied(e) = Opening /\ e.short = 0
    BY DEF GrantEntry, Applied
  <2> QED
    BY <2>1, <2>2 DEF Explains, Sound
<1> QED
  BY <1>1, <1>2, <1>3

\* A committed transaction keeps the invariant when its own row and entries fit.
LEMMA CommitKeeps ==
  ASSUME LedgerInv, NEW t \in Teams, NEW row \in Row, NEW entries \in Seq(Entry),
         Explains(entries, row.balance), \A i \in DOMAIN entries : Sound(entries[i]),
         Commit(t, row, entries)
  PROVE  /\ account' \in [Teams -> Row]
         /\ ledger' \in [Teams -> Seq(Entry)]
         /\ opened' \subseteq Teams
         /\ UnopenedIsEmpty'
         /\ LedgerExplainsBalance'
         /\ ShortfallOnlyAtZero'
<1> USE DEF LedgerInv, TypeOK, Commit
<1>1. /\ account' \in [Teams -> Row]
      /\ ledger' \in [Teams -> Seq(Entry)]
      /\ opened' \subseteq Teams
  OBVIOUS
<1>2. UnopenedIsEmpty'
  BY DEF UnopenedIsEmpty
<1>3. \A u \in Teams : Explains(ledger'[u], account'[u].balance)
  BY DEF LedgerExplainsBalance
<1>4. \A u \in Teams : \A i \in DOMAIN ledger'[u] : Sound(ledger'[u][i])
  BY DEF ShortfallOnlyAtZero, Sound
<1> QED
  BY <1>1, <1>2, <1>3, <1>4 DEF LedgerExplainsBalance, ShortfallOnlyAtZero, Sound, Explains, Applied

LEMMA AppendSound ==
  ASSUME NEW s \in Seq(Entry), NEW e \in Entry, Sound(e),
         \A i \in DOMAIN s : Sound(s[i])
  PROVE  \A i \in DOMAIN Append(s, e) : Sound(Append(s, e)[i])
  OBVIOUS

LEMMA BillKeeps ==
  ASSUME LedgerInv, NEW t \in Teams, NEW cost \in Nat, NEW reason \in {"run", "assist"},
         Bill(t, reason, cost)
  PROVE  /\ account' \in [Teams -> Row]
         /\ ledger' \in [Teams -> Seq(Entry)]
         /\ opened' \subseteq Teams
         /\ UnopenedIsEmpty'
         /\ LedgerExplainsBalance'
         /\ ShortfallOnlyAtZero'
<1> DEFINE row == Ensured(t)
           e   == BillEntry(reason, row, cost)
<1>1. row \in Row /\ EnsuredLedger(t) \in Seq(Entry) /\ gate \in BOOLEAN
  BY EnsuredIsRow DEF LedgerInv, TypeOK
<1>2. Billed(row, cost) \in Row /\ e \in Entry
  BY <1>1, BillTypes
<1>3. row.balance \in Nat
  BY <1>1 DEF Row
<1>4. Billed(row, cost).balance = IF gate THEN row.balance - FromBalance(row, cost) ELSE row.balance
  BY <1>1 DEF Billed, Row
<1>5. e.after = Billed(row, cost).balance
  BY DEF BillEntry
<1>6. Applied(e) = IF gate THEN -FromBalance(row, cost) ELSE 0
  <2>1. /\ e.amount = -cost /\ e.short = Shortfall(row, cost)
        /\ e.free = IF gate THEN FromFree(row, cost) ELSE 0
    BY DEF BillEntry
  <2>2. e.applied = gate
    BY Zenon DEF BillEntry
  <2>3. CASE gate
    <3>1. e.free = FromFree(row, cost) /\ e.applied
      BY <2>1, <2>2, <2>3
    <3>2. Applied(e) = e.amount + e.free + e.short
      BY <3>1 DEF Applied
    <3>3. /\ FromFree(row, cost) \in Nat /\ Shortfall(row, cost) \in Nat
          /\ FromBalance(row, cost) = cost - FromFree(row, cost) - Shortfall(row, cost)
      BY <1>1, BillFacts DEF FromBalance
    <3> HIDE DEF e
    <3>4. Applied(e) = -FromBalance(row, cost)
      BY <2>1, <3>1, <3>2, <3>3
    <3> QED
      BY <2>3, <3>4
  <2>4. CASE ~gate
    <3>1. Applied(e) = 0
      BY <2>2, <2>4 DEF Applied
    <3> QED
      BY <2>4, <3>1
  <2> QED
    BY <2>3, <2>4
<1>7. e.after = row.balance + Applied(e)
  <2>1. FromBalance(row, cost) \in Nat
    BY <1>1, BillFacts
  <2>2. CASE gate
    <3>1. e.after = row.balance - FromBalance(row, cost)
      BY <1>4, <1>5, <2>2
    <3>2. Applied(e) = -FromBalance(row, cost)
      BY <1>6, <2>2
    <3> HIDE DEF e, row
    <3> QED
      BY <1>3, <2>1, <3>1, <3>2
  <2>3. CASE ~gate
    <3>1. e.after = row.balance
      BY <1>4, <1>5, <2>3
    <3>2. Applied(e) = 0
      BY <1>6, <2>3
    <3> HIDE DEF e, row
    <3> QED
      BY <1>3, <3>1, <3>2
  <2> QED
    BY <2>2, <2>3
<1>8. Sound(e)
  <2>1. e.short = Shortfall(row, cost) /\ e.applied = gate
    BY DEF BillEntry
  <2>2. ASSUME e.short > 0
        PROVE  gate /\ FromBalance(row, cost) = row.balance
    BY <1>1, <2>1, <2>2, BillFacts
  <2>3. ASSUME e.short > 0
        PROVE  e.applied /\ e.after = 0
    BY <1>3, <1>4, <1>5, <2>1, <2>2, <2>3
  <2> QED
    BY <2>3 DEF Sound
<1>9. /\ Explains(EnsuredLedger(t), row.balance)
      /\ \A i \in DOMAIN EnsuredLedger(t) : Sound(EnsuredLedger(t)[i])
  BY EnsuredExplains
<1>10. Append(EnsuredLedger(t), e) \in Seq(Entry)
  BY <1>1, <1>2
<1>11. Explains(Append(EnsuredLedger(t), e), Billed(row, cost).balance)
  BY <1>1, <1>2, <1>3, <1>5, <1>7, <1>9, AppendExplains
<1>12. \A i \in DOMAIN Append(EnsuredLedger(t), e) : Sound(Append(EnsuredLedger(t), e)[i])
  BY <1>1, <1>2, <1>8, <1>9, AppendSound
<1>13. Commit(t, Billed(row, cost), Append(EnsuredLedger(t), e))
  BY DEF Bill
<1> QED
  BY <1>2, <1>10, <1>11, <1>12, <1>13, CommitKeeps

\* Opening an account or turning its month, alone or with a hold on top.
LEMMA EnsureKeeps ==
  ASSUME LedgerInv, NEW t \in Teams, NEW row \in Row, row.balance = Ensured(t).balance,
         Commit(t, row, EnsuredLedger(t))
  PROVE  /\ account' \in [Teams -> Row]
         /\ ledger' \in [Teams -> Seq(Entry)]
         /\ opened' \subseteq Teams
         /\ UnopenedIsEmpty'
         /\ LedgerExplainsBalance'
         /\ ShortfallOnlyAtZero'
<1>1. EnsuredLedger(t) \in Seq(Entry)
  BY EnsuredIsRow DEF LedgerInv
<1> QED
  BY <1>1, EnsuredExplains, CommitKeeps

LEMMA LedgerStep == LedgerInv /\ [Next]_vars => LedgerInv'
<1> SUFFICES ASSUME LedgerInv, [Next]_vars PROVE LedgerInv'
  OBVIOUS
<1> USE PayerAssumption, CostAssumption, BoundAssumption
<1>0. TypeOK
  BY DEF LedgerInv
<1>1. ASSUME NEW t \in Teams, Account(t) PROVE LedgerInv'
  <2>1. Ensured(t) \in Row /\ Commit(t, Ensured(t), EnsuredLedger(t))
    BY <1>0, <1>1, EnsuredIsRow DEF Account
  <2> QED
    BY <1>0, <1>1, <2>1, EnsureKeeps DEF Account, LedgerInv, TypeOK
<1>2. ASSUME NEW t \in Teams, RecordAssist(t) PROVE LedgerInv'
  <2>1. Bill(t, "assist", AssistCost)
    BY <1>2 DEF RecordAssist
  <2> QED
    BY <1>0, <1>2, <2>1, BillKeeps DEF RecordAssist, LedgerInv, TypeOK
<1>3. ASSUME NEW t \in Teams, NEW n \in Grants, Grant(t, n) PROVE LedgerInv'
  <2> DEFINE row == Ensured(t)
             b   == row.balance + n
             e   == GrantEntry(n, b, row.period)
  <2>1. row \in Row /\ EnsuredLedger(t) \in Seq(Entry) /\ n \in Int
    BY <1>0, EnsuredIsRow, GrantAssumption
  <2>2. b \in Nat /\ row.period \in Nat
    BY <1>3, <2>1 DEF Grant, Row
  <2>3. e \in Entry /\ e.after = b /\ Applied(e) = n /\ e.short = 0
    BY <2>1, <2>2 DEF GrantEntry, Entry, Applied
  <2>4. e.after = row.balance + Applied(e) /\ Sound(e)
    BY <2>3 DEF Sound
  <2>5. /\ Explains(EnsuredLedger(t), row.balance)
        /\ \A i \in DOMAIN EnsuredLedger(t) : Sound(EnsuredLedger(t)[i])
    BY EnsuredExplains
  <2>6. /\ [row EXCEPT !.balance = b] \in Row
        /\ [row EXCEPT !.balance = b].balance = b
        /\ Append(EnsuredLedger(t), e) \in Seq(Entry)
        /\ row.balance \in Nat
    <3>1. Append(EnsuredLedger(t), e) \in Seq(Entry)
      BY <2>1, <2>3
    <3>2. row.balance \in Nat
      BY <2>1 DEF Row
    <3> HIDE DEF row, b, e
    <3>3. [row EXCEPT !.balance = b] \in Row /\ [row EXCEPT !.balance = b].balance = b
      BY <2>1, <2>2 DEF Row
    <3> QED
      BY <3>1, <3>2, <3>3
  <2>7. Explains(Append(EnsuredLedger(t), e), b)
    BY <2>1, <2>3, <2>4, <2>5, <2>6, AppendExplains
  <2>8. \A i \in DOMAIN Append(EnsuredLedger(t), e) : Sound(Append(EnsuredLedger(t), e)[i])
    BY <2>1, <2>3, <2>4, <2>5, AppendSound
  <2>9. Commit(t, [row EXCEPT !.balance = b], Append(EnsuredLedger(t), e))
    BY <1>3, <2>2 DEF Grant
  <2> QED
    BY <1>0, <1>3, <2>6, <2>7, <2>8, <2>9, CommitKeeps DEF Grant, LedgerInv, TypeOK
<1>4. ASSUME NEW r \in Runs, NEW w \in 1..MaxWrites, Reserve(r, w) PROVE LedgerInv'
  <2> DEFINE t == Payer[r]
             cost == w * UnitCost
             row == [Ensured(t) EXCEPT !.held = @ + cost]
  <2>1. t \in Teams /\ cost \in Nat
    OBVIOUS
  <2>2. Ensured(t) \in Row
    BY <1>0, <2>1, EnsuredIsRow
  <2>3. row \in Row /\ row.balance = Ensured(t).balance
    BY <2>1, <2>2 DEF Row
  <2>4. CASE gate /\ cost > 0
    <3>1. Commit(t, row, EnsuredLedger(t))
      BY <1>4, <2>4 DEF Reserve
    <3>2. reservation' = [reservation EXCEPT ![r] = [amount |-> cost, status |-> "open"]]
      BY <1>4, <2>4 DEF Reserve
    <3>3. reservation' \in [Runs -> Hold]
      BY <1>0, <2>1, <3>2 DEF TypeOK, Hold
    <3> QED
      BY <1>0, <1>4, <2>1, <2>3, <3>1, <3>3, EnsureKeeps DEF Reserve, LedgerInv, TypeOK
  <2>5. CASE ~(gate /\ cost > 0)
    <3>1. UNCHANGED <<account, opened, ledger, reservation>>
      BY <1>4, <2>5 DEF Reserve
    <3> QED
      BY <1>0, <1>4, <3>1 DEF Reserve, LedgerInv, TypeOK, UnopenedIsEmpty,
         LedgerExplainsBalance, ShortfallOnlyAtZero
  <2> QED
    BY <2>4, <2>5
<1>5. ASSUME NEW r \in Runs, NEW w \in 1..MaxWrites, ReserveRefused(r, w) PROVE LedgerInv'
  BY <1>0, <1>5 DEF ReserveRefused, LedgerInv, TypeOK, UnopenedIsEmpty,
     LedgerExplainsBalance, ShortfallOnlyAtZero
<1>6. ASSUME NEW r \in Runs, Release(r) PROVE LedgerInv'
  <2>1. account' \in [Teams -> Row]
    <3>1. AtLeastZero(account[Payer[r]].held - reservation[r].amount) \in Nat
      BY DEF AtLeastZero
    <3>2. Payer[r] \in Teams /\ account[Payer[r]] \in Row
      BY <1>0 DEF TypeOK
    <3>3. [account[Payer[r]] EXCEPT
            !.held = AtLeastZero(account[Payer[r]].held - reservation[r].amount)] \in Row
      BY <3>1, <3>2 DEF Row
    <3> QED
      BY <1>0, <1>6, <3>3 DEF Release, TypeOK
  <2>2. \A t \in Teams : account'[t].balance = account[t].balance
    BY <1>0, <1>6 DEF Release, TypeOK, Row
  <2>3. reservation' \in [Runs -> Hold]
    BY <1>0, <1>6 DEF Release, TypeOK, Hold
  <2> QED
    BY <1>0, <1>6, <2>1, <2>2, <2>3 DEF Release, LedgerInv, TypeOK, UnopenedIsEmpty,
       LedgerExplainsBalance, ShortfallOnlyAtZero
<1>7. ASSUME NEW r \in Runs, NEW w \in 0..MaxWrites, Charge(r, w) PROVE LedgerInv'
  <2>1. Payer[r] \in Teams /\ w * UnitCost \in Nat
    OBVIOUS
  <2>2. CASE w * UnitCost > 0
    <3>1. Bill(Payer[r], "run", w * UnitCost)
      BY <1>7, <2>2 DEF Charge
    <3> QED
      BY <1>0, <1>7, <2>1, <3>1, BillKeeps DEF Charge, LedgerInv, TypeOK
  <2>3. CASE ~(w * UnitCost > 0)
    <3>1. Commit(Payer[r], Ensured(Payer[r]), EnsuredLedger(Payer[r]))
      BY <1>7, <2>3 DEF Charge
    <3> QED
      BY <1>0, <1>7, <2>1, <3>1, EnsuredIsRow, EnsureKeeps DEF Charge, LedgerInv, TypeOK
  <2> QED
    BY <2>2, <2>3
<1>8. CASE MonthTurns
  BY <1>0, <1>8 DEF MonthTurns, LedgerInv, TypeOK, UnopenedIsEmpty,
     LedgerExplainsBalance, ShortfallOnlyAtZero
<1>9. CASE Restart
  <2>1. account' \in [Teams -> Row]
    BY <1>0, <1>9 DEF Restart, TypeOK, Row, AtLeastZero
  <2>2. \A t \in Teams : account'[t].balance = account[t].balance
    BY <1>0, <1>9 DEF Restart, TypeOK, Row
  <2>3. reservation' \in [Runs -> Hold]
    BY <1>0, <1>9 DEF Restart, TypeOK, Hold
  <2>4. /\ request' \in [Runs -> {"idle", "refused", "admitted", "charged", "gone"}]
        /\ restarts' \in 0..MaxRestarts
    BY <1>0, <1>9 DEF Restart, TypeOK
  <2> QED
    BY <1>0, <1>9, <2>1, <2>2, <2>3, <2>4 DEF Restart, LedgerInv, TypeOK, UnopenedIsEmpty,
       LedgerExplainsBalance, ShortfallOnlyAtZero
<1>10. CASE UNCHANGED vars
  BY <1>0, <1>10 DEF vars, LedgerInv, TypeOK, UnopenedIsEmpty,
     LedgerExplainsBalance, ShortfallOnlyAtZero
<1> QED
  BY <1>1, <1>2, <1>3, <1>4, <1>5, <1>6, <1>7, <1>8, <1>9, <1>10 DEF Next

LEMMA LedgerInit == Init => LedgerInv
<1> SUFFICES ASSUME Init PROVE LedgerInv
  OBVIOUS
<1> USE CostAssumption, BoundAssumption DEF Init
<1>1. TypeOK
  BY DEF TypeOK, NewRow, Row, Hold
<1>2. UnopenedIsEmpty /\ LedgerExplainsBalance /\ ShortfallOnlyAtZero
  BY DEF UnopenedIsEmpty, LedgerExplainsBalance, ShortfallOnlyAtZero, Explains, NewRow
<1> QED
  BY <1>1, <1>2 DEF LedgerInv

-----------------------------------------------------------------------------
LEMMA LedgerInvariant == Spec => []LedgerInv
  BY LedgerInit, LedgerStep, PTL DEF Spec

\* Type correctness of the credit store.
THEOREM CreditTypes == Spec => []TypeOK
<1>1. LedgerInv => TypeOK
  BY DEF LedgerInv
<1> QED
  BY <1>1, LedgerInvariant, PTL

\* Every balance is what its ledger says, whatever is interleaved with whatever.
THEOREM BalanceIsExplained == Spec => []LedgerExplainsBalance
<1>1. LedgerInv => LedgerExplainsBalance
  BY DEF LedgerInv
<1> QED
  BY <1>1, LedgerInvariant, PTL

\* A shortfall is recorded only against an account that is down to zero.
THEOREM ShortfallIsHonest == Spec => []ShortfallOnlyAtZero
<1>1. LedgerInv => ShortfallOnlyAtZero
  BY DEF LedgerInv
<1> QED
  BY <1>1, LedgerInvariant, PTL

\* No credit appears, disappears or is forgiven without an entry that says so.
THEOREM LedgerCanBeAudited == Spec => []LedgerIsHonest
<1>1. LedgerExplainsBalance /\ ShortfallOnlyAtZero => LedgerIsHonest
  BY DEF LedgerIsHonest
<1> QED
  BY <1>1, BalanceIsExplained, ShortfallIsHonest, PTL

-----------------------------------------------------------------------------
\* The run lock and the order in which a route reserves, gives back and settles only
\* restrict what the store does: every behaviour of the routes is one of the store,
\* and what is proved of it above holds while they use it.
THEOREM RoutesUseTheStore == SpecRuns => Spec
<1>1. InitRuns => Init
  BY DEF InitRuns
<1>2. [NextRuns]_runVars => [Next]_vars
  <2> SUFFICES ASSUME [NextRuns]_runVars PROVE Next \/ UNCHANGED vars
    OBVIOUS
  <2>1. ASSUME NEW r \in Runs, NEW w \in 1..MaxWrites, AdmitRun(r, w) \/ RefuseRun(r, w)
        PROVE  Next
    BY <2>1 DEF AdmitRun, RefuseRun, Next
  <2>2. ASSUME NEW r \in Runs, Leave(r)
        PROVE  UNCHANGED vars
    BY <2>2 DEF Leave
  <2>3. ASSUME NEW r \in Runs, ReleaseRun(r)
        PROVE  Next
    BY <2>3 DEF ReleaseRun, Next
  <2>4. ASSUME NEW r \in Runs, NEW w \in 0..MaxWrites, ChargeRun(r, w)
        PROVE  Next
    BY <2>4 DEF ChargeRun, Next
  <2>5. CASE Meanwhile
    BY <2>5 DEF Meanwhile, Next
  <2>6. CASE RestartRuns
    BY <2>6 DEF RestartRuns, Next
  <2>7. CASE UNCHANGED runVars
    BY <2>7 DEF runVars
  <2> QED
    BY <2>1, <2>2, <2>3, <2>4, <2>5, <2>6, <2>7 DEF NextRuns
<1> QED
  BY <1>1, <1>2, PTL DEF Spec, SpecRuns

-----------------------------------------------------------------------------
(* The allowance of an account.                                             *)

\* No account is ahead of the calendar, or has used more than the allowance.
AccountsInv == \A t \in Teams : account[t].period <= month /\ account[t].freeUsed <= FreeMonthly

LEMMA EnsuredWithin ==
  ASSUME TypeOK, AccountsInv, NEW t \in Teams
  PROVE  Ensured(t).period = month /\ Ensured(t).freeUsed <= FreeMonthly
BY CostAssumption DEF TypeOK, Row, Ensured, NewRow, AccountsInv

LEMMA BilledWithin ==
  ASSUME NEW row \in Row, row.freeUsed <= FreeMonthly, NEW cost \in Nat, gate \in BOOLEAN
  PROVE  Billed(row, cost).period = row.period /\ Billed(row, cost).freeUsed <= FreeMonthly
<1>1. FromFree(row, cost) \in Nat /\ FromFree(row, cost) <= FreeMonthly - row.freeUsed
  BY CostAssumption DEF FromFree, Smaller, FreeRemaining, AtLeastZero, Row
<1>2. Billed(row, cost).period = row.period
      /\ Billed(row, cost).freeUsed = IF gate THEN row.freeUsed + FromFree(row, cost) ELSE row.freeUsed
  BY DEF Billed, Row
<1> QED BY <1>1, <1>2, CostAssumption DEF Row

LEMMA AccountsStep == LedgerInv /\ AccountsInv /\ [Next]_vars => AccountsInv'
<1> SUFFICES ASSUME LedgerInv, AccountsInv, [Next]_vars PROVE AccountsInv'
  OBVIOUS
<1> USE PayerAssumption
<1>1. /\ TypeOK
      /\ \A t \in Teams : Ensured(t) \in Row /\ Ensured(t).period = month /\ Ensured(t).freeUsed <= FreeMonthly
  BY EnsuredIsRow, EnsuredWithin DEF LedgerInv
<1>2. ASSUME NEW t \in Teams, NEW row, NEW entries, Commit(t, row, entries), month' = month,
             row.period = month, row.freeUsed <= FreeMonthly
      PROVE  AccountsInv'
  BY <1>1, <1>2 DEF AccountsInv, Commit, TypeOK
<1>3. CASE UNCHANGED <<account, month>>
  BY <1>3 DEF AccountsInv
<1>4. ASSUME NEW t \in Teams, NEW reason, NEW cost \in Nat, Bill(t, reason, cost), month' = month PROVE AccountsInv'
  <2>1. Billed(Ensured(t), cost).period = month /\ Billed(Ensured(t), cost).freeUsed <= FreeMonthly
    BY <1>1, BilledWithin DEF TypeOK
  <2> QED BY <1>2, <1>4, <2>1 DEF Bill
<1>5. ASSUME NEW t \in Teams, Account(t) PROVE AccountsInv'
  BY <1>1, <1>2, <1>5 DEF Account
<1>6. ASSUME NEW t \in Teams, RecordAssist(t) PROVE AccountsInv'
  BY <1>4, <1>6, CostAssumption DEF RecordAssist
<1>7. ASSUME NEW t \in Teams, NEW n \in Grants, Grant(t, n) PROVE AccountsInv'
  <2> DEFINE row == [Ensured(t) EXCEPT !.balance = @ + n]
  <2>1. row.period = month /\ row.freeUsed <= FreeMonthly
    BY <1>1 DEF Row
  <2>2. \E entries : Commit(t, row, entries)
    BY <1>7 DEF Grant
  <2> HIDE DEF row
  <2> QED BY <1>2, <1>7, <2>1, <2>2 DEF Grant
<1>8. ASSUME NEW r \in Runs, NEW w \in 1..MaxWrites, Reserve(r, w) PROVE AccountsInv'
  <2> DEFINE row == [Ensured(Payer[r]) EXCEPT !.held = @ + w * UnitCost]
  <2>1. row.period = month /\ row.freeUsed <= FreeMonthly
    BY <1>1 DEF Row
  <2>2. Commit(Payer[r], row, EnsuredLedger(Payer[r])) \/ UNCHANGED account
    BY <1>8 DEF Reserve
  <2>3. month' = month
    BY <1>8 DEF Reserve
  <2> HIDE DEF row
  <2> QED BY <1>2, <1>3, <2>1, <2>2, <2>3
<1>9. ASSUME NEW r \in Runs, Release(r) PROVE AccountsInv'
  BY <1>1, <1>9 DEF Release, AccountsInv, TypeOK, Row
<1>10. ASSUME NEW r \in Runs, NEW w \in 0..MaxWrites, Charge(r, w) PROVE AccountsInv'
  <2>1. w * UnitCost \in Nat /\ month' = month
    BY <1>10, CostAssumption, BoundAssumption DEF Charge
  <2>2. CASE Bill(Payer[r], "run", w * UnitCost)
    BY <1>4, <2>1, <2>2
  <2>3. CASE Commit(Payer[r], Ensured(Payer[r]), EnsuredLedger(Payer[r]))
    BY <1>1, <1>2, <2>1, <2>3
  <2> QED BY <1>10, <2>2, <2>3 DEF Charge
<1>11. CASE MonthTurns
  BY <1>1, <1>11 DEF MonthTurns, AccountsInv, TypeOK, Row
<1>12. CASE Restart
  BY <1>1, <1>12 DEF Restart, AccountsInv, TypeOK, Row
<1>13. CASE UNCHANGED vars
  BY <1>3, <1>13 DEF vars
<1> QED
  BY <1>3, <1>5, <1>6, <1>7, <1>8, <1>9, <1>10, <1>11, <1>12, <1>13 DEF Next, ReserveRefused

LEMMA AccountsInvariant == Spec => []AccountsInv
<1>1. Init => AccountsInv
  BY CostAssumption DEF Init, AccountsInv, NewRow
<1> QED BY <1>1, LedgerInvariant, AccountsStep, PTL DEF Spec

-----------------------------------------------------------------------------
(* What the admission check is worth.                                       *)

\* What an account can pay: what is left of the allowance, and the balance.
Funds(row) == FreeRemaining(row) + row.balance

LEMMA CommittedRow ==
  ASSUME TypeOK, NEW t \in Teams, NEW row \in Row, NEW entries, Commit(t, row, entries),
         row.period = month, month' = month
  PROVE  /\ Ensured(t)' = row
         /\ \A u \in Teams \ {t} : Ensured(u)' = Ensured(u) /\ ledger'[u] = ledger[u]
         /\ ledger'[t] = entries
BY DEF TypeOK, Commit, Ensured

LEMMA EnsuredPeriod == ASSUME TypeOK, NEW t \in Teams PROVE Ensured(t).period = month
BY DEF TypeOK, Row, Ensured, NewRow

\* What was spent by others than runs stays in the ledger.
LEMMA SpendingStays ==
  ASSUME LedgerInv, NEW t \in Teams, NEW e \in Entry
  PROVE  /\ OnlyRunsSpend(EnsuredLedger(t)) => OnlyRunsSpend(ledger[t])
         /\ OnlyRunsSpend(Append(EnsuredLedger(t), e)) =>
              OnlyRunsSpend(ledger[t]) /\ (e.reason = "run" \/ e.amount >= 0)
<1>1. OnlyRunsSpend(EnsuredLedger(t)) => OnlyRunsSpend(ledger[t])
  BY DEF LedgerInv, UnopenedIsEmpty, TypeOK, EnsuredLedger, OnlyRunsSpend
<1>2. EnsuredLedger(t) \in Seq(Entry)
  BY EnsuredIsRow DEF LedgerInv
<1> DEFINE s == EnsuredLedger(t)
<1> HIDE DEF s
<1>3. ASSUME OnlyRunsSpend(Append(s, e)) PROVE OnlyRunsSpend(s) /\ (e.reason = "run" \/ e.amount >= 0)
  <2>1. s \in Seq(Entry)
    BY <1>2 DEF s
  <2>2. Len(Append(s, e)) = Len(s) + 1 /\ Append(s, e)[Len(s) + 1] = e
        /\ \A i \in 1 .. Len(s) : Append(s, e)[i] = s[i]
    BY <2>1
  <2>3. DOMAIN Append(s, e) = 1 .. Len(s) + 1 /\ DOMAIN s = 1 .. Len(s) /\ Len(s) \in Nat
    BY <2>1
  <2> QED BY <1>3, <2>2, <2>3 DEF OnlyRunsSpend
<1> QED BY <1>1, <1>3 DEF s

\* While a run that is to pay has the lock, nobody else takes what it reserved.
Covered(r) ==
  running = r /\ request[r] = "admitted" /\ OnlyRunsSpend(ledger[Payer[r]])
  => reservation[r].amount <= Funds(Ensured(Payer[r]))

CoverInv ==
  /\ \A r \in Runs : request[r] = "idle" => reservation[r].amount = 0
  /\ \A r \in Runs : Covered(r)

\* Nothing runs hold changes, and an account that only runs spend from is not poorer.
LEMMA FundsAreNat == LedgerInv => \A t \in Teams : Funds(Ensured(t)) \in Nat
<1> SUFFICES ASSUME LedgerInv, NEW t \in Teams PROVE Funds(Ensured(t)) \in Nat
  OBVIOUS
<1>1. Ensured(t) \in Row
  BY EnsuredIsRow DEF LedgerInv
<1> QED BY <1>1, CostAssumption DEF Funds, FreeRemaining, AtLeastZero, Row

LEMMA RowsAreEnsured == LedgerInv => \A t \in Teams : Ensured(t) \in Row
BY EnsuredIsRow DEF LedgerInv

LEMMA RowsStayEnsured == LedgerInv' => (\A t \in Teams : Ensured(t) \in Row)'
BY RowsAreEnsured, PTL

LEMMA FundsStayNat == LedgerInv' => (\A t \in Teams : Funds(Ensured(t)) \in Nat)'
BY FundsAreNat, PTL

LEMMA CoverStays ==
  ASSUME LedgerInv, LedgerInv', CoverInv, UNCHANGED <<running, request>>,
         \A r \in Runs : reservation'[r].amount = reservation[r].amount,
         \A t \in Teams : OnlyRunsSpend(ledger'[t]) =>
           OnlyRunsSpend(ledger[t]) /\ Funds(Ensured(t)) <= Funds(Ensured(t))'
  PROVE  CoverInv'
<1>1. \A r \in Runs : Payer[r] \in Teams /\ reservation[r].amount \in Nat
  BY PayerAssumption DEF LedgerInv, TypeOK, Hold
<1>2. \A t \in Teams : Funds(Ensured(t)) \in Nat /\ Funds(Ensured(t))' \in Nat
  BY FundsAreNat, FundsStayNat
<1> QED BY <1>1, <1>2 DEF CoverInv, Covered

LEMMA CoverStep ==
  ASSUME \A r \in Runs : RouteOf[r] = "stream",
         LedgerInv, LedgerInv', AccountsInv, CoverInv, [NextRuns]_runVars
  PROVE  CoverInv'
<1> USE PayerAssumption
<1>1. /\ TypeOK
      /\ \A t \in Teams : Ensured(t) \in Row /\ Ensured(t).period = month /\ EnsuredLedger(t) \in Seq(Entry)
      /\ \A t \in Teams : Funds(Ensured(t)) \in Nat
  BY EnsuredIsRow, EnsuredPeriod, FundsAreNat DEF LedgerInv
<1>2. ASSUME UNCHANGED <<account, opened, ledger, reservation, request, month>>, running' = running \/ running' = NoRun
      PROVE  CoverInv'
  <2>1. \A t \in Teams : Ensured(t)' = Ensured(t)
    BY <1>2 DEF Ensured
  <2> QED BY <1>2, <2>1, NoRunAssumption DEF CoverInv, Covered
\* An account that is opened, or whose month turns.
<1>3. ASSUME NEW t \in Teams, NEW row \in Row, Commit(t, row, EnsuredLedger(t)), row.period = month,
             Funds(row) = Funds(Ensured(t)), month' = month, UNCHANGED <<running, request>>,
             \A r \in Runs : reservation'[r].amount = reservation[r].amount
      PROVE  CoverInv'
  <2>1. \A u \in Teams : OnlyRunsSpend(ledger'[u]) =>
           OnlyRunsSpend(ledger[u]) /\ Funds(Ensured(u)) <= Funds(Ensured(u))'
    <3> TAKE u \in Teams
    <3>1. CASE u = t
      <4>1. Ensured(t)' = row /\ ledger'[t] = EnsuredLedger(t)
        BY <1>1, <1>3, CommittedRow
      <4>2. \A e \in Entry : OnlyRunsSpend(EnsuredLedger(t)) => OnlyRunsSpend(ledger[t])
        BY SpendingStays
      <4>3. GrantEntry(0, 0, month) \in Entry
        BY <1>1 DEF GrantEntry, Entry, TypeOK
      <4> QED BY <1>1, <1>3, <3>1, <4>1, <4>2, <4>3 DEF Funds, FreeRemaining
    <3>2. CASE u # t
      <4>1. Ensured(u)' = Ensured(u) /\ ledger'[u] = ledger[u]
        BY <1>1, <1>3, <3>2, CommittedRow
      <4> QED BY <1>1, <4>1 DEF Funds, FreeRemaining
    <3> QED BY <3>1, <3>2
  <2> QED BY <1>3, <2>1, CoverStays
\* An entry is added: one that takes nothing away, or one that is not of a run.
<1>4. ASSUME NEW t \in Teams, NEW row \in Row, NEW e \in Entry,
             Commit(t, row, Append(EnsuredLedger(t), e)), row.period = month,
             e.reason # "run", e.amount >= 0 => Funds(Ensured(t)) <= Funds(row),
             month' = month, UNCHANGED <<running, request, reservation>>
      PROVE  CoverInv'
  <2>1. \A u \in Teams : OnlyRunsSpend(ledger'[u]) =>
           OnlyRunsSpend(ledger[u]) /\ Funds(Ensured(u)) <= Funds(Ensured(u))'
    <3> TAKE u \in Teams
    <3>1. CASE u = t
      <4>1. Ensured(t)' = row /\ ledger'[t] = Append(EnsuredLedger(t), e)
        BY <1>1, <1>4, CommittedRow
      <4>2. OnlyRunsSpend(Append(EnsuredLedger(t), e)) => OnlyRunsSpend(ledger[t]) /\ e.amount >= 0
        BY <1>4, SpendingStays
      <4> QED BY <1>4, <3>1, <4>1, <4>2 DEF Funds, FreeRemaining
    <3>2. CASE u # t
      <4>1. Ensured(u)' = Ensured(u) /\ ledger'[u] = ledger[u]
        BY <1>1, <1>4, <3>2, CommittedRow
      <4> QED BY <1>1, <4>1 DEF Funds, FreeRemaining
    <3> QED BY <3>1, <3>2
  <2> QED BY <1>4, <2>1, CoverStays
<1>5. ASSUME NEW t \in Teams, Account(t), UNCHANGED running PROVE CoverInv'
  BY <1>1, <1>3, <1>5 DEF Account
<1>6. ASSUME NEW t \in Teams, RecordAssist(t), UNCHANGED running PROVE CoverInv'
  <2> DEFINE row == Billed(Ensured(t), AssistCost)
             e == BillEntry("assist", Ensured(t), AssistCost)
  <2>1. row \in Row /\ e \in Entry /\ row.period = month /\ e.reason = "assist" /\ e.amount = -AssistCost
    <3>1. Ensured(t) \in Row /\ Ensured(t).period = month /\ AssistCost \in Nat /\ gate \in BOOLEAN
      BY <1>1, CostAssumption DEF TypeOK
    <3>2. row \in Row /\ e \in Entry BY <3>1, BillTypes
    <3>3. row.period = Ensured(t).period BY <3>1 DEF Billed, Row
    <3>4. e.reason = "assist" /\ e.amount = -AssistCost BY DEF BillEntry
    <3> QED BY <3>1, <3>2, <3>3, <3>4
  <2>2. AssistCost \in Nat /\ AssistCost > 0 /\ Commit(t, row, Append(EnsuredLedger(t), e))
    BY <1>6, CostAssumption DEF RecordAssist, Bill
  <2>3. UNCHANGED <<running, request, reservation>> /\ month' = month
    BY <1>6 DEF RecordAssist
  <2> HIDE DEF row, e
  <2> QED BY <1>4, <2>1, <2>2, <2>3
<1>7. ASSUME NEW t \in Teams, NEW n \in Grants, Grant(t, n), UNCHANGED running PROVE CoverInv'
  <2> DEFINE row == [Ensured(t) EXCEPT !.balance = @ + n]
             e == GrantEntry(n, Ensured(t).balance + n, Ensured(t).period)
  <2>1. n \in Int /\ Ensured(t).balance + n \in Nat /\ Commit(t, row, Append(EnsuredLedger(t), e))
    BY <1>1, <1>7, GrantAssumption DEF Grant, Row
  <2>2. row \in Row /\ row.period = month /\ e \in Entry /\ e.reason = "grant" /\ e.amount = n
    BY <1>1, <2>1 DEF Row, GrantEntry, Entry, TypeOK
  <2>3. e.amount >= 0 => Funds(Ensured(t)) <= Funds(row)
    <3>1. Ensured(t).balance \in Nat /\ row.balance = Ensured(t).balance + n /\ FreeRemaining(row) = FreeRemaining(Ensured(t))
      BY <1>1 DEF Row, FreeRemaining
    <3>2. FreeRemaining(Ensured(t)) \in Nat
      BY <1>1, CostAssumption DEF Row, FreeRemaining, AtLeastZero
    <3> QED BY <2>1, <2>2, <3>1, <3>2 DEF Funds
  <2>4. UNCHANGED <<running, request, reservation>> /\ month' = month
    BY <1>7 DEF Grant
  <2> HIDE DEF row, e
  <2> QED BY <1>4, <2>1, <2>2, <2>3, <2>4
<1>8. ASSUME NEW r \in Runs, NEW w \in 1..MaxWrites, AdmitRun(r, w) PROVE CoverInv'
  <2> DEFINE t == Payer[r]
             cost == w * UnitCost
             row == [Ensured(t) EXCEPT !.held = @ + cost]
  <2>1. running' = r /\ month' = month /\ request[r] = "idle" /\ request' = [request EXCEPT ![r] = "admitted"]
    BY <1>8 DEF AdmitRun, Reserve
  <2>2. \A q \in Runs : request'[q] = "idle" => q # r /\ request[q] = "idle"
    BY <1>1, <2>1 DEF TypeOK
  <2>3. CASE /\ Available(Ensured(t)) >= cost /\ Commit(t, row, EnsuredLedger(t))
             /\ reservation' = [reservation EXCEPT ![r] = [amount |-> cost, status |-> "open"]]
    <3>1. cost \in Nat /\ t \in Teams
      BY <1>1, CostAssumption, BoundAssumption
    <3> HIDE DEF cost
    <3>2. /\ row \in Row /\ row.period = month /\ row.balance = Ensured(t).balance
          /\ row.freeUsed = Ensured(t).freeUsed /\ Ensured(t).held \in Nat
      <4>1. Ensured(t) \in Row /\ Ensured(t).period = month
        BY <1>1, <3>1
      <4> QED BY <3>1, <4>1 DEF Row
    <3> HIDE DEF row
    <3>3. Funds(row) = Funds(Ensured(t))
      BY <3>2 DEF Funds, FreeRemaining
    <3>4. cost <= Funds(Ensured(t))
      <4>1. Available(Ensured(t)) = Funds(Ensured(t)) - Ensured(t).held
        <5>1. Ensured(t) \in Row
          BY <1>1, <3>1
        <5>2. FreeRemaining(Ensured(t)) \in Nat
          BY <5>1, CostAssumption DEF FreeRemaining, AtLeastZero, Row
        <5> QED BY <5>1, <5>2 DEF Available, Funds, Row
      <4> QED BY <1>1, <2>3, <3>1, <3>2, <4>1
    <3>5. Ensured(t)' = row
      BY <1>1, <2>1, <2>3, <3>1, <3>2, CommittedRow
    <3>6. cost <= Funds(Ensured(t))'
      BY <3>5, <3>3, <3>4 DEF Funds, FreeRemaining
    <3>7. reservation'[r].amount = cost /\ \A q \in Runs \ {r} : reservation'[q] = reservation[q]
      BY <1>1, <2>3 DEF TypeOK
    <3> QED BY <2>1, <2>2, <3>6, <3>7 DEF CoverInv, Covered
  <2>4. CASE UNCHANGED reservation
    <3>1. reservation[r].amount = 0 /\ t \in Teams
      BY <2>1 DEF CoverInv
    <3>2. Funds(Ensured(t))' \in Nat
      BY <3>1, FundsStayNat
    <3> QED BY <2>1, <2>2, <2>4, <3>1, <3>2 DEF CoverInv, Covered
  <2> QED BY <1>8, <2>3, <2>4 DEF AdmitRun, Reserve
<1>9. ASSUME NEW r \in Runs, NEW w \in 1..MaxWrites, RefuseRun(r, w) PROVE CoverInv'
  <2>1. request' = [request EXCEPT ![r] = "refused"] /\ UNCHANGED <<account, opened, ledger, reservation, month, running>>
    BY <1>9 DEF RefuseRun, ReserveRefused
  <2>2. \A t \in Teams : Ensured(t)' = Ensured(t)
    BY <2>1 DEF Ensured
  <2>3. \A q \in Runs : request'[q] \in {"idle", "admitted"} => request[q] = request'[q]
    BY <1>1, <2>1 DEF TypeOK
  <2> QED BY <2>1, <2>2, <2>3 DEF CoverInv, Covered
<1>10. ASSUME NEW r \in Runs, Leave(r) PROVE CoverInv'
  BY <1>2, <1>10 DEF Leave, vars
<1>11. ASSUME NEW r \in Runs, ReleaseRun(r) PROVE CoverInv'
  <2>1. /\ account' = [account EXCEPT ![Payer[r]].held = AtLeastZero(@ - reservation[r].amount)]
        /\ reservation' = [reservation EXCEPT ![r].status = "released"]
        /\ UNCHANGED <<opened, ledger, request, month, running>>
    BY <1>11 DEF ReleaseRun, Release
  <2>2. \A q \in Runs : reservation'[q].amount = reservation[q].amount
    BY <1>1, <2>1 DEF TypeOK, Hold
  <2>3. \A t \in Teams : Funds(Ensured(t))' = Funds(Ensured(t))
    BY <1>1, <2>1 DEF Ensured, Funds, FreeRemaining, TypeOK, Row, NewRow
  <2> QED BY <1>1, <2>1, <2>2, <2>3, CoverStays
<1>12. ASSUME NEW r \in Runs, NEW w \in 0..MaxWrites, ChargeRun(r, w) PROVE CoverInv'
  <2>1. running = r /\ running' = r /\ request' = [request EXCEPT ![r] = "charged"] /\ UNCHANGED reservation
    BY <1>12 DEF ChargeRun, Charge
  <2>2. \A q \in Runs : request'[q] = "idle" => request[q] = "idle"
    BY <1>1, <2>1 DEF TypeOK
  <2>3. request'[r] = "charged"
    BY <1>1, <2>1 DEF TypeOK
  <2> QED BY <2>1, <2>2, <2>3 DEF CoverInv, Covered
<1>13. CASE MonthTurns /\ UNCHANGED running
  <2>1. UNCHANGED <<account, opened, ledger, reservation, request, running>>
    BY <1>13 DEF MonthTurns
  <2>2. \A t \in Teams : Funds(Ensured(t)) <= Funds(Ensured(t))'
    <3> TAKE t \in Teams
    <3>1. Ensured(t) \in Row /\ Ensured(t)' \in Row
      BY <1>1, RowsStayEnsured
    <3>2. CASE t \notin opened
      <4>1. /\ Ensured(t) = [NewRow(month) EXCEPT !.balance = Opening]
            /\ Ensured(t)' = [NewRow(month') EXCEPT !.balance = Opening]
        BY <2>1, <3>2 DEF Ensured
      <4>2. Ensured(t).balance = Opening /\ Ensured(t)'.balance = Opening
            /\ Ensured(t).freeUsed = 0 /\ Ensured(t)'.freeUsed = 0
        BY <4>1 DEF NewRow
      <4> QED BY <4>2, CostAssumption DEF Funds, FreeRemaining, AtLeastZero
    <3>3. CASE t \in opened
      <4>1. account[t] \in Row /\ account[t].period <= month /\ month \in Nat /\ month' = month + 1
        BY <1>1, <1>13 DEF TypeOK, AccountsInv, MonthTurns
      <4>2. Ensured(t)' = [account[t] EXCEPT !.period = month', !.freeUsed = 0]
        BY <2>1, <3>3, <4>1 DEF Ensured, Row
      <4>3. Ensured(t).balance = account[t].balance /\ Ensured(t).freeUsed \in Nat
        BY <3>1, <3>3, <4>1 DEF Ensured, Row
      <4>4. Ensured(t)'.balance = account[t].balance /\ Ensured(t)'.freeUsed = 0
        BY <4>1, <4>2 DEF Row
      <4> QED BY <3>1, <4>3, <4>4, CostAssumption DEF Funds, FreeRemaining, AtLeastZero, Row
    <3> QED BY <3>2, <3>3
  <2> QED BY <2>1, <2>2, CoverStays
<1>14. CASE RestartRuns
  <2>1. running' = NoRun /\ \A q \in Runs : reservation'[q].amount = reservation[q].amount /\ (request'[q] = "idle" => request[q] = "idle")
    BY <1>1, <1>14 DEF RestartRuns, Restart, TypeOK, Hold
  <2> QED BY <2>1, NoRunAssumption DEF CoverInv, Covered
<1>15. CASE UNCHANGED runVars
  BY <1>2, <1>15 DEF runVars, vars
<1> QED
  BY <1>5, <1>6, <1>7, <1>8, <1>9, <1>10, <1>11, <1>12, <1>13, <1>14, <1>15 DEF NextRuns, Meanwhile

\* What a charge that the run's hold covers falls short by.
LEMMA CoveredCharge ==
  ASSUME NEW row \in Row, NEW cost \in Nat, cost <= Funds(row)
  PROVE  Shortfall(row, cost) = 0
BY CostAssumption DEF Funds, FreeRemaining, Shortfall, FromFree, Smaller, AtLeastZero, Row

\* Where runs stream, a run that was admitted with a hold, and wrote no more than it
\* declared, pays in full, unless a turn of the assistant or an administrator took from
\* its account: whatever months turn, accounts open and processes restart between. The
\* lock it keeps until it is charged is what does it (run_pipeline_stream of main.py).
THEOREM HoldsCoverRuns ==
  ASSUME \A r \in Runs : RouteOf[r] = "stream"
  PROVE  SpecRuns => HoldCoversRun
<1> DEFINE Pays(r) ==
      LET t == Payer[r]
          e == Last(ledger'[t])
      IN  /\ request[r] = "admitted" /\ request'[r] = "charged"
          /\ ledger'[t] # ledger[t] /\ OnlyRunsSpend(ledger[t])
          /\ -e.amount <= reservation[r].amount
          => e.short = 0
<1>1. ASSUME LedgerInv, CoverInv, [NextRuns]_runVars, NEW r \in Runs PROVE Pays(r)
  <2> SUFFICES ASSUME request[r] = "admitted", request'[r] = "charged",
                      ledger'[Payer[r]] # ledger[Payer[r]], OnlyRunsSpend(ledger[Payer[r]]),
                      -Last(ledger'[Payer[r]]).amount <= reservation[r].amount
               PROVE  Last(ledger'[Payer[r]]).short = 0
    OBVIOUS
  <2>1. TypeOK /\ Payer[r] \in Teams
    BY <1>1, PayerAssumption DEF LedgerInv
  <2>2. PICK w \in 0 .. MaxWrites : ChargeRun(r, w)
    <3>1. ASSUME NEW q \in Runs, NEW w \in 0 .. MaxWrites, ChargeRun(q, w) PROVE q = r
      BY <2>1, <3>1 DEF ChargeRun, Charge, TypeOK
    <3>2. ASSUME NEW q \in Runs, NEW w \in 1 .. MaxWrites, AdmitRun(q, w) \/ RefuseRun(q, w) PROVE FALSE
      BY <2>1, <3>2 DEF AdmitRun, Reserve, RefuseRun, ReserveRefused, TypeOK
    <3>3. RestartRuns => FALSE
      BY <2>1 DEF RestartRuns, Restart, TypeOK
    <3>4. ~UNCHANGED request
      OBVIOUS
    <3> QED
      BY <1>1, <3>1, <3>2, <3>3, <3>4
         DEF NextRuns, Leave, ReleaseRun, Release, Meanwhile, Account, RecordAssist, Grant, MonthTurns, runVars, vars
  <2> DEFINE cost == w * UnitCost
             row == Ensured(Payer[r])
             e == BillEntry("run", row, cost)
  <2>3. running = r /\ cost \in Nat /\ row \in Row /\ EnsuredLedger(Payer[r]) \in Seq(Entry)
    BY <2>1, <2>2, CostAssumption, BoundAssumption, EnsuredIsRow DEF ChargeRun
  <2>4. reservation[r].amount <= Funds(row) /\ reservation[r].amount \in Nat
    BY <1>1, <2>1, <2>3 DEF CoverInv, Covered, TypeOK, Hold
  <2>5. CASE Bill(Payer[r], "run", cost)
    <3>1. ledger'[Payer[r]] = Append(EnsuredLedger(Payer[r]), e)
      BY <2>1, <2>5 DEF Bill, Commit, TypeOK
    <3>2. Last(ledger'[Payer[r]]) = e
      BY <2>3, <3>1 DEF Last
    <3>3. e.amount = -cost /\ e.short = Shortfall(row, cost)
      BY DEF BillEntry
    <3>4. Funds(row) \in Nat
      BY <1>1, <2>1, FundsAreNat
    <3>5. cost <= Funds(row)
      <4> HIDE DEF cost, row, e
      <4> QED BY <2>3, <2>4, <3>2, <3>3, <3>4
    <3> HIDE DEF cost, row, e
    <3> QED BY <2>3, <3>2, <3>3, <3>5, CoveredCharge
  \* Writing nothing adds no entry of its own.
  <2>6. CASE Commit(Payer[r], row, EnsuredLedger(Payer[r]))
    <3>1. ledger'[Payer[r]] = EnsuredLedger(Payer[r])
      BY <2>1, <2>6 DEF Commit, TypeOK
    <3>2. ledger'[Payer[r]] = <<GrantEntry(Opening, Opening, month)>>
      BY <3>1 DEF EnsuredLedger
    <3>3. Last(ledger'[Payer[r]]) = GrantEntry(Opening, Opening, month)
      BY <3>2 DEF Last
    <3> QED BY <3>3 DEF GrantEntry
  <2> QED BY <2>2, <2>5, <2>6 DEF ChargeRun, Charge
<1>2. LedgerInv /\ CoverInv /\ [NextRuns]_runVars => [\A r \in Runs : Pays(r)]_vars
  BY <1>1
<1>3. InitRuns => CoverInv
  BY NoRunAssumption DEF InitRuns, Init, CoverInv, Covered
<1>4. LedgerInv /\ LedgerInv' /\ AccountsInv /\ CoverInv /\ [NextRuns]_runVars => CoverInv'
  BY CoverStep
<1>5. (\A r \in Runs : Pays(r)) <=> \A r \in Runs :
         LET t == Payer[r]
             e == Last(ledger'[t])
         IN  /\ request[r] = "admitted" /\ request'[r] = "charged"
             /\ ledger'[t] # ledger[t] /\ OnlyRunsSpend(ledger[t])
             /\ -e.amount <= reservation[r].amount
             => e.short = 0
  BY Zenon
<1> HIDE DEF Pays
<1>6. SpecRuns => []LedgerInv /\ []AccountsInv
  BY RoutesUseTheStore, LedgerInvariant, AccountsInvariant, PTL
<1> QED BY <1>2, <1>3, <1>4, <1>5, <1>6, PTL DEF SpecRuns, HoldCoversRun

\* The allowance is drawn first: an entry that takes from the balance, or falls short,
\* leaves an account that has nothing left of the allowance of its month (_bill of
\* credits.py). The other half of AllowanceIsHonest is AllowanceIsAudited, below.
THEOREM AllowanceComesFirst == Spec => FreeFirst
<1> DEFINE First(t) ==
      LET e == Last(ledger'[t]) IN
      /\ ledger'[t] # ledger[t]
      /\ e.reason # "grant" /\ (Applied(e) < 0 \/ e.short > 0)
      => account'[t].freeUsed = FreeMonthly
<1>1. ASSUME LedgerInv, AccountsInv, [Next]_vars, NEW t \in Teams PROVE First(t)
  <2> SUFFICES ASSUME ledger'[t] # ledger[t], Last(ledger'[t]).reason # "grant",
                      Applied(Last(ledger'[t])) < 0 \/ Last(ledger'[t]).short > 0
               PROVE  account'[t].freeUsed = FreeMonthly
    OBVIOUS
  <2>1. /\ TypeOK /\ Ensured(t) \in Row /\ Ensured(t).freeUsed <= FreeMonthly
        /\ EnsuredLedger(t) \in Seq(Entry)
    BY <1>1, EnsuredIsRow, EnsuredWithin DEF LedgerInv
  \* An account that is opened gets one entry, a grant.
  <2>2. ASSUME NEW u \in Teams, NEW row, Commit(u, row, EnsuredLedger(u)) PROVE FALSE
    <3>1. ledger'[t] = EnsuredLedger(t)
      BY <2>1, <2>2 DEF Commit, TypeOK
    <3>2. ledger'[t] = <<GrantEntry(Opening, Opening, month)>>
      BY <3>1 DEF EnsuredLedger
    <3>3. Last(ledger'[t]) = GrantEntry(Opening, Opening, month)
      BY <3>2 DEF Last
    <3> QED BY <3>3 DEF GrantEntry
  <2>3. ASSUME NEW u \in Teams, NEW row, NEW n, NEW b, NEW m, Commit(u, row, Append(EnsuredLedger(u), GrantEntry(n, b, m)))
        PROVE  FALSE
    <3>1. ledger'[t] = Append(EnsuredLedger(t), GrantEntry(n, b, m))
      BY <2>1, <2>3 DEF Commit, TypeOK
    <3>2. Last(ledger'[t]) = GrantEntry(n, b, m)
      <4> DEFINE s == EnsuredLedger(t)
                 e == GrantEntry(n, b, m)
      <4> HIDE DEF s, e
      <4>1. Len(Append(s, e)) = Len(s) + 1 /\ Append(s, e)[Len(s) + 1] = e
        BY <2>1 DEF s
      <4> QED BY <3>1, <4>1 DEF Last, s, e
    <3> QED BY <3>2 DEF GrantEntry
  <2>4. ASSUME NEW u \in Teams, NEW reason, NEW cost \in Nat, Bill(u, reason, cost)
        PROVE  account'[t].freeUsed = FreeMonthly
    <3> DEFINE row == Ensured(t)
               e == BillEntry(reason, row, cost)
    <3>1. ledger'[t] = Append(EnsuredLedger(t), e) /\ account'[t] = Billed(row, cost)
      BY <2>1, <2>4 DEF Bill, Commit, TypeOK
    <3>2. Last(ledger'[t]) = e
      <4> DEFINE s == EnsuredLedger(t)
      <4> HIDE DEF s, e
      <4>1. Len(Append(s, e)) = Len(s) + 1 /\ Append(s, e)[Len(s) + 1] = e
        BY <2>1 DEF s
      <4> QED BY <3>1, <4>1 DEF Last, s
    <3>3. gate \in BOOLEAN /\ FreeMonthly \in Nat
      BY <2>1, CostAssumption DEF TypeOK
    <3>4. /\ FromFree(row, cost) \in Nat /\ Shortfall(row, cost) \in Nat /\ FromBalance(row, cost) \in Nat
          /\ FromBalance(row, cost) = cost - FromFree(row, cost) - Shortfall(row, cost)
          /\ (~gate => Shortfall(row, cost) = 0)
      BY <2>1, <3>3, BillFacts DEF FromBalance, Shortfall
    <3>5. FromFree(row, cost) = FreeMonthly - row.freeUsed \/ FromFree(row, cost) = cost
      BY <2>1, <3>3 DEF FromFree, Smaller, FreeRemaining, AtLeastZero, Row
    <3>6. gate /\ FromFree(row, cost) # cost
      <4>1. /\ e.amount = -cost /\ e.applied = gate /\ e.short = Shortfall(row, cost)
            /\ e.free = IF gate THEN FromFree(row, cost) ELSE 0
        BY DEF BillEntry
      <4>2. Applied(e) < 0 => gate /\ FromBalance(row, cost) > 0
        BY <3>3, <3>4, <4>1 DEF Applied
      <4>3. e.short > 0 => gate
        BY <3>4, <4>1
      <4> HIDE DEF row, e
      <4> QED BY <3>2, <3>3, <3>4, <4>1, <4>2, <4>3
    <3>7. Billed(row, cost).freeUsed = row.freeUsed + FromFree(row, cost)
      BY <2>1, <3>6 DEF Billed, Row
    <3> QED BY <2>1, <3>1, <3>3, <3>5, <3>6, <3>7 DEF Row
  <2>5. ~UNCHANGED ledger
    OBVIOUS
  <2>6. ASSUME NEW r \in Runs, NEW w \in 0 .. MaxWrites, Charge(r, w) PROVE account'[t].freeUsed = FreeMonthly
    <3>1. w * UnitCost \in Nat /\ Payer[r] \in Teams
      BY CostAssumption, BoundAssumption, PayerAssumption
    <3> QED BY <2>2, <2>4, <2>6, <3>1 DEF Charge
  <2>7. ASSUME NEW r \in Runs, NEW w \in 1 .. MaxWrites, Reserve(r, w) PROVE FALSE
    <3>1. Payer[r] \in Teams
      BY PayerAssumption
    <3> QED BY <2>2, <2>5, <2>7, <3>1 DEF Reserve
  <2> QED
    BY <1>1, <2>2, <2>3, <2>4, <2>5, <2>6, <2>7, CostAssumption
       DEF Next, Account, RecordAssist, Grant, ReserveRefused, Release, MonthTurns, Restart, vars
<1>2. LedgerInv /\ AccountsInv /\ [Next]_vars => [\A t \in Teams : First(t)]_ledger
  BY <1>1
<1>3. (\A t \in Teams : First(t)) <=> \A t \in Teams :
        LET e == Last(ledger'[t]) IN
        /\ ledger'[t] # ledger[t]
        /\ e.reason # "grant" /\ (Applied(e) < 0 \/ e.short > 0)
        => account'[t].freeUsed = FreeMonthly
  BY Zenon
<1> HIDE DEF First
<1> QED BY <1>2, <1>3, LedgerInvariant, AccountsInvariant, PTL DEF Spec, FreeFirst

-----------------------------------------------------------------------------
(***************************************************************************)
(* Totals. HeldBy and FreeIn fold a finite set with MapThenSumSet, which   *)
(* takes an element out at a time; what they come to does not depend on    *)
(* which. Each fact is shown of the least part of the set that breaks it.  *)
(***************************************************************************)
Pick(s) == CHOOSE x \in s : TRUE

\* Adding up the weights of every subset of S, one element at a time.
IsSum(g, S, w) ==
  g = [s \in SUBSET S |-> IF s = {} THEN 0 ELSE w[Pick(s)] + g[s \ {Pick(s)}]]

Total(w, S) == (CHOOSE g : IsSum(g, S, w))[S]

\* A family of parts of a finite set that is not empty has a least member.
LEMMA LeastPart ==
  ASSUME NEW S, IsFiniteSet(S), NEW F, F \subseteq SUBSET S, F # {}
  PROVE  \E B \in F : \A C \in F : C \subseteq B => C = B
<1>1. F \subseteq FiniteSubsetsOf(S)
  BY FS_Subset DEF FiniteSubsetsOf
<1>2. PICK B \in F : \A C \in F : ~ (<<C, B>> \in StrictSubsetOrdering(S))
  BY <1>1, WFMin, FS_StrictSubsetOrderingWellFounded
<1>3. ASSUME NEW C \in F, C \subseteq B, C # B PROVE FALSE
  <2>1. <<C, B>> \in StrictSubsetOrdering(S)
    BY <1>3 DEF StrictSubsetOrdering
  <2> QED BY <1>2, <2>1
<1> QED BY <1>3
LEMMA PickIsIn == ASSUME NEW s, s # {} PROVE Pick(s) \in s
BY DEF Pick

LEMMA SumsAt ==
  ASSUME NEW g, NEW S, NEW w, IsSum(g, S, w), NEW s \in SUBSET S
  PROVE  g[s] = IF s = {} THEN 0 ELSE w[Pick(s)] + g[s \ {Pick(s)}]
BY DEF IsSum

LEMMA SumsAgree ==
  ASSUME NEW g, NEW h, NEW S, NEW T, NEW w, IsSum(g, S, w), IsSum(h, T, w),
         NEW U, U \subseteq S, U \subseteq T, IsFiniteSet(U)
  PROVE  g[U] = h[U]
<1> DEFINE Bad == {V \in SUBSET U : g[V] # h[V]}
<1>1. SUFFICES ASSUME Bad # {} PROVE FALSE
  OBVIOUS
<1>2. PICK B \in Bad : \A C \in Bad : C \subseteq B => C = B
  <2> HIDE DEF Bad
  <2>1. Bad \subseteq SUBSET U BY DEF Bad
  <2> QED BY <1>1, <2>1, LeastPart
<1>3. B \in SUBSET U /\ B \in SUBSET S /\ B \in SUBSET T /\ g[B] # h[B]
  OBVIOUS
<1>4. /\ g[B] = IF B = {} THEN 0 ELSE w[Pick(B)] + g[B \ {Pick(B)}]
      /\ h[B] = IF B = {} THEN 0 ELSE w[Pick(B)] + h[B \ {Pick(B)}]
  BY <1>3, SumsAt
<1>5. B # {} BY <1>3, <1>4
<1>6. Pick(B) \in B BY <1>5, PickIsIn
<1>7. B \ {Pick(B)} \in SUBSET U /\ B \ {Pick(B)} \subseteq B /\ B \ {Pick(B)} # B
  BY <1>3, <1>6
<1>8. g[B \ {Pick(B)}] = h[B \ {Pick(B)}] BY <1>2, <1>7
<1> QED BY <1>3, <1>4, <1>5, <1>8

LEMMA SumExists ==
  ASSUME NEW S, IsFiniteSet(S), NEW w
  PROVE  \E g : IsSum(g, S, w)
<1> DEFINE Bad == {T \in SUBSET S : ~ \E g : IsSum(g, T, w)}
<1>1. SUFFICES ASSUME Bad # {} PROVE FALSE
  OBVIOUS
<1>2. PICK B \in Bad : \A C \in Bad : C \subseteq B => C = B
  <2> HIDE DEF Bad
  <2>1. Bad \subseteq SUBSET S BY DEF Bad
  <2> QED BY <1>1, <2>1, LeastPart
<1>3. B \in SUBSET S /\ ~ \E g : IsSum(g, B, w)
  OBVIOUS
<1> HIDE DEF Bad
\* Every smaller part has its total, and these totals make up those of the part.
<1>4. ASSUME NEW C \in SUBSET B, C # B PROVE IsSum(CHOOSE g : IsSum(g, C, w), C, w)
  <2>1. C \notin Bad /\ C \in SUBSET S BY <1>2, <1>3, <1>4
  <2>2. \E g : IsSum(g, C, w) BY <2>1 DEF Bad
  <2> QED BY <2>2
<1> DEFINE h == [s \in SUBSET B |-> IF s = {} THEN 0 ELSE w[Pick(s)] + Total(w, s \ {Pick(s)})]
<1>5. ASSUME NEW s \in SUBSET B, s # {} PROVE h[s \ {Pick(s)}] = Total(w, s \ {Pick(s)})
  <2> DEFINE C == s \ {Pick(s)}
  <2>1. C \in SUBSET B /\ C # B BY <1>5, PickIsIn
  <2> HIDE DEF C
  <2> DEFINE g == CHOOSE f : IsSum(f, C, w)
  <2>2. IsSum(g, C, w) BY <1>4, <2>1
  <2>3. Total(w, C) = g[C] BY DEF Total
  <2> HIDE DEF g
  <2>4. g[C] = IF C = {} THEN 0 ELSE w[Pick(C)] + g[C \ {Pick(C)}] BY <2>2, SumsAt
  <2>5. h[C] = IF C = {} THEN 0 ELSE w[Pick(C)] + Total(w, C \ {Pick(C)}) BY <2>1
  <2>6. ASSUME C # {} PROVE g[C \ {Pick(C)}] = Total(w, C \ {Pick(C)})
    <3> DEFINE D == C \ {Pick(C)}
    <3>1. D \in SUBSET B /\ D # B /\ D \subseteq C BY <2>1, <2>6, PickIsIn
    <3>2. IsFiniteSet(D) BY <1>3, <3>1, FS_Subset
    <3> HIDE DEF D
    <3>3. IsSum(CHOOSE f : IsSum(f, D, w), D, w) BY <1>4, <3>1
    <3>4. g[D] = (CHOOSE f : IsSum(f, D, w))[D] BY <2>2, <3>1, <3>2, <3>3, SumsAgree
    <3> QED BY <3>4 DEF Total, D
  <2>7. h[C] = Total(w, C) BY <2>3, <2>4, <2>5, <2>6
  <2> QED BY <2>7 DEF C
<1>6. IsSum(h, B, w)
  <2>1. \A s \in SUBSET B : h[s] = IF s = {} THEN 0 ELSE w[Pick(s)] + h[s \ {Pick(s)}]
    BY <1>5
  <2>2. h = [s \in SUBSET B |-> h[s]] OBVIOUS
  <2> HIDE DEF h
  <2> QED BY <2>1, <2>2 DEF IsSum
<1> QED BY <1>3, <1>6

LEMMA TotalAt ==
  ASSUME NEW S, IsFiniteSet(S), NEW w
  PROVE  Total(w, S) = IF S = {} THEN 0 ELSE w[Pick(S)] + Total(w, S \ {Pick(S)})
<1> DEFINE g == CHOOSE f : IsSum(f, S, w)
           R == S \ {Pick(S)}
<1>1. IsSum(g, S, w) BY SumExists
<1>2. Total(w, S) = g[S] BY DEF Total
<1> HIDE DEF g
<1>3. g[S] = IF S = {} THEN 0 ELSE w[Pick(S)] + g[R] BY <1>1, SumsAt
<1>4. IsFiniteSet(R) /\ R \subseteq S BY FS_Subset
<1> HIDE DEF R
<1>5. IsSum(CHOOSE f : IsSum(f, R, w), R, w) BY <1>4, SumExists
<1>6. g[R] = Total(w, R) BY <1>1, <1>4, <1>5, SumsAgree DEF Total
<1> QED BY <1>2, <1>3, <1>6 DEF R

LEMMA TotalIsNat ==
  ASSUME NEW S, IsFiniteSet(S), NEW w, \A x \in S : w[x] \in Nat
  PROVE  Total(w, S) \in Nat
<1> DEFINE Bad == {T \in SUBSET S : Total(w, T) \notin Nat}
<1>1. SUFFICES ASSUME Bad # {} PROVE FALSE
  OBVIOUS
<1>2. PICK B \in Bad : \A C \in Bad : C \subseteq B => C = B
  <2> HIDE DEF Bad
  <2>1. Bad \subseteq SUBSET S BY DEF Bad
  <2> QED BY <1>1, <2>1, LeastPart
<1>3. B \in SUBSET S /\ IsFiniteSet(B) /\ Total(w, B) \notin Nat BY FS_Subset
<1>4. Total(w, B) = IF B = {} THEN 0 ELSE w[Pick(B)] + Total(w, B \ {Pick(B)}) BY <1>3, TotalAt
<1>5. B # {} BY <1>3, <1>4
<1>6. Pick(B) \in B /\ w[Pick(B)] \in Nat BY <1>3, <1>5, PickIsIn
<1>7. B \ {Pick(B)} \in SUBSET S /\ B \ {Pick(B)} \subseteq B /\ B \ {Pick(B)} # B BY <1>3, <1>6
<1>8. Total(w, B \ {Pick(B)}) \in Nat BY <1>2, <1>7
<1> QED BY <1>3, <1>4, <1>5, <1>6, <1>8

LEMMA TotalSame ==
  ASSUME NEW S, IsFiniteSet(S), NEW w, NEW v, \A x \in S : w[x] = v[x]
  PROVE  Total(w, S) = Total(v, S)
<1> DEFINE Bad == {T \in SUBSET S : Total(w, T) # Total(v, T)}
<1>1. SUFFICES ASSUME Bad # {} PROVE FALSE
  OBVIOUS
<1>2. PICK B \in Bad : \A C \in Bad : C \subseteq B => C = B
  <2> HIDE DEF Bad
  <2>1. Bad \subseteq SUBSET S BY DEF Bad
  <2> QED BY <1>1, <2>1, LeastPart
<1>3. B \in SUBSET S /\ IsFiniteSet(B) /\ Total(w, B) # Total(v, B) BY FS_Subset
<1>4. /\ Total(w, B) = IF B = {} THEN 0 ELSE w[Pick(B)] + Total(w, B \ {Pick(B)})
      /\ Total(v, B) = IF B = {} THEN 0 ELSE v[Pick(B)] + Total(v, B \ {Pick(B)})
  BY <1>3, TotalAt
<1>5. B # {} BY <1>3, <1>4
<1>6. Pick(B) \in B /\ w[Pick(B)] = v[Pick(B)] BY <1>3, <1>5, PickIsIn
<1>7. B \ {Pick(B)} \in SUBSET S /\ B \ {Pick(B)} \subseteq B /\ B \ {Pick(B)} # B BY <1>3, <1>6
<1>8. Total(w, B \ {Pick(B)}) = Total(v, B \ {Pick(B)}) BY <1>2, <1>7
<1> QED BY <1>3, <1>4, <1>5, <1>6, <1>8

\* Any element may be taken out first.
LEMMA TotalWithout ==
  ASSUME NEW S, IsFiniteSet(S), NEW w, \A x \in S : w[x] \in Nat, NEW y \in S
  PROVE  Total(w, S) = w[y] + Total(w, S \ {y})
<1> DEFINE Bad == {T \in SUBSET S : \E x \in T : Total(w, T) # w[x] + Total(w, T \ {x})}
<1>1. SUFFICES ASSUME Bad # {} PROVE FALSE
  OBVIOUS
<1>2. PICK B \in Bad : \A C \in Bad : C \subseteq B => C = B
  <2> HIDE DEF Bad
  <2>1. Bad \subseteq SUBSET S BY DEF Bad
  <2> QED BY <1>1, <2>1, LeastPart
<1>3. B \in SUBSET S /\ IsFiniteSet(B) BY FS_Subset
<1>4. PICK x \in B : Total(w, B) # w[x] + Total(w, B \ {x}) OBVIOUS
<1> DEFINE c == Pick(B)
<1>5. c \in B BY <1>4, PickIsIn
<1>6. Total(w, B) = w[c] + Total(w, B \ {c}) BY <1>3, <1>4, TotalAt
<1> HIDE DEF c
<1>7. c # x BY <1>4, <1>6
<1>8. ASSUME NEW T, T \subseteq B, T # B, NEW z \in T PROVE Total(w, T) = w[z] + Total(w, T \ {z})
  <2>1. T \in SUBSET S BY <1>3, <1>8
  <2>2. T \notin Bad BY <1>2, <1>8
  <2> QED BY <1>8, <2>1, <2>2
<1> DEFINE D == B \ {c, x}
<1>9. Total(w, B \ {c}) = w[x] + Total(w, D)
  <2>1. x \in B \ {c} /\ B \ {c} # B /\ (B \ {c}) \ {x} = D BY <1>5, <1>7
  <2> QED BY <1>8, <2>1
<1>10. Total(w, B \ {x}) = w[c] + Total(w, D)
  <2>1. c \in B \ {x} /\ B \ {x} # B /\ (B \ {x}) \ {c} = D BY <1>5, <1>7
  <2> QED BY <1>8, <2>1
<1>11. w[c] \in Nat /\ w[x] \in Nat /\ Total(w, D) \in Nat
  <2>1. IsFiniteSet(D) /\ D \subseteq S BY <1>3, FS_Subset
  <2> HIDE DEF D
  <2> QED BY <1>3, <1>5, <2>1, TotalIsNat
<1> HIDE DEF D
<1> QED BY <1>4, <1>6, <1>9, <1>10, <1>11

-----------------------------------------------------------------------------
(* The held column adds up the open reservations.                          *)

Weights == [r \in Runs |-> reservation[r].amount]

LEMMA HeldIsTotal ==
  ASSUME NEW S, S \subseteq Runs, IsFiniteSet(S)
  PROVE  HeldBy(S) = Total(Weights, S)
<1> DEFINE Adds(g) == g = [s \in SUBSET S |->
             IF s = {} THEN 0 ELSE reservation[Pick(s)].amount + g[s \ {Pick(s)}]]
<1>1. HeldBy(S) = (CHOOSE g : Adds(g))[S]
  BY DEF HeldBy, MapThenSumSet, MapThenFoldSet, Pick
<1>2. ASSUME NEW g PROVE Adds(g) <=> IsSum(g, S, Weights)
  <2> DEFINE a == [s \in SUBSET S |-> IF s = {} THEN 0 ELSE reservation[Pick(s)].amount + g[s \ {Pick(s)}]]
             b == [s \in SUBSET S |-> IF s = {} THEN 0 ELSE Weights[Pick(s)] + g[s \ {Pick(s)}]]
  <2>1. \A s \in SUBSET S : s # {} => Pick(s) \in Runs BY PickIsIn
  <2>2. \A s \in SUBSET S : a[s] = b[s] BY <2>1 DEF Weights
  <2>3. a = b
    <3>1. a = [s \in SUBSET S |-> a[s]] /\ b = [s \in SUBSET S |-> b[s]] OBVIOUS
    <3> HIDE DEF a, b
    <3> QED BY <2>2, <3>1
  <2> QED BY <2>3, Zenon DEF IsSum
<1>3. \E g : Adds(g) BY <1>2, SumExists
<1> DEFINE h == CHOOSE g : Adds(g)
<1>4. Adds(h)
  <2> HIDE DEF Adds
  <2> QED BY <1>3
<1>5. IsSum(h, S, Weights) BY <1>2, <1>4
<1>6. IsSum(CHOOSE f : IsSum(f, S, Weights), S, Weights) BY SumExists
<1>7. h[S] = Total(Weights, S)
  <2> HIDE DEF h
  <2> QED BY <1>5, <1>6, SumsAgree DEF Total
<1> QED BY <1>1, <1>7

\* What a hold adds up to moves only with the open reservations.
HoldsInv ==
  /\ \A t \in Teams : IsFiniteSet(Stale(t)) /\ account[t].held = Total(Weights, Stale(t))
  /\ \A t \in Teams \ opened : account[t].held = 0
  /\ \A r \in Runs : reservation[r].status = "open" => request[r] = "admitted"

LEMMA EnsuredHolds ==
  ASSUME TypeOK, HoldsInv, NEW t \in Teams
  PROVE  Ensured(t).held = account[t].held
<1>1. account[t] \in Row BY DEF TypeOK
<1>2. CASE t \notin opened
  <2>1. Ensured(t).held = 0 BY <1>2 DEF Ensured, NewRow
  <2> QED BY <1>2, <2>1 DEF HoldsInv
<1>3. CASE t \in opened
  BY <1>1, <1>3 DEF Ensured, Row
<1> QED BY <1>2, <1>3

\* No hold moves.
LEMMA HoldsStay ==
  ASSUME TypeOK, HoldsInv, UNCHANGED reservation, opened \subseteq opened',
         \A t \in Teams : account'[t].held = account[t].held,
         \A r \in Runs : reservation[r].status = "open" => request'[r] = request[r]
  PROVE  HoldsInv'
<1>1. UNCHANGED Weights /\ \A t \in Teams : UNCHANGED Stale(t)
  BY DEF Weights, Stale
<1> QED BY <1>1 DEF HoldsInv

LEMMA CommitHolds ==
  ASSUME TypeOK, HoldsInv, NEW t \in Teams, NEW row, NEW entries, Commit(t, row, entries),
         row.held = account[t].held, UNCHANGED reservation,
         \A r \in Runs : reservation[r].status = "open" => request'[r] = request[r]
  PROVE  HoldsInv'
<1>1. \A u \in Teams : account'[u].held = account[u].held BY DEF Commit, TypeOK
<1>2. opened \subseteq opened' BY DEF Commit
<1> QED BY <1>1, <1>2, HoldsStay

LEMMA BillHolds ==
  ASSUME TypeOK, HoldsInv, NEW t \in Teams, NEW reason, NEW cost \in Nat, Bill(t, reason, cost),
         UNCHANGED reservation,
         \A r \in Runs : reservation[r].status = "open" => request'[r] = request[r]
  PROVE  HoldsInv'
<1>1. Ensured(t) \in Row BY EnsuredIsRow
<1>2. Billed(Ensured(t), cost).held = Ensured(t).held BY <1>1 DEF Billed, Row
<1>3. Billed(Ensured(t), cost).held = account[t].held BY <1>2, EnsuredHolds
<1> QED BY <1>3, CommitHolds DEF Bill

LEMMA HoldsStep == LedgerInv /\ HoldsInv /\ [Next]_vars => HoldsInv'
<1> SUFFICES ASSUME LedgerInv, HoldsInv, [Next]_vars PROVE HoldsInv'
  OBVIOUS
<1>1. /\ TypeOK
      /\ \A t \in Teams : Ensured(t) \in Row /\ Ensured(t).held = account[t].held
      /\ \A r \in Runs : Payer[r] \in Teams
  BY EnsuredIsRow, EnsuredHolds, PayerAssumption DEF LedgerInv
<1>2. ASSUME NEW t \in Teams, Account(t) PROVE HoldsInv'
  BY <1>1, <1>2, CommitHolds DEF Account
<1>3. ASSUME NEW t \in Teams, RecordAssist(t) PROVE HoldsInv'
  BY <1>1, <1>3, BillHolds, CostAssumption DEF RecordAssist
<1>4. ASSUME NEW t \in Teams, NEW n \in Grants, Grant(t, n) PROVE HoldsInv'
  <2> DEFINE row == [Ensured(t) EXCEPT !.balance = @ + n]
  <2>1. row.held = account[t].held BY <1>1 DEF Row
  <2>2. \E entries : Commit(t, row, entries) BY <1>4 DEF Grant
  <2>3. UNCHANGED <<reservation, request>> BY <1>4 DEF Grant
  <2> HIDE DEF row
  <2> QED BY <1>1, <2>1, <2>2, <2>3, CommitHolds
<1>5. ASSUME NEW r \in Runs, NEW w \in 1..MaxWrites, Reserve(r, w) PROVE HoldsInv'
  <2> DEFINE t == Payer[r]
             cost == w * UnitCost
             row == [Ensured(t) EXCEPT !.held = @ + cost]
  <2>1. /\ request[r] = "idle" /\ request' = [request EXCEPT ![r] = "admitted"]
        /\ reservation[r].status # "open"
    BY <1>5 DEF Reserve, HoldsInv
  <2>2. /\ request'[r] = "admitted"
        /\ \A q \in Runs \ {r} : request'[q] = request[q]
    BY <1>1, <2>1 DEF TypeOK
  <2>3. CASE /\ Commit(t, row, EnsuredLedger(t))
             /\ reservation' = [reservation EXCEPT ![r] = [amount |-> cost, status |-> "open"]]
    <3>1. t \in Teams /\ cost \in Nat /\ Ensured(t).held = account[t].held /\ Ensured(t) \in Row
      BY <1>1, CostAssumption, BoundAssumption
    <3>2. /\ reservation'[r].amount = cost /\ reservation'[r].status = "open"
          /\ \A q \in Runs \ {r} : reservation'[q] = reservation[q]
      BY <1>1, <2>3 DEF TypeOK
    <3>3. row.held = account[t].held + cost BY <3>1 DEF Row
    <3> HIDE DEF cost, row
    <3>4. /\ account'[t].held = account[t].held + cost
          /\ \A u \in Teams \ {t} : account'[u] = account[u]
          /\ opened' = opened \union {t}
      BY <1>1, <2>3, <3>1, <3>3 DEF TypeOK, Commit
    <3>5. /\ Stale(t)' = Stale(t) \union {r} /\ r \notin Stale(t)
          /\ \A u \in Teams \ {t} : Stale(u)' = Stale(u) /\ r \notin Stale(u)
      BY <2>1, <3>2 DEF Stale
    <3>6. /\ Weights'[r] = cost
          /\ \A q \in Runs \ {r} : Weights'[q] = Weights[q]
      BY <3>2 DEF Weights
    <3>7. ASSUME NEW u \in Teams PROVE IsFiniteSet(Stale(u)) /\ Total(Weights', Stale(u)) = Total(Weights, Stale(u))
      <4>1. IsFiniteSet(Stale(u)) BY DEF HoldsInv
      <4>2. \A q \in Stale(u) : Weights'[q] = Weights[q] BY <3>5, <3>6 DEF Stale
      <4> QED BY <4>1, <4>2, TotalSame
    <3>8. IsFiniteSet(Stale(t)') BY <3>1, <3>5, <3>7, FS_AddElement
    <3>9. Total(Weights', Stale(t)') = cost + Total(Weights, Stale(t))
      <4>1. \A q \in Stale(t)' : Weights'[q] \in Nat
        <5>1. \A q \in Runs : Weights[q] \in Nat BY <1>1 DEF Weights, TypeOK, Hold
        <5> QED BY <3>1, <3>5, <3>6, <5>1 DEF Stale
      <4>2. r \in Stale(t)' /\ Stale(t)' \ {r} = Stale(t) BY <3>5
      <4>3. Total(Weights', Stale(t)') = Weights'[r] + Total(Weights', Stale(t)' \ {r})
        BY <3>8, <4>1, <4>2, TotalWithout
      <4> QED BY <3>1, <3>6, <3>7, <4>2, <4>3
    <3>10. account[t].held \in Nat /\ account[t].held = Total(Weights, Stale(t))
      BY <1>1, <3>1 DEF TypeOK, Row, HoldsInv
    <3>11. \A u \in Teams : IsFiniteSet(Stale(u)') /\ account'[u].held = Total(Weights', Stale(u)')
      <4> TAKE u \in Teams
      <4>1. CASE u = t BY <3>1, <3>4, <3>8, <3>9, <3>10, <4>1
      <4>2. CASE u # t BY <3>4, <3>5, <3>7, <4>2 DEF HoldsInv
      <4> QED BY <4>1, <4>2
    <3>12. \A u \in Teams \ opened' : account'[u].held = 0 BY <3>4 DEF HoldsInv
    <3>13. \A q \in Runs : reservation'[q].status = "open" => request'[q] = "admitted"
      BY <2>2, <3>2 DEF HoldsInv
    <3> QED BY <3>11, <3>12, <3>13 DEF HoldsInv
  <2>4. CASE UNCHANGED <<account, opened, reservation>>
    BY <1>1, <2>1, <2>2, <2>4, HoldsStay
  <2> QED BY <1>5, <2>3, <2>4 DEF Reserve
<1>6. ASSUME NEW r \in Runs, NEW w \in 1..MaxWrites, ReserveRefused(r, w) PROVE HoldsInv'
  <2>1. UNCHANGED <<account, opened, reservation>> /\ request[r] = "idle"
        /\ request' = [request EXCEPT ![r] = "refused"]
    BY <1>6 DEF ReserveRefused
  <2>2. \A q \in Runs : reservation[q].status = "open" => request'[q] = request[q]
    BY <1>1, <2>1 DEF HoldsInv, TypeOK
  <2> QED BY <1>1, <2>1, <2>2, HoldsStay
<1>7. ASSUME NEW r \in Runs, Release(r) PROVE HoldsInv'
  <2> DEFINE t == Payer[r]
             amount == reservation[r].amount
  <2>1. /\ reservation[r].status = "open" /\ t \in Teams /\ amount \in Nat
        /\ account' = [account EXCEPT ![t].held = AtLeastZero(@ - amount)]
        /\ reservation' = [reservation EXCEPT ![r].status = "released"]
        /\ UNCHANGED <<opened, request>>
    BY <1>1, <1>7 DEF Release, TypeOK, Hold
  <2>2. /\ reservation'[r].amount = amount /\ reservation'[r].status = "released"
        /\ \A q \in Runs \ {r} : reservation'[q] = reservation[q]
    BY <1>1, <2>1 DEF TypeOK, Hold
  <2>3. /\ account'[t].held = AtLeastZero(account[t].held - amount)
        /\ \A u \in Teams \ {t} : account'[u] = account[u]
    BY <1>1, <2>1 DEF TypeOK, Row
  <2>4. /\ Stale(t)' = Stale(t) \ {r} /\ r \in Stale(t)
        /\ \A u \in Teams \ {t} : Stale(u)' = Stale(u)
    BY <2>1, <2>2 DEF Stale
  <2>5. Weights' = Weights BY <2>2 DEF Weights
  <2>6. \A q \in Runs : Weights[q] \in Nat BY <1>1 DEF Weights, TypeOK, Hold
  <2>7. IsFiniteSet(Stale(t)) /\ account[t].held = Total(Weights, Stale(t)) BY <2>1 DEF HoldsInv
  <2>8. IsFiniteSet(Stale(t)') BY <2>4, <2>7, FS_Subset
  <2>9. /\ Total(Weights, Stale(t)) = amount + Total(Weights, Stale(t)')
        /\ Total(Weights, Stale(t)') \in Nat
    <3>1. \A q \in Stale(t) : Weights[q] \in Nat BY <2>6 DEF Stale
    <3>2. Weights[r] = amount BY DEF Weights
    <3>3. Total(Weights, Stale(t)) = Weights[r] + Total(Weights, Stale(t) \ {r})
      BY <2>4, <2>7, <3>1, TotalWithout
    <3>4. \A q \in Stale(t)' : Weights[q] \in Nat BY <2>4, <3>1
    <3>5. Total(Weights, Stale(t)') \in Nat BY <2>8, <3>4, TotalIsNat
    <3> QED BY <2>4, <3>2, <3>3, <3>5
  <2>10. account'[t].held = Total(Weights, Stale(t)')
    <3> DEFINE rest == Total(Weights, Stale(t)')
               given == amount
    <3>1. account[t].held = given + rest /\ rest \in Nat /\ given \in Nat BY <2>1, <2>7, <2>9
    <3>2. account'[t].held = AtLeastZero(account[t].held - given) BY <2>3
    <3> HIDE DEF rest, given
    <3>3. account[t].held - given = rest BY <3>1
    <3>4. account'[t].held = rest BY <3>1, <3>2, <3>3 DEF AtLeastZero
    <3> QED BY <3>4 DEF rest
  <2>11. \A u \in Teams : IsFiniteSet(Stale(u)') /\ account'[u].held = Total(Weights', Stale(u)')
    BY <2>3, <2>4, <2>5, <2>8, <2>10 DEF HoldsInv
  <2>12. \A u \in Teams \ opened' : account'[u].held = 0
    <3>1. t \notin opened => AtLeastZero(account[t].held - amount) = 0
      BY <2>1 DEF HoldsInv, AtLeastZero
    <3> QED BY <2>1, <2>3, <3>1 DEF HoldsInv
  <2>13. \A q \in Runs : reservation'[q].status = "open" => request'[q] = "admitted"
    BY <2>1, <2>2 DEF HoldsInv
  <2> QED BY <2>11, <2>12, <2>13 DEF HoldsInv
<1>8. ASSUME NEW r \in Runs, NEW w \in 0..MaxWrites, Charge(r, w) PROVE HoldsInv'
  <2>1. /\ reservation[r].status # "open" /\ request' = [request EXCEPT ![r] = "charged"]
        /\ UNCHANGED reservation /\ w * UnitCost \in Nat /\ Payer[r] \in Teams
    BY <1>1, <1>8, CostAssumption, BoundAssumption DEF Charge
  <2>2. \A q \in Runs : reservation[q].status = "open" => request'[q] = request[q]
    BY <1>1, <2>1 DEF TypeOK
  <2>3. CASE Bill(Payer[r], "run", w * UnitCost)
    BY <1>1, <2>1, <2>2, <2>3, BillHolds
  <2>4. CASE Commit(Payer[r], Ensured(Payer[r]), EnsuredLedger(Payer[r]))
    BY <1>1, <2>1, <2>2, <2>4, CommitHolds
  <2> QED BY <1>8, <2>3, <2>4 DEF Charge
<1>9. CASE MonthTurns
  BY <1>1, <1>9, HoldsStay DEF MonthTurns
<1>10. CASE Restart
  <2>1. /\ account' = [t \in Teams |-> [account[t] EXCEPT !.held = AtLeastZero(@ - HeldBy(Stale(t)))]]
        /\ UNCHANGED opened
        /\ \A r \in Runs : reservation'[r].status # "open"
    BY <1>1, <1>10 DEF Restart, TypeOK, Hold
  <2>2. ASSUME NEW t \in Teams PROVE account'[t].held = 0
    <3>1. IsFiniteSet(Stale(t)) /\ Stale(t) \subseteq Runs BY DEF HoldsInv, Stale
    <3>2. HeldBy(Stale(t)) = Total(Weights, Stale(t)) BY <3>1, HeldIsTotal
    <3>3. account[t].held = HeldBy(Stale(t)) BY <3>2 DEF HoldsInv
    <3>4. account[t].held \in Nat BY <1>1 DEF TypeOK, Row
    <3>5. AtLeastZero(account[t].held - HeldBy(Stale(t))) = 0 BY <3>3, <3>4 DEF AtLeastZero
    <3>6. account[t] \in Row BY <1>1 DEF TypeOK
    <3> QED BY <2>1, <3>5, <3>6 DEF Row
  <2>3. \A t \in Teams : Stale(t)' = {} BY <2>1 DEF Stale
  <2>4. Total(Weights', {}) = 0 /\ IsFiniteSet({}) BY FS_EmptySet, TotalAt
  <2> QED BY <2>1, <2>2, <2>3, <2>4 DEF HoldsInv
<1>11. CASE UNCHANGED vars
  BY <1>1, <1>11, HoldsStay DEF vars
<1> QED
  BY <1>2, <1>3, <1>4, <1>5, <1>6, <1>7, <1>8, <1>9, <1>10, <1>11 DEF Next

\* The held column is what the open reservations add up to, and each of them is of a
\* run this process admitted (reserve, release and release_stale of credits.py).
THEOREM HoldsAddUp == Spec => []HeldIsPromised
<1>1. Init => HoldsInv
  <2> SUFFICES ASSUME Init PROVE HoldsInv
    OBVIOUS
  <2>1. \A t \in Teams : Stale(t) = {} /\ account[t].held = 0 BY DEF Init, Stale, NewRow
  <2>2. Total(Weights, {}) = 0 /\ IsFiniteSet({}) BY FS_EmptySet, TotalAt
  <2>3. \A r \in Runs : reservation[r].status # "open" BY DEF Init
  <2> QED BY <2>1, <2>2, <2>3 DEF HoldsInv
<1>2. HoldsInv => HeldIsPromised
  <2>1. \A t \in Teams : Stale(t) \subseteq Runs BY DEF Stale
  <2> QED BY <2>1, HeldIsTotal DEF HoldsInv, HeldIsPromised
<1> QED BY <1>1, <1>2, HoldsStep, LedgerInvariant, PTL DEF Spec

-----------------------------------------------------------------------------
(* What a month waives is what its allowance counts as used.               *)

Waived(entries)     == [i \in DOMAIN entries |-> entries[i].free]
OfMonth(entries, m) == {i \in DOMAIN entries : entries[i].period = m}
FreeOf(entries, m)  == Total(Waived(entries), OfMonth(entries, m))

LEMMA MonthIsFinite ==
  ASSUME NEW s \in Seq(Entry), NEW m
  PROVE  IsFiniteSet(OfMonth(s, m)) /\ \A i \in DOMAIN s : Waived(s)[i] \in Nat
<1>1. DOMAIN s = 1 .. Len(s) /\ Len(s) \in Nat OBVIOUS
<1>2. IsFiniteSet(DOMAIN s) BY <1>1, FS_Interval
<1>3. IsFiniteSet(OfMonth(s, m)) BY <1>2, FS_Subset DEF OfMonth
<1>4. \A i \in DOMAIN s : s[i] \in Entry OBVIOUS
<1> QED BY <1>3, <1>4 DEF Waived, Entry

LEMMA FreeIsTotal ==
  ASSUME NEW t \in Teams, NEW m, ledger[t] \in Seq(Entry)
  PROVE  FreeIn(t, m) = FreeOf(ledger[t], m)
<1> DEFINE S == InMonth(t, m)
           w == Waived(ledger[t])
           Adds(g) == g = [s \in SUBSET S |->
             IF s = {} THEN 0 ELSE ledger[t][Pick(s)].free + g[s \ {Pick(s)}]]
<1>1. FreeIn(t, m) = (CHOOSE g : Adds(g))[S]
  BY DEF FreeIn, MapThenSumSet, MapThenFoldSet, Pick
<1>2. S = OfMonth(ledger[t], m) /\ IsFiniteSet(S) /\ S \subseteq DOMAIN ledger[t]
  BY MonthIsFinite DEF InMonth, OfMonth
<1> HIDE DEF S
<1>3. ASSUME NEW g PROVE Adds(g) <=> IsSum(g, S, w)
  <2> DEFINE a == [s \in SUBSET S |-> IF s = {} THEN 0 ELSE ledger[t][Pick(s)].free + g[s \ {Pick(s)}]]
             b == [s \in SUBSET S |-> IF s = {} THEN 0 ELSE w[Pick(s)] + g[s \ {Pick(s)}]]
  <2>1. \A s \in SUBSET S : s # {} => Pick(s) \in DOMAIN ledger[t] BY <1>2, PickIsIn
  <2>2. \A s \in SUBSET S : a[s] = b[s] BY <2>1 DEF Waived
  <2>3. a = b
    <3>1. a = [s \in SUBSET S |-> a[s]] /\ b = [s \in SUBSET S |-> b[s]] OBVIOUS
    <3> HIDE DEF a, b
    <3> QED BY <2>2, <3>1
  <2> QED BY <2>3, Zenon DEF IsSum
<1>4. \E g : Adds(g) BY <1>2, <1>3, SumExists
<1> DEFINE h == CHOOSE g : Adds(g)
<1>5. Adds(h)
  <2> HIDE DEF Adds
  <2> QED BY <1>4
<1>6. IsSum(h, S, w) BY <1>3, <1>5
<1>7. IsSum(CHOOSE f : IsSum(f, S, w), S, w) BY <1>2, SumExists
<1>8. h[S] = Total(w, S)
  <2> HIDE DEF h, w
  <2> QED BY <1>2, <1>6, <1>7, SumsAgree DEF Total
<1> QED BY <1>1, <1>2, <1>8 DEF FreeOf

LEMMA NothingWaived ==
  ASSUME NEW s \in Seq(Entry), NEW m, OfMonth(s, m) = {}
  PROVE  FreeOf(s, m) = 0
BY FS_EmptySet, TotalAt DEF FreeOf

LEMMA AppendWaives ==
  ASSUME NEW s \in Seq(Entry), NEW e \in Entry, NEW m
  PROVE  FreeOf(Append(s, e), m) = FreeOf(s, m) + (IF e.period = m THEN e.free ELSE 0)
<1> DEFINE u == Append(s, e)
           n == Len(s) + 1
<1>1. /\ u \in Seq(Entry) /\ DOMAIN u = DOMAIN s \union {n} /\ n \notin DOMAIN s
      /\ u[n] = e /\ \A i \in DOMAIN s : u[i] = s[i]
  OBVIOUS
<1> HIDE DEF u, n
<1>2. /\ IsFiniteSet(OfMonth(s, m)) /\ IsFiniteSet(OfMonth(u, m))
      /\ \A i \in DOMAIN s : Waived(s)[i] \in Nat
      /\ \A i \in DOMAIN u : Waived(u)[i] \in Nat
  BY <1>1, MonthIsFinite
<1>3. Total(Waived(u), OfMonth(s, m)) = FreeOf(s, m)
  <2>1. \A i \in OfMonth(s, m) : Waived(u)[i] = Waived(s)[i] BY <1>1 DEF OfMonth, Waived
  <2> QED BY <1>2, <2>1, TotalSame DEF FreeOf
<1>4. FreeOf(s, m) \in Nat
  <2>1. \A i \in OfMonth(s, m) : Waived(s)[i] \in Nat BY <1>2 DEF OfMonth
  <2> QED BY <1>2, <2>1, TotalIsNat DEF FreeOf
<1>5. CASE e.period = m
  <2>1. n \in OfMonth(u, m) /\ OfMonth(u, m) \ {n} = OfMonth(s, m) BY <1>1, <1>5 DEF OfMonth
  <2>2. Waived(u)[n] = e.free /\ e.free \in Nat BY <1>1 DEF Waived, Entry
  <2>3. \A i \in OfMonth(u, m) : Waived(u)[i] \in Nat BY <1>2 DEF OfMonth
  <2>4. Total(Waived(u), OfMonth(u, m)) = Waived(u)[n] + Total(Waived(u), OfMonth(u, m) \ {n})
    BY <1>2, <2>1, <2>3, TotalWithout
  <2>5. FreeOf(u, m) = e.free + FreeOf(s, m) BY <1>3, <2>1, <2>2, <2>4 DEF FreeOf
  <2>6. FreeOf(u, m) = FreeOf(s, m) + e.free BY <1>4, <2>2, <2>5
  <2> QED BY <1>5, <2>6 DEF u
<1>6. CASE e.period # m
  <2>1. OfMonth(u, m) = OfMonth(s, m) BY <1>1, <1>6 DEF OfMonth
  <2>2. FreeOf(u, m) = FreeOf(s, m) BY <1>3, <2>1 DEF FreeOf
  <2> QED BY <1>4, <1>6, <2>2 DEF u
<1> QED BY <1>5, <1>6

\* The entries of an account and the allowance its row counts as used agree.
Audited(entries, row) ==
  /\ \A i \in DOMAIN entries : entries[i].period <= row.period
  /\ row.freeUsed = FreeOf(entries, row.period)
  /\ \A m \in Nat : FreeOf(entries, m) <= FreeMonthly

AuditInv == \A t \in Teams : Audited(ledger[t], account[t])

LEMMA EnsuredAudited ==
  ASSUME LedgerInv, AccountsInv, AuditInv, NEW t \in Teams
  PROVE  Audited(EnsuredLedger(t), Ensured(t))
<1>1. /\ account[t] \in Row /\ ledger[t] \in Seq(Entry) /\ month \in Nat
      /\ account[t].period <= month /\ Audited(ledger[t], account[t])
      /\ FreeMonthly \in Nat /\ Opening \in Nat
  BY CostAssumption DEF LedgerInv, TypeOK, AccountsInv, AuditInv
<1>2. CASE t \notin opened
  <2>1. Ensured(t).period = month /\ Ensured(t).freeUsed = 0 BY <1>2 DEF Ensured, NewRow
  <2>2. <<>> \in Seq(Entry) /\ \A m \in Nat : FreeOf(<<>>, m) = 0
    <3>1. <<>> \in Seq(Entry) /\ \A m : OfMonth(<<>>, m) = {} BY DEF OfMonth
    <3> QED BY <3>1, NothingWaived
  <2>3. CASE Opening = 0
    <3>1. EnsuredLedger(t) = <<>> BY <1>2, <2>3 DEF EnsuredLedger, LedgerInv, UnopenedIsEmpty
    <3> QED BY <1>1, <2>1, <2>2, <3>1 DEF Audited
  <2>4. CASE Opening # 0
    <3> DEFINE e == GrantEntry(Opening, Opening, month)
    <3>1. EnsuredLedger(t) = Append(<<>>, e) BY <1>2, <2>4 DEF EnsuredLedger
    <3>2. e \in Entry /\ e.free = 0 /\ e.period = month BY <1>1 DEF GrantEntry, Entry
    <3> HIDE DEF e
    <3>3. \A m \in Nat : FreeOf(Append(<<>>, e), m) = 0
      <4> TAKE m \in Nat
      <4>1. FreeOf(Append(<<>>, e), m) = FreeOf(<<>>, m) + (IF e.period = m THEN e.free ELSE 0)
        BY <2>2, <3>2, AppendWaives
      <4> QED BY <2>2, <3>2, <4>1
    <3>4. \A i \in DOMAIN Append(<<>>, e) : Append(<<>>, e)[i].period <= month
      BY <1>1, <3>2
    <3> QED BY <1>1, <2>1, <3>1, <3>3, <3>4 DEF Audited
  <2> QED BY <2>3, <2>4
<1>3. CASE t \in opened
  <2>1. EnsuredLedger(t) = ledger[t] BY <1>3 DEF EnsuredLedger
  <2>2. CASE account[t].period = month
    <3>1. Ensured(t) = account[t] BY <1>3, <2>2 DEF Ensured
    <3> QED BY <1>1, <2>1, <3>1
  \* A month that turned has no entry yet.
  <2>3. CASE account[t].period # month
    <3>1. Ensured(t).period = month /\ Ensured(t).freeUsed = 0 BY <1>1, <1>3, <2>3 DEF Ensured, Row
    <3>2. account[t].period \in Nat /\ account[t].period < month BY <1>1, <2>3 DEF Row
    <3>3. \A i \in DOMAIN ledger[t] : ledger[t][i].period \in Nat /\ ledger[t][i].period <= account[t].period
      <4>1. \A i \in DOMAIN ledger[t] : ledger[t][i] \in Entry BY <1>1
      <4> QED BY <1>1, <4>1 DEF Audited, Entry
    <3>4. OfMonth(ledger[t], month) = {} BY <1>1, <3>2, <3>3 DEF OfMonth
    <3>5. FreeOf(ledger[t], month) = 0 BY <1>1, <3>4, NothingWaived
    <3>6. \A i \in DOMAIN ledger[t] : ledger[t][i].period <= month BY <1>1, <3>2, <3>3
    <3> QED BY <1>1, <2>1, <3>1, <3>5, <3>6 DEF Audited
  <2> QED BY <2>2, <2>3
<1> QED BY <1>2, <1>3

LEMMA AppendAudited ==
  ASSUME NEW s \in Seq(Entry), NEW row \in Row, Audited(s, row), NEW e \in Entry, NEW after \in Row,
         e.period = row.period, after.period = row.period,
         after.freeUsed = row.freeUsed + e.free, after.freeUsed <= FreeMonthly
  PROVE  Audited(Append(s, e), after)
<1>1. e.free \in Nat /\ row.period \in Nat /\ row.freeUsed \in Nat BY DEF Entry, Row
<1>2. \A i \in DOMAIN Append(s, e) : Append(s, e)[i].period <= after.period
  <2>1. /\ DOMAIN Append(s, e) = DOMAIN s \union {Len(s) + 1}
        /\ Append(s, e)[Len(s) + 1] = e /\ \A i \in DOMAIN s : Append(s, e)[i] = s[i]
    OBVIOUS
  <2> QED BY <1>1, <2>1 DEF Audited
<1>3. ASSUME NEW m PROVE FreeOf(Append(s, e), m) = FreeOf(s, m) + (IF e.period = m THEN e.free ELSE 0)
  BY AppendWaives
<1>4. FreeOf(s, row.period) = row.freeUsed BY DEF Audited
<1>5. FreeOf(Append(s, e), row.period) = after.freeUsed BY <1>1, <1>3, <1>4
<1>6. ASSUME NEW m \in Nat PROVE FreeOf(Append(s, e), m) <= FreeMonthly
  <2>1. CASE m = row.period BY <1>5, <2>1
  <2>2. CASE m # row.period
    <3>1. FreeOf(s, m) \in Nat
      <4>1. IsFiniteSet(OfMonth(s, m)) /\ \A i \in OfMonth(s, m) : Waived(s)[i] \in Nat
        BY MonthIsFinite DEF OfMonth
      <4> QED BY <4>1, TotalIsNat DEF FreeOf
    <3>2. FreeOf(Append(s, e), m) = FreeOf(s, m) + 0 BY <1>3, <2>2
    <3>3. FreeOf(s, m) <= FreeMonthly BY DEF Audited
    <3> QED BY <3>1, <3>2, <3>3
  <2> QED BY <2>1, <2>2
<1> QED BY <1>2, <1>5, <1>6 DEF Audited

LEMMA CommitAudited ==
  ASSUME LedgerInv, AuditInv, NEW t \in Teams, NEW row, NEW entries,
         Commit(t, row, entries), Audited(entries, row)
  PROVE  AuditInv'
<1>1. TypeOK BY DEF LedgerInv
<1>2. /\ account'[t] = row /\ ledger'[t] = entries
      /\ \A u \in Teams \ {t} : account'[u] = account[u] /\ ledger'[u] = ledger[u]
  BY <1>1 DEF Commit, TypeOK
<1>3. ASSUME NEW u \in Teams PROVE Audited(ledger'[u], account'[u])
  <2>1. CASE u = t BY <1>2, <2>1
  <2>2. CASE u # t BY <1>2, <2>2 DEF AuditInv
  <2> QED BY <2>1, <2>2
<1>4. AuditInv' <=> \A u \in Teams : Audited(ledger'[u], account'[u])
  BY Zenon DEF AuditInv, Audited, FreeOf, Total, IsSum, Waived, OfMonth, Pick
<1> QED BY <1>3, <1>4

\* The books of a month do not move with the holds.
LEMMA AuditStays ==
  ASSUME AuditInv, UNCHANGED ledger,
         \A t \in Teams : account'[t].period = account[t].period /\ account'[t].freeUsed = account[t].freeUsed
  PROVE  AuditInv'
<1>1. AuditInv' <=> \A u \in Teams : Audited(ledger'[u], account'[u])
  BY Zenon DEF AuditInv, Audited, FreeOf, Total, IsSum, Waived, OfMonth, Pick
<1>2. \A u \in Teams : Audited(ledger[u], account'[u]) BY DEF AuditInv, Audited
<1> QED BY <1>1, <1>2

LEMMA BillAudited ==
  ASSUME LedgerInv, AccountsInv, AuditInv, NEW t \in Teams, NEW reason \in {"run", "assist"},
         NEW cost \in Nat, Bill(t, reason, cost)
  PROVE  AuditInv'
<1> DEFINE row == Ensured(t)
           e == BillEntry(reason, row, cost)
           after == Billed(row, cost)
<1>1. /\ row \in Row /\ EnsuredLedger(t) \in Seq(Entry) /\ gate \in BOOLEAN
      /\ row.freeUsed <= FreeMonthly /\ Audited(EnsuredLedger(t), row)
  BY EnsuredIsRow, EnsuredWithin, EnsuredAudited DEF LedgerInv, TypeOK
<1>2. e \in Entry /\ after \in Row BY <1>1, BillTypes
<1>3. after.period = row.period /\ after.freeUsed <= FreeMonthly BY <1>1, BilledWithin
<1>4. e.period = row.period /\ e.free = IF gate THEN FromFree(row, cost) ELSE 0 BY DEF BillEntry
<1>5. after.freeUsed = IF gate THEN row.freeUsed + FromFree(row, cost) ELSE row.freeUsed
  BY <1>1 DEF Billed, Row
<1>6. row.freeUsed \in Nat BY <1>1 DEF Row
<1>7. Commit(t, after, Append(EnsuredLedger(t), e)) BY DEF Bill
<1> HIDE DEF row, e, after
<1>8. after.freeUsed = row.freeUsed + e.free BY <1>1, <1>4, <1>5, <1>6
<1>9. Audited(Append(EnsuredLedger(t), e), after)
  BY <1>1, <1>2, <1>3, <1>4, <1>8, AppendAudited
<1> QED BY <1>7, <1>9, CommitAudited

LEMMA AuditStep == LedgerInv /\ AccountsInv /\ AuditInv /\ [Next]_vars => AuditInv'
<1> SUFFICES ASSUME LedgerInv, AccountsInv, AuditInv, [Next]_vars PROVE AuditInv'
  OBVIOUS
<1>1. /\ TypeOK
      /\ \A t \in Teams : /\ Ensured(t) \in Row /\ EnsuredLedger(t) \in Seq(Entry)
                          /\ Ensured(t).freeUsed <= FreeMonthly
                          /\ Audited(EnsuredLedger(t), Ensured(t))
      /\ \A r \in Runs : Payer[r] \in Teams
  BY EnsuredIsRow, EnsuredWithin, EnsuredAudited, PayerAssumption DEF LedgerInv
<1>2. CASE UNCHANGED <<account, ledger>>
  BY <1>2, AuditStays
<1>3. ASSUME NEW t \in Teams, Account(t) PROVE AuditInv'
  BY <1>1, <1>3, CommitAudited DEF Account
<1>4. ASSUME NEW t \in Teams, RecordAssist(t) PROVE AuditInv'
  BY <1>4, BillAudited, CostAssumption DEF RecordAssist
<1>5. ASSUME NEW t \in Teams, NEW n \in Grants, Grant(t, n) PROVE AuditInv'
  <2> DEFINE row == Ensured(t)
             b == row.balance + n
             e == GrantEntry(n, b, row.period)
             after == [row EXCEPT !.balance = b]
  <2>1. row \in Row /\ n \in Int /\ b \in Nat /\ Commit(t, after, Append(EnsuredLedger(t), e))
    BY <1>1, <1>5, GrantAssumption DEF Grant, Row
  <2>2. e \in Entry /\ e.period = row.period /\ e.free = 0
    BY <2>1 DEF GrantEntry, Entry, Row
  <2>3. row.freeUsed \in Nat /\ row.freeUsed <= FreeMonthly BY <1>1 DEF Row
  <2> HIDE DEF b
  <2>4. after \in Row /\ after.period = row.period /\ after.freeUsed = row.freeUsed
    BY <2>1 DEF Row
  <2> HIDE DEF row, e, after
  <2>5. after.freeUsed = row.freeUsed + e.free BY <2>2, <2>3, <2>4
  <2>6. Audited(EnsuredLedger(t), row) /\ EnsuredLedger(t) \in Seq(Entry) BY <1>1 DEF row
  <2>7. Audited(Append(EnsuredLedger(t), e), after)
    BY <2>1, <2>2, <2>3, <2>4, <2>5, <2>6, AppendAudited
  <2> QED BY <2>1, <2>7, CommitAudited
<1>6. ASSUME NEW r \in Runs, NEW w \in 1..MaxWrites, Reserve(r, w) PROVE AuditInv'
  <2> DEFINE row == Ensured(Payer[r])
             after == [row EXCEPT !.held = @ + w * UnitCost]
  <2>1. after.period = row.period /\ after.freeUsed = row.freeUsed BY <1>1 DEF Row
  <2>2. Audited(EnsuredLedger(Payer[r]), after) BY <1>1, <2>1 DEF Audited
  <2>3. Commit(Payer[r], after, EnsuredLedger(Payer[r])) \/ UNCHANGED <<account, ledger>>
    BY <1>6 DEF Reserve
  <2> HIDE DEF after
  <2> QED BY <1>1, <1>2, <2>2, <2>3, CommitAudited
<1>7. ASSUME NEW r \in Runs, Release(r) PROVE AuditInv'
  <2>1. \A t \in Teams : account'[t].period = account[t].period /\ account'[t].freeUsed = account[t].freeUsed
    BY <1>1, <1>7 DEF Release, TypeOK, Row
  <2> QED BY <1>7, <2>1, AuditStays DEF Release
<1>8. ASSUME NEW r \in Runs, NEW w \in 0..MaxWrites, Charge(r, w) PROVE AuditInv'
  <2>1. w * UnitCost \in Nat BY CostAssumption, BoundAssumption
  <2>2. CASE Bill(Payer[r], "run", w * UnitCost) BY <1>1, <2>1, <2>2, BillAudited
  <2>3. CASE Commit(Payer[r], Ensured(Payer[r]), EnsuredLedger(Payer[r]))
    BY <1>1, <2>3, CommitAudited
  <2> QED BY <1>8, <2>2, <2>3 DEF Charge
<1>9. CASE Restart
  <2>1. \A t \in Teams : account'[t].period = account[t].period /\ account'[t].freeUsed = account[t].freeUsed
    BY <1>1, <1>9 DEF Restart, TypeOK, Row
  <2> QED BY <1>9, <2>1, AuditStays DEF Restart
<1> QED
  BY <1>2, <1>3, <1>4, <1>5, <1>6, <1>7, <1>8, <1>9 DEF Next, ReserveRefused, MonthTurns, vars

\* No month waives more than the allowance, and what the row counts as used is what the
\* entries of its month waived (_ensure, _bill and invoices of credits.py).
THEOREM AllowanceIsAudited == Spec => []FreeAllowanceAudited
<1>1. Init => AuditInv
  <2> SUFFICES ASSUME Init, NEW t \in Teams PROVE Audited(ledger[t], account[t])
    BY DEF AuditInv
  <2>1. ledger[t] = <<>> /\ account[t].freeUsed = 0 BY DEF Init, NewRow
  <2>2. <<>> \in Seq(Entry) /\ \A m : OfMonth(<<>>, m) = {} BY DEF OfMonth
  <2>3. \A m : FreeOf(<<>>, m) = 0 BY <2>2, NothingWaived
  <2> QED BY <2>1, <2>3, CostAssumption DEF Audited
<1>2. LedgerInv /\ AuditInv => FreeAllowanceAudited
  <2> SUFFICES ASSUME LedgerInv, AuditInv, NEW t \in Teams
               PROVE  /\ \A m \in 0..month : FreeIn(t, m) <= FreeMonthly
                      /\ account[t].freeUsed = FreeIn(t, account[t].period)
    BY DEF FreeAllowanceAudited
  <2>1. ledger[t] \in Seq(Entry) /\ month \in Nat BY DEF LedgerInv, TypeOK
  <2>2. \A m : FreeIn(t, m) = FreeOf(ledger[t], m) BY <2>1, FreeIsTotal
  <2>3. Audited(ledger[t], account[t]) BY DEF AuditInv
  <2> QED BY <2>1, <2>2, <2>3 DEF Audited
<1> QED BY <1>1, <1>2, AuditStep, LedgerInvariant, AccountsInvariant, PTL DEF Spec

\* The monthly allowance is spent first, once, and in the month it belongs to.
THEOREM AllowanceKeepsItsMonth == Spec => AllowanceIsHonest
BY AllowanceIsAudited, AllowanceComesFirst, PTL DEF AllowanceIsHonest
=============================================================================
