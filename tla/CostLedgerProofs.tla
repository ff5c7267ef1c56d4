-------------------------- MODULE CostLedgerProofs --------------------------
(***************************************************************************)
(* Theorems about CostLedger, for any number of runs, every clock, every   *)
(* pair of caps, every price and every number of failures.                 *)
(***************************************************************************)
EXTENDS CostLedger, Integers, FiniteSetTheorems, TLAPS

-----------------------------------------------------------------------------
(* The sum of some rows. *)

\* A cent is the i-th of a row.
LEMMA CentsOf ==
  ASSUME NEW rows, NEW keys, NEW k, NEW i
  PROVE  <<k, i>> \in cents(rows, keys) <=> k \in keys /\ i \in 1 .. rows[k]
  BY DEF cents

\* There is nothing but cents in it.
LEMMA OnlyCents ==
  ASSUME NEW rows, NEW keys, NEW c \in cents(rows, keys)
  PROVE  \E k \in keys : \E i \in 1 .. rows[k] : c = <<k, i>>
  BY DEF cents

\* Finitely many rows have finitely many cents, so that their sum is a number.
LEMMA SumType ==
  ASSUME NEW keys, IsFiniteSet(keys), NEW rows, \A k \in keys : rows[k] \in Nat
  PROVE  IsFiniteSet(cents(rows, keys)) /\ sum(rows, keys) \in Nat
<1> DEFINE row == [k \in keys |-> {k} \X (1 .. rows[k])]
           all == {{k} \X (1 .. rows[k]) : k \in keys}
<1>1. row \in Surjection(keys, all)
  BY DEF Surjection
<1>2. IsFiniteSet(all)
  <2> HIDE DEF row, all
  <2> QED
    BY <1>1, FS_Surjection
<1>3. \A T \in all : IsFiniteSet(T)
  <2>1. ASSUME NEW k \in keys PROVE IsFiniteSet({k} \X (1 .. rows[k]))
    <3>1. 1 \in Int /\ rows[k] \in Int
      OBVIOUS
    <3>2. IsFiniteSet(1 .. rows[k])
      BY <3>1, FS_Interval
    <3>3. IsFiniteSet({k})
      BY FS_Singleton
    <3> QED
      BY <3>2, <3>3, FS_Product
  <2> QED
    BY <2>1
<1>4. IsFiniteSet(UNION all)
  <2> HIDE DEF all
  <2> QED
    BY <1>2, <1>3, FS_UNION
<1>5. IsFiniteSet(cents(rows, keys))
  BY <1>4 DEF cents
<1> QED
  BY <1>5, FS_CardinalityType DEF sum

\* Rows that are the same add up to the same.
LEMMA SameSum ==
  ASSUME NEW keys, NEW f, NEW g, \A k \in keys : f[k] = g[k]
  PROVE  sum(f, keys) = sum(g, keys)
<1>1. {{k} \X (1 .. f[k]) : k \in keys} = {{k} \X (1 .. g[k]) : k \in keys}
  OBVIOUS
<1> QED
  BY <1>1 DEF sum, cents

\* Empty rows add up to nothing.
LEMMA EmptySum ==
  ASSUME NEW keys, NEW f, \A k \in keys : f[k] = 0
  PROVE  sum(f, keys) = 0
<1>1. ASSUME NEW c \in cents(f, keys) PROVE FALSE
  <2>1. PICK k \in keys : \E i \in 1 .. f[k] : c = <<k, i>>
    BY OnlyCents
  <2>2. 1 .. f[k] = {}
    <3>1. f[k] = 0
      OBVIOUS
    <3> QED
      BY <3>1
  <2> QED
    BY <2>1, <2>2
<1>2. cents(f, keys) = {}
  BY <1>1
<1> QED
  BY <1>2, FS_EmptySet DEF sum

\* A row that grows makes the sum grow by as much.
LEMMA GrownSum ==
  ASSUME NEW keys, IsFiniteSet(keys), NEW f, \A k \in keys : f[k] \in Nat,
         NEW here \in keys, NEW amount \in Nat,
         NEW g, g[here] = f[here] + amount, \A k \in keys \ {here} : g[k] = f[k]
  PROVE  sum(g, keys) = sum(f, keys) + amount
<1> DEFINE new == {here} \X (f[here] + 1 .. f[here] + amount)
<1>1. /\ IsFiniteSet(cents(f, keys)) /\ sum(f, keys) \in Nat
      /\ f[here] \in Nat
  BY SumType
<1>2. IsFiniteSet(new) /\ Cardinality(new) = amount
  <2>1. /\ IsFiniteSet(f[here] + 1 .. f[here] + amount)
        /\ Cardinality(f[here] + 1 .. f[here] + amount) = amount
    <3>1. f[here] + 1 \in Int /\ f[here] + amount \in Int
      BY <1>1
    <3>2. /\ IsFiniteSet(f[here] + 1 .. f[here] + amount)
          /\ Cardinality(f[here] + 1 .. f[here] + amount) =
               IF f[here] + 1 > f[here] + amount THEN 0
                                                 ELSE (f[here] + amount) - (f[here] + 1) + 1
      BY <3>1, FS_Interval
    <3> QED
      BY <1>1, <3>2
  <2>2. IsFiniteSet({here}) /\ Cardinality({here}) = 1
    BY FS_Singleton
  <2> DEFINE more == f[here] + 1 .. f[here] + amount
  <2>3. /\ IsFiniteSet({here} \X more)
        /\ Cardinality({here} \X more) = Cardinality({here}) * Cardinality(more)
    <3>1. IsFiniteSet(more)
      BY <2>1
    <3> HIDE DEF more
    <3> QED
      BY <2>2, <3>1, FS_Product
  <2>4. Cardinality({here}) * Cardinality(more) = amount
    BY <2>1, <2>2
  <2> QED
    BY <2>3, <2>4
<1>3. cents(g, keys) = cents(f, keys) \cup new
  <2>1. ASSUME NEW c \in cents(g, keys) PROVE c \in cents(f, keys) \cup new
    <3>1. PICK k \in keys : \E i \in 1 .. g[k] : c = <<k, i>>
      BY OnlyCents
    <3>2. PICK i \in 1 .. g[k] : c = <<k, i>>
      BY <3>1
    <3>3. CASE k # here
      <4>1. i \in 1 .. f[k]
        BY <3>2, <3>3
      <4> QED
        BY <3>2, <4>1, CentsOf
    <3>4. CASE k = here /\ i \in 1 .. f[here]
      BY <3>2, <3>4, CentsOf
    <3>5. CASE k = here /\ i \notin 1 .. f[here]
      <4>1. i \in f[here] + 1 .. f[here] + amount
        BY <1>1, <3>2, <3>5
      <4> QED
        BY <3>2, <3>5, <4>1
    <3> QED
      BY <3>3, <3>4, <3>5
  <2>2. ASSUME NEW c \in cents(f, keys) PROVE c \in cents(g, keys)
    <3>1. PICK k \in keys : \E i \in 1 .. f[k] : c = <<k, i>>
      BY OnlyCents
    <3>2. PICK i \in 1 .. f[k] : c = <<k, i>>
      BY <3>1
    <3>3. i \in 1 .. g[k]
      <4>1. CASE k = here
        BY <1>1, <3>2, <4>1
      <4>2. CASE k # here
        BY <3>2, <4>2
      <4> QED
        BY <4>1, <4>2
    <3> QED
      BY <3>2, <3>3, CentsOf
  <2>3. ASSUME NEW c \in new PROVE c \in cents(g, keys)
    <3>1. PICK i \in f[here] + 1 .. f[here] + amount : c = <<here, i>>
      OBVIOUS
    <3>2. i \in 1 .. g[here]
      BY <1>1, <3>1
    <3> QED
      BY <3>1, <3>2, CentsOf
  <2> QED
    BY <2>1, <2>2, <2>3
<1>4. cents(f, keys) \cap new = {}
  <2>1. ASSUME NEW c \in new, c \in cents(f, keys) PROVE FALSE
    <3>1. PICK i \in f[here] + 1 .. f[here] + amount : c = <<here, i>>
      OBVIOUS
    <3>2. i \in 1 .. f[here]
      BY <2>1, <3>1, CentsOf
    <3> QED
      BY <1>1, <3>1, <3>2
  <2> QED
    BY <2>1
<1> HIDE DEF new
<1>5. Cardinality(cents(g, keys)) = Cardinality(cents(f, keys)) + amount - 0
  <2>1. Cardinality(cents(f, keys) \cup new) =
          Cardinality(cents(f, keys)) + Cardinality(new) - Cardinality(cents(f, keys) \cap new)
    BY <1>1, <1>2, FS_Union
  <2>2. Cardinality(cents(f, keys) \cap new) = 0
    BY <1>4, FS_EmptySet
  <2> QED
    BY <1>2, <1>3, <2>1, <2>2
<1> QED
  BY <1>1, <1>5 DEF sum

\* Rows that are emptied take their own sum away, and nothing else.
LEMMA PrunedSum ==
  ASSUME NEW keys, IsFiniteSet(keys), NEW f, \A k \in keys : f[k] \in Nat,
         NEW gone \in SUBSET keys,
         NEW g, \A k \in keys : g[k] = IF k \in gone THEN 0 ELSE f[k]
  PROVE  sum(f, keys) = sum(g, keys) + sum(f, gone)
<1>1. IsFiniteSet(gone) /\ \A k \in gone : f[k] \in Nat
  BY FS_Subset
<1>2. \A k \in keys : g[k] \in Nat
  OBVIOUS
<1>3. IsFiniteSet(cents(g, keys)) /\ sum(g, keys) \in Nat
  BY <1>2, SumType
<1>4. IsFiniteSet(cents(f, gone)) /\ sum(f, gone) \in Nat
  BY <1>1, SumType
<1>5. cents(f, keys) = cents(g, keys) \cup cents(f, gone)
  <2>1. ASSUME NEW c \in cents(f, keys) PROVE c \in cents(g, keys) \cup cents(f, gone)
    <3>1. PICK k \in keys : \E i \in 1 .. f[k] : c = <<k, i>>
      BY OnlyCents
    <3>2. PICK i \in 1 .. f[k] : c = <<k, i>>
      BY <3>1
    <3>3. k \in gone => c \in cents(f, gone)
      BY <3>2, CentsOf
    <3>4. k \notin gone => c \in cents(g, keys)
      <4>1. k \notin gone => g[k] = f[k]
        OBVIOUS
      <4> QED
        BY <3>2, <4>1, CentsOf
    <3> QED
      BY <3>3, <3>4
  <2>2. ASSUME NEW c \in cents(g, keys) PROVE c \in cents(f, keys) /\ c \notin cents(f, gone)
    <3>1. PICK k \in keys : \E i \in 1 .. g[k] : c = <<k, i>>
      BY OnlyCents
    <3>2. PICK i \in 1 .. g[k] : c = <<k, i>>
      BY <3>1
    <3>3. k \notin gone
      <4>1. ASSUME k \in gone PROVE FALSE
        <5>1. g[k] = 0
          BY <4>1
        <5> QED
          BY <3>2, <5>1
      <4> QED
        BY <4>1
    <3>4. g[k] = f[k]
      BY <3>3
    <3> QED
      BY <3>2, <3>3, <3>4, CentsOf
  <2>3. ASSUME NEW c \in cents(f, gone) PROVE c \in cents(f, keys)
    <3>1. PICK k \in gone : \E i \in 1 .. f[k] : c = <<k, i>>
      BY OnlyCents
    <3> QED
      BY <3>1, CentsOf
  <2> QED
    BY <2>1, <2>2, <2>3
<1>6. cents(g, keys) \cap cents(f, gone) = {}
  <2>1. ASSUME NEW c \in cents(g, keys), c \in cents(f, gone) PROVE FALSE
    <3>1. PICK k \in gone : \E i \in 1 .. f[k] : c = <<k, i>>
      BY <2>1, OnlyCents
    <3>2. PICK i \in 1 .. f[k] : c = <<k, i>>
      BY <3>1
    <3>3. i \in 1 .. g[k]
      BY <2>1, <3>2, CentsOf
    <3>4. g[k] = 0
      OBVIOUS
    <3> QED
      BY <3>3, <3>4
  <2> QED
    BY <2>1
<1>7. Cardinality(cents(f, keys)) =
        Cardinality(cents(g, keys)) + Cardinality(cents(f, gone)) - 0
  BY <1>3, <1>4, <1>5, <1>6, FS_Union, FS_EmptySet
<1> QED
  BY <1>3, <1>4, <1>7 DEF sum

-----------------------------------------------------------------------------
(* Types and accounts. *)

\* The hours and the runs are finitely many; so are the hours of a day.
LEMMA Finite == IsFiniteSet(Hours) /\ IsFiniteSet(Runs) /\ \A h \in Hours : IsFiniteSet(Day(h))
<1>1. IsFiniteSet(Hours)
  BY ClockAssumption, FS_Interval DEF ClockAssumption, Hours
<1>2. \A h \in Hours : Day(h) \in SUBSET Hours
  BY DEF Day
<1> QED
  BY <1>1, <1>2, FS_Subset, BoundAssumption DEF BoundAssumption

\* The scopes of a refusal are those the loop knows.
LEMMA VerdictType ==
  /\ exceeded \in {"none", "per_hour", "per_day"}
  /\ \A total, hour : verdictAfter(total, hour) \in {"none", "per_hour", "per_day"}
  BY DEF exceeded, verdictAfter

\* Every action keeps TypeOK: a pruned row is empty, and a charged one has grown.
LEMMA TypeInvariant == Spec => []TypeOK
<1> USE ClockAssumption, MoneyAssumption, BoundAssumption
    DEF ClockAssumption, MoneyAssumption, BoundAssumption
<1>1. Init => TypeOK
  BY DEF Init, TypeOK, Hours
<1>2. TypeOK /\ [Next]_vars => TypeOK'
  <2> SUFFICES ASSUME TypeOK, [Next]_vars PROVE TypeOK'
    OBVIOUS
  <2> USE DEF TypeOK
  <2>1. ASSUME NEW r \in Runs, Preflight(r) PROVE TypeOK'
    BY <2>1, VerdictType DEF Preflight
  <2>2. ASSUME NEW r \in Runs, PreflightFails(r) PROVE TypeOK'
    BY <2>2 DEF PreflightFails
  <2>3. ASSUME NEW r \in Runs, CallModel(r) PROVE TypeOK'
    <3>1. PICK cost \in 1 .. MaxCost : /\ price' = [price EXCEPT ![r] = cost]
                                       /\ spent' = spent + cost
      BY <2>3 DEF CallModel
    <3>2. price' \in [Runs -> 0 .. MaxCost] /\ spent' \in Nat
      BY <3>1
    <3> QED
      BY <2>3, <3>2 DEF CallModel
  <2>4. ASSUME NEW r \in Runs, incrementAndCheck(r) PROVE TypeOK'
    <3>1. ledger' \in [Hours -> Nat]
      BY <2>4 DEF incrementAndCheck, hourKey
    <3>2. price' \in [Runs -> 0 .. MaxCost]
      BY <2>4 DEF incrementAndCheck
    <3>3. PICK verdict \in {"none", "per_hour", "per_day"} :
            /\ stopped' = [stopped EXCEPT ![r] = verdict]
            /\ run' = [run EXCEPT ![r] = IF verdict = "none" THEN "observe" ELSE "stopped"]
      BY <2>4, VerdictType DEF incrementAndCheck
    <3> QED
      BY <2>4, <3>1, <3>2, <3>3 DEF incrementAndCheck
  <2>5. ASSUME NEW r \in Runs, IncrementFails(r) PROVE TypeOK'
    <3>1. ledger' \in [Hours -> Nat] /\ forgiven' \in Nat
      BY <2>5 DEF IncrementFails, hourKey
    <3>2. price' \in [Runs -> 0 .. MaxCost]
      BY <2>5 DEF IncrementFails
    <3> QED
      BY <2>5, <3>1, <3>2 DEF IncrementFails
  <2>6. ASSUME NEW r \in Runs, TaskCapStops(r) PROVE TypeOK'
    <3>1. price' \in [Runs -> 0 .. MaxCost] /\ forgiven' \in Nat
      BY <2>6 DEF TaskCapStops
    <3> QED
      BY <2>6, <3>1 DEF TaskCapStops
  <2>7. ASSUME NEW r \in Runs, Leave(r) \/ NewRun(r) PROVE TypeOK'
    BY <2>7 DEF Leave, NewRun
  <2>8. CASE Tick
    BY <2>8 DEF Tick, Hours
  <2>9. CASE pruneOldLedgers
    <3>1. PICK rows \in SUBSET expired :
            /\ ledger' = [h \in Hours |-> IF h \in rows THEN 0 ELSE ledger[h]]
            /\ forgiven' = forgiven + sum(ledger, rows)
      BY <2>9 DEF pruneOldLedgers
    <3>2. rows \in SUBSET Hours
      BY <3>1 DEF expired
    <3>3. IsFiniteSet(rows) /\ \A h \in rows : ledger[h] \in Nat
      BY <3>2, Finite, FS_Subset
    <3>4. sum(ledger, rows) \in Nat
      BY <3>3, SumType
    <3> QED
      BY <2>9, <3>1, <3>4 DEF pruneOldLedgers
  <2>10. CASE UNCHANGED vars
    BY <2>10 DEF vars
  <2> QED
    BY <2>1, <2>2, <2>3, <2>4, <2>5, <2>6, <2>7, <2>8, <2>9, <2>10 DEF Next
<1> QED
  BY <1>1, <1>2, PTL DEF Spec

\* The clock, the ledger and the runs keep their types, however the runs
\* interleave and whatever the caps and the clock are.
THEOREM TypeCorrect == Spec => []TypeOK
  BY TypeInvariant

\* Only a run whose call has been made and not yet charged has a price open.
AccountInv ==
  /\ EveryCentIsAccounted
  /\ \A r \in Runs : run[r] # "charge" => price[r] = 0

\* Every action keeps AccountInv: what leaves one of the accounts enters another.
LEMMA AccountInvariant == Spec => []AccountInv
<1> USE ClockAssumption, MoneyAssumption, BoundAssumption
    DEF ClockAssumption, MoneyAssumption, BoundAssumption
<1>1. Init => AccountInv
  <2> SUFFICES ASSUME Init PROVE AccountInv
    OBVIOUS
  <2>1. (\A h \in Hours : ledger[h] = 0) /\ (\A r \in Runs : price[r] = 0)
    BY DEF Init
  <2>2. sum(ledger, Hours) = 0 /\ sum(price, Runs) = 0
    BY <2>1, EmptySum
  <2> QED
    BY <2>1, <2>2 DEF Init, AccountInv, EveryCentIsAccounted
<1>2. TypeOK /\ AccountInv /\ [Next]_vars => AccountInv'
  <2> SUFFICES ASSUME TypeOK, AccountInv, [Next]_vars PROVE AccountInv'
    OBVIOUS
  <2>0. /\ now \in Hours
        /\ (\A h \in Hours : ledger[h] \in Nat) /\ (\A r \in Runs : price[r] \in Nat)
        /\ spent \in Nat /\ forgiven \in Nat
        /\ sum(ledger, Hours) \in Nat /\ sum(price, Runs) \in Nat
    <3>1. /\ now \in Hours
          /\ (\A h \in Hours : ledger[h] \in Nat) /\ (\A r \in Runs : price[r] \in Nat)
          /\ spent \in Nat /\ forgiven \in Nat
      BY DEF TypeOK
    <3> QED
      BY <3>1, SumType, Finite
  <2> DEFINE Ready == \A r \in Runs : run'[r] # "charge" => price'[r] = 0
             Still == UNCHANGED <<ledger, price, spent, forgiven>>
  <2>1. ASSUME Still, Ready PROVE AccountInv'
    BY <2>1 DEF AccountInv, EveryCentIsAccounted
  <2>2. ASSUME NEW r \in Runs, Preflight(r) \/ PreflightFails(r) \/ Leave(r) \/ NewRun(r)
        PROVE  AccountInv'
    <3>1. Ready
      BY <2>2 DEF Preflight, PreflightFails, Leave, NewRun, AccountInv, TypeOK
    <3>2. Still
      BY <2>2 DEF Preflight, PreflightFails, Leave, NewRun
    <3> QED
      BY <2>1, <3>1, <3>2
  <2>3. ASSUME NEW r \in Runs, CallModel(r) PROVE AccountInv'
    <3>1. PICK cost \in 1 .. MaxCost : /\ price' = [price EXCEPT ![r] = cost]
                                       /\ spent' = spent + cost
      BY <2>3 DEF CallModel
    <3>2. /\ price[r] = 0 /\ price'[r] = price[r] + cost
          /\ \A s \in Runs \ {r} : price'[s] = price[s]
      BY <2>3, <3>1 DEF CallModel, AccountInv, TypeOK
    <3>3. sum(price', Runs) = sum(price, Runs) + cost
      <4>1. cost \in Nat
        OBVIOUS
      <4> QED
        BY <2>0, <3>2, <4>1, GrownSum, Finite
    <3>4. Ready
      BY <2>3, <3>1 DEF CallModel, AccountInv, TypeOK
    <3>5. ledger' = ledger /\ forgiven' = forgiven
      BY <2>3 DEF CallModel
    <3> QED
      BY <2>0, <3>1, <3>3, <3>4, <3>5 DEF AccountInv, EveryCentIsAccounted
  <2>4. ASSUME NEW r \in Runs, price' = [price EXCEPT ![r] = 0]
        PROVE  sum(price, Runs) = sum(price', Runs) + price[r] /\ sum(price', Runs) \in Nat
    <3>1. /\ \A s \in Runs : price'[s] \in Nat
          /\ price[r] = price'[r] + price[r]
          /\ \A s \in Runs \ {r} : price[s] = price'[s]
      BY <2>0, <2>4 DEF TypeOK
    <3> QED
      BY <2>0, <3>1, GrownSum, SumType, Finite
  <2>5. ASSUME NEW r \in Runs, ledger' = [ledger EXCEPT ![hourKey] = @ + price[r]]
        PROVE  sum(ledger', Hours) = sum(ledger, Hours) + price[r]
    <3>1. /\ ledger'[now] = ledger[now] + price[r]
          /\ \A h \in Hours \ {now} : ledger'[h] = ledger[h]
      BY <2>0, <2>5 DEF TypeOK, hourKey
    <3> QED
      BY <2>0, <3>1, GrownSum, Finite
  <2>6. ASSUME NEW r \in Runs, incrementAndCheck(r) PROVE AccountInv'
    <3>1. Ready
      BY <2>6 DEF incrementAndCheck, AccountInv, TypeOK
    <3>2. /\ spent' = spent /\ forgiven' = forgiven
          /\ price' = [price EXCEPT ![r] = 0]
          /\ ledger' = [ledger EXCEPT ![hourKey] = @ + price[r]]
      BY <2>6 DEF incrementAndCheck
    <3>3. /\ sum(price, Runs) = sum(price', Runs) + price[r] /\ sum(price', Runs) \in Nat
          /\ sum(ledger', Hours) = sum(ledger, Hours) + price[r]
      BY <2>4, <2>5, <3>2
    <3> QED
      BY <2>0, <3>1, <3>2, <3>3 DEF AccountInv, EveryCentIsAccounted
  <2>7. ASSUME NEW r \in Runs, IncrementFails(r) PROVE AccountInv'
    <3>1. Ready
      BY <2>7 DEF IncrementFails, AccountInv, TypeOK
    <3>2. spent' = spent /\ price' = [price EXCEPT ![r] = 0]
      BY <2>7 DEF IncrementFails
    <3>3. sum(price, Runs) = sum(price', Runs) + price[r] /\ sum(price', Runs) \in Nat
      BY <2>4, <3>2
    <3>4. CASE ledger' = [ledger EXCEPT ![hourKey] = @ + price[r]] /\ forgiven' = forgiven
      <4>1. sum(ledger', Hours) = sum(ledger, Hours) + price[r]
        BY <2>5, <3>4
      <4> QED
        BY <2>0, <3>1, <3>2, <3>3, <3>4, <4>1 DEF AccountInv, EveryCentIsAccounted
    <3>5. CASE forgiven' = forgiven + price[r] /\ ledger' = ledger
      BY <2>0, <3>1, <3>2, <3>3, <3>5 DEF AccountInv, EveryCentIsAccounted
    <3> QED
      BY <2>7, <3>4, <3>5 DEF IncrementFails
  <2>8. ASSUME NEW r \in Runs, TaskCapStops(r) PROVE AccountInv'
    <3>1. Ready
      BY <2>8 DEF TaskCapStops, AccountInv, TypeOK
    <3>2. /\ spent' = spent /\ ledger' = ledger /\ forgiven' = forgiven + price[r]
          /\ price' = [price EXCEPT ![r] = 0]
      BY <2>8 DEF TaskCapStops
    <3>3. sum(price, Runs) = sum(price', Runs) + price[r] /\ sum(price', Runs) \in Nat
      BY <2>4, <3>2
    <3> QED
      BY <2>0, <3>1, <3>2, <3>3 DEF AccountInv, EveryCentIsAccounted
  <2>9. CASE Tick
    BY <2>1, <2>9 DEF Tick, AccountInv
  <2>10. CASE pruneOldLedgers
    <3>1. PICK rows \in SUBSET expired :
            /\ ledger' = [h \in Hours |-> IF h \in rows THEN 0 ELSE ledger[h]]
            /\ forgiven' = forgiven + sum(ledger, rows)
      BY <2>10 DEF pruneOldLedgers
    <3>2. rows \in SUBSET Hours /\ \A h \in Hours : ledger'[h] = IF h \in rows THEN 0 ELSE ledger[h]
      BY <3>1 DEF expired
    <3>3. sum(ledger, Hours) = sum(ledger', Hours) + sum(ledger, rows)
      BY <2>0, <3>2, PrunedSum, Finite
    <3>4. sum(ledger', Hours) \in Nat /\ sum(ledger, rows) \in Nat
      <4>1. IsFiniteSet(rows) /\ \A h \in rows : ledger[h] \in Nat
        BY <2>0, <3>2, Finite, FS_Subset
      <4>2. \A h \in Hours : ledger'[h] \in Nat
        BY <2>0, <3>2
      <4> QED
        BY <4>1, <4>2, SumType, Finite
    <3>5. Ready
      BY <2>10 DEF pruneOldLedgers, AccountInv
    <3>6. spent' = spent /\ price' = price
      BY <2>10 DEF pruneOldLedgers
    <3> QED
      BY <2>0, <3>1, <3>3, <3>4, <3>5, <3>6 DEF AccountInv, EveryCentIsAccounted
  <2>11. CASE UNCHANGED vars
    BY <2>1, <2>11 DEF vars, AccountInv
  <2> QED
    BY <2>2, <2>3, <2>6, <2>7, <2>8, <2>9, <2>10, <2>11 DEF Next
<1> QED
  BY <1>1, <1>2, TypeInvariant, PTL DEF Spec

\* Whatever a call costs ends up in the ledger once, or is known to be forgiven:
\* neither the preflight, nor a query that fails after its effect, nor the turn
\* of the hour between call and charge counts a cent twice or loses it.
THEOREM CentsAccounted == Spec => []EveryCentIsAccounted
<1>1. AccountInv => EveryCentIsAccounted
  BY DEF AccountInv
<1> QED
  BY <1>1, AccountInvariant, PTL

-----------------------------------------------------------------------------
(* The daily total. *)

\* Days follow each other, and none is longer than a row is retained.
LEMMA DaysInOrder ==
  ASSUME NEW g \in Hours, NEW h \in Hours
  PROVE  /\ dayKey(g) \in Nat
         /\ g <= h => dayKey(g) <= dayKey(h)
         /\ h - g >= Retention => dayKey(g) # dayKey(h)
<1> DEFINE H == HoursPerDay
<1>1. g \in Nat /\ h \in Nat /\ H \in Nat \ {0} /\ Retention \in Nat /\ Retention >= H
  BY ClockAssumption DEF ClockAssumption, Hours
<1>2. \A m, n \in Nat : m <= n => m \div H <= n \div H
  BY <1>1
<1>3. \A m, n \in Nat : m + H <= n => m \div H # n \div H
  BY <1>1
<1>4. g \div H \in Nat
  BY <1>1
<1>5. h - g >= Retention => g + H <= h
  BY <1>1
<1> QED
  BY <1>1, <1>2, <1>3, <1>4, <1>5 DEF dayKey

\* The two totals that wouldExceed reads are numbers.
LEMMA DailyType == TypeOK => hourly \in Nat /\ daily \in Nat
<1> SUFFICES ASSUME TypeOK PROVE hourly \in Nat /\ daily \in Nat
  OBVIOUS
<1>1. now \in Hours /\ \A h \in Hours : ledger[h] \in Nat
  BY DEF TypeOK
<1>2. IsFiniteSet(Day(now)) /\ \A h \in Day(now) : ledger[h] \in Nat
  BY <1>1, Finite DEF Day
<1>3. sum(ledger, Day(now)) \in Nat
  BY <1>2, SumType
<1> QED
  BY <1>1, <1>3 DEF hourly, daily, hourKey

\* A charge raises the totals of its hour and of its day, and no other row.
LEMMA Charged ==
  ASSUME TypeOK, NEW amount \in Nat, now' = now,
         ledger' = [ledger EXCEPT ![hourKey] = @ + amount]
  PROVE  /\ hourly' = hourly + amount
         /\ daily' = daily + amount
         /\ \A h \in Hours \ {now} : ledger'[h] = ledger[h]
<1>1. now \in Hours /\ \A h \in Hours : ledger[h] \in Nat
  BY DEF TypeOK
<1>2. ledger'[now] = ledger[now] + amount /\ \A h \in Hours \ {now} : ledger'[h] = ledger[h]
  BY <1>1 DEF TypeOK, hourKey
<1>3. IsFiniteSet(Day(now)) /\ now \in Day(now)
  BY <1>1, Finite DEF Day
<1>4. /\ \A h \in Day(now) : ledger[h] \in Nat
      /\ \A h \in Day(now) \ {now} : ledger'[h] = ledger[h]
  BY <1>1, <1>2 DEF Day
<1>5. sum(ledger', Day(now)) = sum(ledger, Day(now)) + amount
  BY <1>2, <1>3, <1>4, GrownSum
<1> QED
  BY <1>2, <1>5 DEF hourly, daily, hourKey, Day

\* Pruning takes no row of the current day, and makes no row grow.
LEMMA Pruned ==
  ASSUME TypeOK, pruneOldLedgers
  PROVE  /\ hourly' = hourly
         /\ daily' = daily
         /\ \A h \in Hours : ledger'[h] \in {0, ledger[h]}
<1>1. PICK rows \in SUBSET expired :
        ledger' = [h \in Hours |-> IF h \in rows THEN 0 ELSE ledger[h]]
  BY DEF pruneOldLedgers
<1>2. now' = now /\ now \in Hours
  BY DEF pruneOldLedgers, TypeOK
<1>3. ASSUME NEW h \in Day(now) PROVE h \notin rows
  <2>1. h \in Hours /\ dayKey(h) = dayKey(now)
    BY DEF Day
  <2>2. ~(now - h >= Retention)
    BY <1>2, <2>1, DaysInOrder
  <2> QED
    BY <2>2 DEF expired
<1>4. \A h \in Day(now) : ledger'[h] = ledger[h]
  BY <1>1, <1>3 DEF Day
<1>5. sum(ledger', Day(now)) = sum(ledger, Day(now))
  BY <1>4, SameSum
<1>6. now \in Day(now)
  BY <1>2 DEF Day
<1> QED
  BY <1>1, <1>2, <1>4, <1>5, <1>6 DEF hourly, daily, hourKey, Day

\* Whatever the runs do and whatever is pruned, a user's spending of the day is
\* never taken off the daily total while the day lasts: pruneOldLedgers, whose
\* rows are only as old as their last update, reaches earlier days alone.
THEOREM BudgetKept == Spec => BudgetIsNotReturned
<1>1. ASSUME TypeOK, [Next]_vars, dayKey(now') = dayKey(now)
      PROVE  daily' >= daily
  <2>0. daily \in Nat /\ \A r \in Runs : price[r] \in Nat
    BY <1>1, DailyType DEF TypeOK
  <2>1. ASSUME ledger' = ledger PROVE daily' >= daily
    <3>1. daily' = daily
      BY <1>1, <2>1 DEF daily, Day
    <3> QED
      BY <2>0, <3>1
  <2>2. ASSUME NEW r \in Runs, incrementAndCheck(r) \/ IncrementFails(r)
        PROVE  daily' >= daily
    <3>1. now' = now /\ (ledger' = ledger \/ ledger' = [ledger EXCEPT ![hourKey] = @ + price[r]])
      BY <2>2 DEF incrementAndCheck, IncrementFails
    <3>2. CASE ledger' = [ledger EXCEPT ![hourKey] = @ + price[r]]
      <4>1. daily' = daily + price[r]
        BY <1>1, <2>0, <3>1, <3>2, Charged
      <4> QED
        BY <2>0, <4>1
    <3> QED
      BY <2>1, <3>1, <3>2
  <2>3. CASE pruneOldLedgers
    <3>1. daily' = daily
      BY <1>1, <2>3, Pruned
    <3> QED
      BY <2>0, <3>1
  <2>4. ASSUME NEW r \in Runs,
               \/ Preflight(r) \/ PreflightFails(r) \/ CallModel(r)
               \/ TaskCapStops(r) \/ Leave(r) \/ NewRun(r)
        PROVE  daily' >= daily
    BY <2>1, <2>4 DEF Preflight, PreflightFails, CallModel, TaskCapStops, Leave, NewRun
  <2>5. CASE Tick \/ UNCHANGED vars
    BY <2>1, <2>5 DEF Tick, vars
  <2> QED
    BY <1>1, <2>2, <2>3, <2>4, <2>5 DEF Next
<1>2. TypeOK /\ [Next]_vars => [dayKey(now') = dayKey(now) => daily' >= daily]_vars
  BY <1>1
<1> QED
  BY <1>2, TypeInvariant, PTL DEF Spec, BudgetIsNotReturned

-----------------------------------------------------------------------------
(* Overshooting. *)

\* The places at which no call is under way: each of them has yet to pass a
\* preflight before it can charge anything.
Waiting == {r \in Runs : run[r] \in {"observe", "stopped"}}
slack == (Cardinality(Waiting) + failures) * MaxCost

\* OvershootIsBounded, and why it is inductive: a preflight that passes finds the
\* totals within the caps, so that what they exceed them by was charged by places
\* that wait again, or let through by a query that failed.
OvershootInv ==
  /\ \A h \in Hours : h > now => ledger[h] = 0
  /\ Estimate > 0 =>
       /\ MaxPerHour > 0 => /\ hourly <= MaxPerHour + slack
                            /\ \A h \in Hours : ledger[h] <= MaxPerHour + overshoot
       /\ MaxPerDay > 0 => daily <= MaxPerDay + slack

\* The room for overshooting grows with the places that wait and the failures.
LEMMA RoomGrows ==
  ASSUME NEW a \in Nat, NEW b \in Nat, a <= b, NEW m \in Nat
  PROVE  a * m \in Nat /\ b * m \in Nat /\ a * m <= b * m /\ (b + 1) * m = b * m + m
  OBVIOUS

\* A total that had room enough has it still when the room grows.
LEMMA RoomSuffices ==
  ASSUME NEW total \in Nat, NEW cap \in Nat, NEW a \in Nat, NEW b \in Nat, a <= b,
         total <= cap + a
  PROVE  total <= cap + b
  OBVIOUS

\* Every action keeps OvershootInv.
LEMMA OvershootInvariant == Spec => []OvershootInv
<1> USE ClockAssumption, MoneyAssumption, BoundAssumption
    DEF ClockAssumption, MoneyAssumption, BoundAssumption
<1>1. Init => OvershootInv
  <2> SUFFICES ASSUME Init PROVE OvershootInv
    OBVIOUS
  <2>1. now = 0 /\ now \in Hours /\ \A h \in Hours : ledger[h] = 0
    BY DEF Init, Hours
  <2>2. daily = 0 /\ hourly = 0
    BY <2>1, EmptySum DEF daily, hourly, hourKey, Day
  <2>3. Waiting \in SUBSET Runs
    BY DEF Waiting
  <2>4. Cardinality(Waiting) \in Nat /\ Cardinality(Runs) \in Nat /\ failures = 0
    BY <2>3, FS_Subset, FS_CardinalityType DEF Init
  <2>5. slack \in Nat /\ overshoot \in Nat
    BY <2>4 DEF slack, overshoot
  <2> QED
    BY <2>1, <2>2, <2>5 DEF OvershootInv
<1>2. TypeOK /\ TypeOK' /\ OvershootInv /\ [Next]_vars => OvershootInv'
  <2> SUFFICES ASSUME TypeOK, TypeOK', OvershootInv, [Next]_vars PROVE OvershootInv'
    OBVIOUS
  <2> DEFINE places == Cardinality(Waiting)
             all == Cardinality(Runs)
  <2>0. /\ now \in Hours /\ now \in Nat
        /\ \A h \in Hours : ledger[h] \in Nat
        /\ \A r \in Runs : price[r] \in 0 .. MaxCost
        /\ failures \in Nat /\ failures' \in Nat /\ hourly \in Nat /\ daily \in Nat
    <3>1. hourly \in Nat /\ daily \in Nat
      BY DailyType
    <3> QED
      BY <3>1 DEF TypeOK, Hours
  <2>1. /\ IsFiniteSet(Waiting) /\ places \in Nat /\ places <= all /\ all \in Nat
        /\ IsFiniteSet(Waiting') /\ places' \in Nat /\ places' <= all
    <3>1. Waiting \in SUBSET Runs /\ Waiting' \in SUBSET Runs
      BY DEF Waiting
    <3> QED
      BY <3>1, FS_Subset, FS_CardinalityType
  <2>2. /\ slack \in Nat /\ slack' \in Nat /\ overshoot \in Nat /\ overshoot' \in Nat
        /\ slack <= overshoot /\ slack' <= overshoot'
    <3>1. /\ places + failures \in Nat /\ all + failures \in Nat
          /\ places + failures <= all + failures
          /\ places' + failures' \in Nat /\ all + failures' \in Nat
          /\ places' + failures' <= all + failures'
      BY <2>0, <2>1
    <3> HIDE DEF places, all
    <3>2. /\ (places + failures) * MaxCost \in Nat /\ (all + failures) * MaxCost \in Nat
          /\ (places + failures) * MaxCost <= (all + failures) * MaxCost
      BY <3>1, RoomGrows
    <3>3. /\ (places' + failures') * MaxCost \in Nat /\ (all + failures') * MaxCost \in Nat
          /\ (places' + failures') * MaxCost <= (all + failures') * MaxCost
      BY <3>1, RoomGrows
    <3> QED
      BY <3>2, <3>3 DEF slack, overshoot, places, all
  <2>3. ASSUME failures <= failures' PROVE overshoot <= overshoot'
    <3>1. all + failures \in Nat /\ all + failures' \in Nat /\ all + failures <= all + failures'
      BY <2>0, <2>1, <2>3
    <3> HIDE DEF all
    <3>2. (all + failures) * MaxCost <= (all + failures') * MaxCost
      BY <3>1, RoomGrows
    <3> QED
      BY <3>2 DEF overshoot, all
  <2>4. ASSUME places + failures <= places' + failures' PROVE slack <= slack'
    <3>1. places + failures \in Nat /\ places' + failures' \in Nat
      BY <2>0, <2>1
    <3> HIDE DEF places
    <3>2. (places + failures) * MaxCost <= (places' + failures') * MaxCost
      BY <2>4, <3>1, RoomGrows
    <3> QED
      BY <3>2 DEF slack, places
  <2>5. ASSUME places + failures + 1 <= places' + failures' PROVE slack + MaxCost <= slack'
    <3>1. /\ places + failures \in Nat /\ places' + failures' \in Nat
          /\ places + failures + 1 \in Nat
      BY <2>0, <2>1
    <3> HIDE DEF places
    <3>2. (places + failures + 1) * MaxCost <= (places' + failures') * MaxCost
      BY <2>5, <3>1, RoomGrows
    <3>3. (places + failures + 1) * MaxCost = (places + failures) * MaxCost + MaxCost
      BY <3>1, RoomGrows
    <3> QED
      BY <3>2, <3>3 DEF slack, places
  <2>6. ASSUME UNCHANGED <<ledger, now>>, failures <= failures',
               places + failures <= places' + failures'
        PROVE  OvershootInv'
    <3>1. hourly' = hourly /\ daily' = daily /\ ledger' = ledger /\ now' = now
      BY <2>6 DEF hourly, daily, hourKey, Day
    <3>2. slack <= slack' /\ overshoot <= overshoot'
      BY <2>3, <2>4, <2>6
    <3>3. ASSUME Estimate > 0, MaxPerHour > 0
          PROVE  /\ hourly' <= MaxPerHour + slack'
                 /\ \A h \in Hours : ledger'[h] <= MaxPerHour + overshoot'
      <4>1. hourly <= MaxPerHour + slack /\ \A h \in Hours : ledger[h] <= MaxPerHour + overshoot
        BY <3>3 DEF OvershootInv
      <4>2. hourly <= MaxPerHour + slack'
        BY <2>0, <2>2, <3>2, <4>1, RoomSuffices
      <4>3. ASSUME NEW h \in Hours PROVE ledger[h] <= MaxPerHour + overshoot'
        BY <2>0, <2>2, <3>2, <4>1, RoomSuffices
      <4> QED
        BY <3>1, <4>2, <4>3
    <3>4. ASSUME Estimate > 0, MaxPerDay > 0 PROVE daily' <= MaxPerDay + slack'
      <4>1. daily <= MaxPerDay + slack
        BY <3>4 DEF OvershootInv
      <4>2. daily <= MaxPerDay + slack'
        BY <2>0, <2>2, <3>2, <4>1, RoomSuffices
      <4> QED
        BY <3>1, <4>2
    <3> QED
      BY <3>1, <3>3, <3>4 DEF OvershootInv
  <2>7. ASSUME NEW r \in Runs, UNCHANGED now, failures <= failures',
               ledger' = [ledger EXCEPT ![hourKey] = @ + price[r]],
               places + failures + 1 <= places' + failures'
        PROVE  OvershootInv'
    <3>0. price[r] \in Nat
      BY <2>0
    <3>1. /\ hourly' = hourly + price[r] /\ daily' = daily + price[r]
          /\ \A h \in Hours \ {now} : ledger'[h] = ledger[h]
      BY <2>7, <3>0, Charged
    <3>2. slack + MaxCost <= slack' /\ overshoot <= overshoot' /\ price[r] <= MaxCost
      BY <2>0, <2>3, <2>5, <2>7
    <3>3. \A h \in Hours : h > now' => ledger'[h] = 0
      BY <2>0, <2>7, <3>1 DEF OvershootInv
    <3>4. ASSUME Estimate > 0, MaxPerHour > 0
          PROVE  /\ hourly' <= MaxPerHour + slack'
                 /\ \A h \in Hours : ledger'[h] <= MaxPerHour + overshoot'
      <4>1. hourly <= MaxPerHour + slack /\ \A h \in Hours : ledger[h] <= MaxPerHour + overshoot
        BY <3>4 DEF OvershootInv
      <4>2. hourly' <= MaxPerHour + slack'
        BY <2>0, <2>2, <3>1, <3>2, <4>1
      <4>3. ASSUME NEW h \in Hours PROVE ledger'[h] <= MaxPerHour + overshoot'
        <5>1. CASE h = now
          BY <2>0, <2>2, <2>7, <3>1, <4>2, <5>1 DEF hourly, hourKey
        <5>2. CASE h # now
          BY <2>0, <2>2, <3>1, <3>2, <4>1, <5>2
        <5> QED
          BY <5>1, <5>2
      <4> QED
        BY <4>2, <4>3
    <3>5. ASSUME Estimate > 0, MaxPerDay > 0 PROVE daily' <= MaxPerDay + slack'
      <4>1. daily <= MaxPerDay + slack
        BY <3>5 DEF OvershootInv
      <4> QED
        BY <2>0, <2>2, <3>1, <3>2, <4>1
    <3> QED
      BY <3>3, <3>4, <3>5 DEF OvershootInv
  <2>8. ASSUME NEW r \in Runs, r \notin Waiting, Waiting' = Waiting \cup {r}
        PROVE  places' = places + 1
    BY <2>1, <2>8, FS_AddElement
  <2>9. ASSUME NEW r \in Runs, NEW at \in {"observe", "stopped"}, run[r] \in {"call", "charge"},
               run' = [run EXCEPT ![r] = at]
        PROVE  places' = places + 1
    <3>1. r \notin Waiting /\ Waiting' = Waiting \cup {r}
      BY <2>9 DEF Waiting, TypeOK
    <3> QED
      BY <2>8, <3>1
  <2>10. ASSUME NEW r \in Runs, Preflight(r) PROVE OvershootInv'
    <3>0. UNCHANGED <<ledger, now, failures>>
      BY <2>10 DEF Preflight
    <3>1. CASE run'[r] = "stopped"
      <4>1. Waiting' = Waiting
        BY <2>10, <3>1 DEF Preflight, Waiting, TypeOK
      <4> QED
        BY <2>0, <2>1, <2>6, <3>0, <4>1
    <3>2. CASE run'[r] # "stopped"
      <4>1. Estimate > 0 => exceeded = "none"
        BY <2>10, <3>2 DEF Preflight, TypeOK
      <4>2. Estimate > 0 => /\ MaxPerHour > 0 => hourly <= MaxPerHour
                            /\ MaxPerDay > 0 => daily <= MaxPerDay
        BY <2>0, <4>1 DEF exceeded
      <4>3. hourly' = hourly /\ daily' = daily /\ overshoot' = overshoot
        BY <3>0 DEF hourly, daily, hourKey, Day, overshoot
      <4>4. \A h \in Hours : h > now' => ledger'[h] = 0
        BY <3>0 DEF OvershootInv
      <4>5. ASSUME Estimate > 0, MaxPerHour > 0
            PROVE  /\ hourly' <= MaxPerHour + slack'
                   /\ \A h \in Hours : ledger'[h] <= MaxPerHour + overshoot'
        <5>1. hourly <= MaxPerHour + 0 /\ 0 <= slack'
          BY <2>0, <2>2, <4>2, <4>5
        <5>2. hourly <= MaxPerHour + slack'
          BY <2>0, <2>2, <5>1, RoomSuffices
        <5>3. \A h \in Hours : ledger[h] <= MaxPerHour + overshoot
          BY <4>5 DEF OvershootInv
        <5> QED
          BY <3>0, <4>3, <5>2, <5>3
      <4>6. ASSUME Estimate > 0, MaxPerDay > 0 PROVE daily' <= MaxPerDay + slack'
        <5>1. daily <= MaxPerDay + 0 /\ 0 <= slack'
          BY <2>0, <2>2, <4>2, <4>6
        <5>2. daily <= MaxPerDay + slack'
          BY <2>0, <2>2, <5>1, RoomSuffices
        <5> QED
          BY <4>3, <5>2
      <4> QED
        BY <4>4, <4>5, <4>6 DEF OvershootInv
    <3> QED
      BY <3>1, <3>2
  <2>11. ASSUME NEW r \in Runs, PreflightFails(r) PROVE OvershootInv'
    <3>1. r \in Waiting /\ Waiting' = Waiting \ {r}
      BY <2>11 DEF PreflightFails, Waiting, TypeOK
    <3>2. places' = places - 1
      BY <2>1, <3>1, FS_RemoveElement
    <3>3. UNCHANGED <<ledger, now>> /\ failures' = failures + 1
      BY <2>11 DEF PreflightFails
    <3> QED
      BY <2>0, <2>1, <2>6, <3>2, <3>3
  <2>12. ASSUME NEW r \in Runs, CallModel(r) \/ NewRun(r) PROVE OvershootInv'
    <3>1. Waiting' = Waiting
      BY <2>12 DEF CallModel, NewRun, Waiting, TypeOK
    <3>2. UNCHANGED <<ledger, now, failures>>
      BY <2>12 DEF CallModel, NewRun
    <3> QED
      BY <2>0, <2>1, <2>6, <3>1, <3>2
  <2>13. ASSUME NEW r \in Runs, incrementAndCheck(r) PROVE OvershootInv'
    <3>1. /\ run[r] = "charge" /\ UNCHANGED <<now, failures>>
          /\ ledger' = [ledger EXCEPT ![hourKey] = @ + price[r]]
      BY <2>13 DEF incrementAndCheck
    <3>2. \E at \in {"observe", "stopped"} : run' = [run EXCEPT ![r] = at]
      BY <2>13 DEF incrementAndCheck
    <3>3. places' = places + 1
      BY <2>9, <3>1, <3>2
    <3>4. failures <= failures' /\ places + failures + 1 <= places' + failures'
      BY <2>0, <2>1, <3>1, <3>3
    <3> HIDE DEF places
    <3> QED
      BY <2>7, <3>1, <3>4
  <2>14. ASSUME NEW r \in Runs, IncrementFails(r) PROVE OvershootInv'
    <3>1. /\ run[r] = "charge" /\ now' = now /\ failures' = failures + 1
          /\ run' = [run EXCEPT ![r] = "observe"]
          /\ ledger' = ledger \/ ledger' = [ledger EXCEPT ![hourKey] = @ + price[r]]
      BY <2>14 DEF IncrementFails
    <3>2. places' = places + 1
      BY <2>9, <3>1
    <3> QED
      BY <2>0, <2>1, <2>6, <2>7, <3>1, <3>2
  <2>15. ASSUME NEW r \in Runs, TaskCapStops(r) PROVE OvershootInv'
    <3>1. /\ run[r] = "charge" /\ run' = [run EXCEPT ![r] = "stopped"]
          /\ UNCHANGED <<ledger, now, failures>>
      BY <2>15 DEF TaskCapStops
    <3>2. places' = places + 1
      BY <2>9, <3>1
    <3> QED
      BY <2>0, <2>1, <2>6, <3>1, <3>2
  <2>16. ASSUME NEW r \in Runs, Leave(r) PROVE OvershootInv'
    <3>1. run' = [run EXCEPT ![r] = "stopped"] /\ UNCHANGED <<ledger, now, failures>>
      BY <2>16 DEF Leave
    <3>2. CASE run[r] = "call"
      <4>1. places' = places + 1
        BY <2>9, <3>1, <3>2
      <4> QED
        BY <2>0, <2>1, <2>6, <3>1, <4>1
    <3>3. CASE run[r] = "observe"
      <4>1. Waiting' = Waiting
        BY <3>1, <3>3 DEF Waiting, TypeOK
      <4> QED
        BY <2>0, <2>1, <2>6, <3>1, <4>1
    <3> QED
      BY <2>16, <3>2, <3>3 DEF Leave
  <2>17. CASE Tick
    <3>1. now' = now + 1 /\ now' \in Hours /\ UNCHANGED <<ledger, run, failures>>
      BY <2>17 DEF Tick, TypeOK
    <3>2. slack' = slack /\ overshoot' = overshoot
      BY <3>1 DEF slack, overshoot, Waiting
    <3>3. \A h \in Hours : h \in Nat
      BY DEF Hours
    <3>4. (\A h \in Hours : h > now' => ledger'[h] = 0) /\ hourly' = 0
      BY <2>0, <3>1, <3>3 DEF OvershootInv, hourly, hourKey
    <3>5. daily' \in {0, daily}
      <4>1. CASE dayKey(now') = dayKey(now)
        BY <3>1, <4>1 DEF daily, Day
      <4>2. CASE dayKey(now') # dayKey(now)
        <5>1. ASSUME NEW h \in Hours, dayKey(h) = dayKey(now') PROVE ledger[h] = 0
          <6>1. dayKey(now) \in Nat /\ dayKey(now') \in Nat /\ dayKey(now) < dayKey(now')
            BY <2>0, <3>1, <4>2, DaysInOrder
          <6>2. ~(h <= now)
            BY <2>0, <5>1, <6>1, DaysInOrder
          <6> QED
            BY <2>0, <3>3, <6>2 DEF OvershootInv
        <5>2. sum(ledger', Day(now')) = 0
          BY <3>1, <5>1, EmptySum DEF Day
        <5> QED
          BY <5>2 DEF daily, Day
      <4> QED
        BY <4>1, <4>2
    <3> QED
      BY <2>0, <2>2, <3>1, <3>2, <3>4, <3>5 DEF OvershootInv
  <2>18. CASE pruneOldLedgers
    <3>1. /\ hourly' = hourly /\ daily' = daily
          /\ \A h \in Hours : ledger'[h] \in {0, ledger[h]}
      BY <2>18, Pruned
    <3>2. UNCHANGED <<now, run, failures>>
      BY <2>18 DEF pruneOldLedgers
    <3>3. slack' = slack /\ overshoot' = overshoot
      BY <3>2 DEF slack, overshoot, Waiting
    <3> QED
      BY <2>0, <2>2, <3>1, <3>2, <3>3 DEF OvershootInv
  <2>19. CASE UNCHANGED vars
    <3>1. UNCHANGED <<ledger, now, failures>> /\ Waiting' = Waiting
      BY <2>19 DEF vars, Waiting
    <3> QED
      BY <2>0, <2>1, <2>6, <3>1
  <2> QED
    BY <2>10, <2>11, <2>12, <2>13, <2>14, <2>15, <2>16, <2>17, <2>18, <2>19 DEF Next
<1> QED
  BY <1>1, <1>2, TypeInvariant, PTL DEF Spec

\* However many runs of a user follow each other and however they interleave, the
\* hour and the day exceed their caps by at most one call for each place and one
\* for each ledger query that failed (wouldExceed before, incrementAndCheck after).
THEOREM OvershootBounded == Spec => []OvershootIsBounded
<1>1. TypeOK /\ OvershootInv => OvershootIsBounded
  <2> SUFFICES ASSUME TypeOK, OvershootInv PROVE OvershootIsBounded
    OBVIOUS
  <2>1. Waiting \in SUBSET Runs /\ IsFiniteSet(Runs) /\ failures \in Nat /\ MaxCost \in Nat
        /\ MaxPerDay \in Nat /\ daily \in Nat
    BY BoundAssumption, MoneyAssumption, DailyType
    DEF BoundAssumption, MoneyAssumption, TypeOK, Waiting
  <2>2. /\ Cardinality(Waiting) \in Nat /\ Cardinality(Runs) \in Nat
        /\ Cardinality(Waiting) <= Cardinality(Runs)
    BY <2>1, FS_Subset, FS_CardinalityType
  <2>3. /\ Cardinality(Waiting) + failures \in Nat /\ Cardinality(Runs) + failures \in Nat
        /\ Cardinality(Waiting) + failures <= Cardinality(Runs) + failures
    BY <2>1, <2>2
  <2>4. slack \in Nat /\ overshoot \in Nat /\ slack <= overshoot
    BY <2>1, <2>3, RoomGrows DEF slack, overshoot
  <2> QED
    BY <2>1, <2>4 DEF OvershootInv, OvershootIsBounded
<1> QED
  BY <1>1, TypeInvariant, OvershootInvariant, PTL
=============================================================================
