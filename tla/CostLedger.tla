----------------------------- MODULE CostLedger -----------------------------
(***************************************************************************)
(* The hourly and daily wallet caps of one user: agent/harness/            *)
(* cost_ledger.py and the two checks of the loop that call it, with        *)
(* several runs of the user drawing on one ledger while the clock runs.    *)
(* A ledger query may fail, before or after its effect: the loop then      *)
(* proceeds as if nothing was exceeded.                                    *)
(*                                                                         *)
(* An operator whose name starts with Wrong is a version of the definition *)
(* after it with a plausible bug, which a property must be able to see.    *)
(***************************************************************************)
EXTENDS Naturals, FiniteSets

CONSTANTS
  Runs,         \* runs of the user that may be live together
  MaxHour,      \* bound: hours the clock can advance
  HoursPerDay,  \* hours that share a day_key
  Retention,    \* hoursBack of pruneOldLedgers
  MaxPerHour,   \* maxCostUsdPerHour, in cents; 0 disables it
  MaxPerDay,    \* maxCostUsdPerDay, in cents; 0 disables it
  Estimate,     \* the client's estimate of a call; 0 when it has none
  MaxCost,      \* the most a call costs; a call costs at least one cent
  MaxFailures,  \* bound: ledger queries that fail
  MaxStarts     \* bound: runs the user starts after the first ones

ASSUME ClockAssumption ==
  MaxHour \in Nat /\ HoursPerDay \in Nat \ {0} /\ Retention \in Nat /\ Retention >= HoursPerDay
\* With neither cap the loop never consults the ledger.
ASSUME MoneyAssumption ==
  /\ MaxPerHour \in Nat /\ MaxPerDay \in Nat /\ Estimate \in Nat /\ MaxCost \in Nat \ {0}
  /\ MaxPerHour > 0 \/ MaxPerDay > 0
ASSUME BoundAssumption == MaxFailures \in Nat /\ MaxStarts \in Nat /\ IsFiniteSet(Runs)

VARIABLES
  now,       \* the current hour
  ledger,    \* hourly_usd of each hour's CostLedger row; 0 when there is none
  run,       \* where each run stands between two checks
  price,     \* what the call in flight of each run has cost
  stopped,   \* the scope of the cap that ended a run
  spent,     \* all that the model calls have cost
  forgiven,  \* what was spent without reaching the ledger, or pruned from it
  failures,  \* ledger queries that failed
  starts     \* runs started later

vars == <<now, ledger, run, price, stopped, spent, forgiven, failures, starts>>

Hours == 0 .. MaxHour
hourKey == now
dayKey(h) == h \div HoursPerDay
Day(h) == {g \in Hours : dayKey(g) = dayKey(h)}
hourly == ledger[hourKey]

\* sum(): a set of rows adds up to the number of its cents, each of them the i-th
\* of its row.  Counting, unlike a fold, is something one can prove about.
cents(rows, keys) == UNION {{k} \X (1 .. rows[k]) : k \in keys}
sum(rows, keys) == Cardinality(cents(rows, keys))

daily == sum(ledger, Day(now))

Init ==
  /\ now = 0
  /\ ledger = [h \in Hours |-> 0]
  /\ run = [r \in Runs |-> "observe"]
  /\ price = [r \in Runs |-> 0]
  /\ stopped = [r \in Runs |-> "none"]
  /\ spent = 0 /\ forgiven = 0 /\ failures = 0 /\ starts = 0

-----------------------------------------------------------------------------
\* The scopes are not those the loop knows.
WrongExceeded ==
  IF daily + Estimate > MaxPerDay THEN "daily"
  ELSE IF hourly + Estimate > MaxPerHour THEN "hourly"
  ELSE "none"

\* wouldExceed: reads the ledger and writes nothing.
exceeded ==
  IF MaxPerDay > 0 /\ daily + Estimate > MaxPerDay THEN "per_day"
  ELSE IF MaxPerHour > 0 /\ hourly + Estimate > MaxPerHour THEN "per_hour"
  ELSE "none"

\* The preflight reserves the estimate and nothing gives it back.
WrongPreflightReserves(r) ==
  /\ run[r] = "observe"
  /\ LET verdict == IF Estimate > 0 THEN exceeded ELSE "none"
     IN  /\ stopped' = [stopped EXCEPT ![r] = verdict]
         /\ run' = [run EXCEPT ![r] = IF verdict = "none" THEN "call" ELSE "stopped"]
  /\ ledger' = [ledger EXCEPT ![hourKey] = @ + Estimate]
  /\ UNCHANGED <<now, price, spent, forgiven, failures, starts>>

\* No preflight: the charge after the call is the only check.
WrongPreflightPasses(r) ==
  /\ run[r] = "observe"
  /\ run' = [run EXCEPT ![r] = "call"]
  /\ UNCHANGED <<now, ledger, price, stopped, spent, forgiven, failures, starts>>

\* _checkCostPreflight, after the task cap.
Preflight(r) ==
  /\ run[r] = "observe"
  /\ LET verdict == IF Estimate > 0 THEN exceeded ELSE "none"
     IN  /\ stopped' = [stopped EXCEPT ![r] = verdict]
         /\ run' = [run EXCEPT ![r] = IF verdict = "none" THEN "call" ELSE "stopped"]
  /\ UNCHANGED <<now, ledger, price, spent, forgiven, failures, starts>>

PreflightFails(r) ==
  /\ run[r] = "observe" /\ Estimate > 0
  /\ failures < MaxFailures /\ failures' = failures + 1
  /\ run' = [run EXCEPT ![r] = "call"]
  /\ UNCHANGED <<now, ledger, price, stopped, spent, forgiven, starts>>

CallModel(r) ==
  /\ run[r] = "call"
  /\ \E cost \in 1 .. MaxCost :
       /\ price' = [price EXCEPT ![r] = cost]
       /\ spent' = spent + cost
  /\ run' = [run EXCEPT ![r] = "charge"]
  /\ UNCHANGED <<now, ledger, stopped, forgiven, failures, starts>>

\* incrementAndCheck: one statement adds the price and reads both totals.
verdictAfter(total, hour) ==
  IF MaxPerDay > 0 /\ total > MaxPerDay THEN "per_day"
  ELSE IF hour > MaxPerHour THEN "per_hour"
  ELSE "none"

incrementAndCheck(r) ==
  /\ run[r] = "charge"
  /\ ledger' = [ledger EXCEPT ![hourKey] = @ + price[r]]
  /\ LET verdict == verdictAfter(daily + price[r], hourly + price[r])
     IN  /\ stopped' = [stopped EXCEPT ![r] = verdict]
         /\ run' = [run EXCEPT ![r] = IF verdict = "none" THEN "observe" ELSE "stopped"]
  /\ price' = [price EXCEPT ![r] = 0]
  /\ UNCHANGED <<now, spent, forgiven, failures, starts>>

IncrementFails(r) ==
  /\ run[r] = "charge"
  /\ failures < MaxFailures /\ failures' = failures + 1
  /\ \/ ledger' = [ledger EXCEPT ![hourKey] = @ + price[r]] /\ UNCHANGED forgiven
     \/ forgiven' = forgiven + price[r] /\ UNCHANGED ledger
  /\ run' = [run EXCEPT ![r] = "observe"]
  /\ price' = [price EXCEPT ![r] = 0]
  /\ UNCHANGED <<now, stopped, spent, starts>>

\* _checkCostCaps returns on the task cap before it charges the ledger.
TaskCapStops(r) ==
  /\ run[r] = "charge"
  /\ stopped' = [stopped EXCEPT ![r] = "per_task"]
  /\ run' = [run EXCEPT ![r] = "stopped"]
  /\ forgiven' = forgiven + price[r]
  /\ price' = [price EXCEPT ![r] = 0]
  /\ UNCHANGED <<now, ledger, spent, failures, starts>>

\* The run ends for a reason of its own, or the model raises.
Leave(r) ==
  /\ run[r] \in {"observe", "call"}
  /\ run' = [run EXCEPT ![r] = "stopped"]
  /\ UNCHANGED <<now, ledger, price, stopped, spent, forgiven, failures, starts>>

\* A later run of the user, in the place of one that has ended.
NewRun(r) ==
  /\ run[r] = "stopped" /\ starts < MaxStarts
  /\ starts' = starts + 1
  /\ run' = [run EXCEPT ![r] = "observe"]
  /\ stopped' = [stopped EXCEPT ![r] = "none"]
  /\ UNCHANGED <<now, ledger, price, spent, forgiven, failures>>

Tick ==
  /\ now < MaxHour
  /\ now' = now + 1
  /\ UNCHANGED <<ledger, run, price, stopped, spent, forgiven, failures, starts>>

\* Every hour before this one is taken for old.
WrongExpired == {h \in Hours : h < now}

\* The age of a row is that of its last charge, within its hour.
expired == {h \in Hours : h < now /\ now - h >= Retention}

\* Meant for a nightly job; a row at the edge, or past the batch, may stay.
pruneOldLedgers ==
  /\ \E rows \in SUBSET expired :
       /\ \E h \in rows : ledger[h] > 0
       /\ ledger' = [h \in Hours |-> IF h \in rows THEN 0 ELSE ledger[h]]
       /\ forgiven' = forgiven + sum(ledger, rows)
  /\ UNCHANGED <<now, run, price, stopped, spent, failures, starts>>

Next ==
  \/ \E r \in Runs : \/ Preflight(r) \/ PreflightFails(r) \/ CallModel(r)
                     \/ incrementAndCheck(r) \/ IncrementFails(r)
                     \/ TaskCapStops(r) \/ Leave(r) \/ NewRun(r)
  \/ Tick \/ pruneOldLedgers

Spec == Init /\ [][Next]_vars

-----------------------------------------------------------------------------
\* The clock, the ledger and the runs keep their types.
TypeOK ==
  /\ now \in Hours
  /\ ledger \in [Hours -> Nat]
  /\ run \in [Runs -> {"observe", "call", "charge", "stopped"}]
  /\ price \in [Runs -> 0 .. MaxCost]
  /\ stopped \in [Runs -> {"none", "per_task", "per_hour", "per_day"}]
  /\ spent \in Nat /\ forgiven \in Nat
  /\ failures \in 0 .. MaxFailures /\ starts \in 0 .. MaxStarts

\* The ledger loses nothing but what is known to be forgiven, and counts nothing
\* twice: neither the preflight nor a call that straddles the hour does.
EveryCentIsAccounted ==
  spent = sum(ledger, Hours) + sum(price, Runs) + forgiven

\* Overspending is bounded however the runs interleave and however many follow
\* each other: each place makes one charge past a cap, and one more for each
\* ledger query that failed.  Later runs are held back by the preflight, in the
\* same hour as in any later hour of the day.
overshoot == (Cardinality(Runs) + failures) * MaxCost
OvershootIsBounded ==
  Estimate > 0 =>
    /\ MaxPerHour > 0 => \A h \in Hours : ledger[h] <= MaxPerHour + overshoot
    /\ MaxPerDay > 0 => daily <= MaxPerDay + overshoot

\* Within one day the daily total never shrinks: pruning old rows never gives a
\* user part of today's budget back.
BudgetIsNotReturned ==
  [][dayKey(now') = dayKey(now) => daily' >= daily]_vars
=============================================================================
