------------------------------ MODULE Billing ------------------------------
(***************************************************************************)
(* Top-ups, monthly renewals and the status of accounts: billing.service.ts *)
(* with the wallet, the low-balance alert of notifications.service.ts, and *)
(* the administrator's status changes of customers.controller.ts.          *)
(*                                                                         *)
(* Servers run the renewals, Clients are other requests: a payment that    *)
(* arrives, a call that ends.  Each stops at every await others can tell   *)
(* apart.  run[p].cur is the account p works on, with the row as p read    *)
(* it; run[p].rest are the rows it has yet to renew.                       *)
(***************************************************************************)
EXTENDS Wallet, FiniteSets

CONSTANTS
  Servers, Clients,
  Fee,            \* what a month costs: plan and numbers
  TopUp,          \* what a payment adds
  CallCost,       \* what a call costs
  Start,          \* what every wallet holds at first
  MaxTopUps,      \* bound: payments of an account
  MaxCalls,       \* bound: calls of an account
  MaxChanges,     \* bound: status changes by the administrator
  MaxCrashes,     \* bound: requests whose server stops
  MaxUpsets,      \* bound: stops and the status changes of an account, together
  Months          \* bound: the clock shows 0 .. Months

ASSUME BillingAssumption ==
  /\ Threshold \in Int
  /\ Fee \in Nat \ {0} /\ TopUp \in Nat \ {0} /\ CallCost \in Nat \ {0} /\ Start \in Nat
  /\ MaxTopUps \in Nat /\ MaxCalls \in Nat /\ MaxChanges \in Nat /\ MaxCrashes \in Nat
  /\ MaxUpsets \in Nat /\ Months \in Nat
  /\ Servers \cap Clients = {}

VARIABLES
  acc,            \* the tenants' rows
  run,            \* the requests
  lock,           \* lock:billing:renewals: Free, or the server that took it
  overran,        \* the lock has expired under runs that may still go on
  now,            \* the month
  credited,       \* payments with a Transaction row
  paid, called,   \* per tenant: how many Transaction rows for months, and for calls
  alerts,         \* per tenant: low-balance alerts since it was last above the level
  changes, crashes

vars == <<acc, run, lock, overran, now, credited, paid, called, alerts, changes, crashes, wallet>>

Never == -1
Free == "free"

ASSUME FreeAssumption == Free \notin Servers

Payments == Tenants \X (1..MaxTopUps)
Dates == 0..(Months + 1) \cup {Never}
Row == [status : {"TRIAL", "ACTIVE", "SUSPENDED", "CLOSED"},
        reason : BOOLEAN,                 \* suspendReason is set
        trialEndsAt : Dates, renewsAt : Dates]
Entry == [tenant : Tenants, row : Row]
Idle == [step |-> "idle"]
RequestType ==
  [step : {"idle", "list", "unlock"}]
    \cup [step : {"recheck"}, tenant : Tenants]
    \cup [step : {"renew", "suspend", "balance", "alert"}, cur : Entry, rest : SUBSET Entry]

At(p, step) == run[p].step = step
Go(p, state) == run' = [run EXCEPT ![p] = state]
Reads(t) == [tenant |-> t, row |-> acc[t]]
Passed(date) == date # Never /\ date <= now

\* Who runRenewals takes up.
DueRow(row) == \/ row.status = "TRIAL" /\ Passed(row.trialEndsAt)
               \/ row.status = "ACTIVE" /\ Passed(row.renewsAt)

\* A trial that ends in a month, or an account from before billing existed.
Init ==
  /\ acc \in [Tenants -> {[status |-> "TRIAL", reason |-> FALSE, trialEndsAt |-> 1, renewsAt |-> Never],
                          [status |-> "ACTIVE", reason |-> FALSE, trialEndsAt |-> Never, renewsAt |-> Never]}]
  /\ run = [p \in Servers \cup Clients |-> Idle]
  /\ lock = Free
  /\ overran = FALSE
  /\ now = 0
  /\ credited = {}
  /\ paid = [t \in Tenants |-> 0]
  /\ called = [t \in Tenants |-> 0]
  /\ alerts = [t \in Tenants |-> 0]
  /\ changes = [t \in Tenants |-> 0]
  /\ crashes = 0
  /\ balance = [t \in Tenants |-> Start]
  /\ notified = [t \in Tenants |-> FALSE]

-----------------------------------------------------------------------------
(* runRenewals *)

\* (mutant) nobody looks at the lock
FreeAlways == TRUE

LockIsFree == lock = Free

\* Runs, and payments that renew, have rows from before.
StillRenewing == \E p \in DOMAIN run : ~At(p, "idle") /\ (p \in Servers \/ At(p, "renew"))

RunRenewals(s) ==
  /\ At(s, "idle") /\ LockIsFree
  /\ lock' = s
  /\ overran' = (overran /\ StillRenewing)
  /\ Go(s, [step |-> "list"])
  /\ UNCHANGED <<acc, now, credited, paid, called, alerts, changes, crashes, wallet>>

\* After the first row, or a row, the next one; after the last the end.
Renews(p, entries) ==
  \/ \E e \in entries : Go(p, [step |-> "renew", cur |-> e, rest |-> entries \ {e}])
  \/ entries = {} /\ Go(p, IF p \in Servers THEN [step |-> "unlock"] ELSE Idle)

Backfilled(row) ==
  [row EXCEPT !.trialEndsAt = IF row.status = "TRIAL" /\ @ = Never THEN now + 1 ELSE @,
              !.renewsAt = IF row.status = "ACTIVE" /\ @ = Never THEN now + 1 ELSE @]

\* Missing dates are set, then the accounts that are due are read.
List(s) ==
  /\ At(s, "list")
  /\ acc' = [t \in Tenants |-> Backfilled(acc[t])]
  /\ Renews(s, {Reads(t) : t \in {u \in Tenants : DueRow(acc[u])}})
  /\ UNCHANGED <<lock, overran, now, credited, paid, called, alerts, changes, crashes, wallet>>

\* The lock is deleted, whoever has it by now.
Unlock(s) ==
  /\ At(s, "unlock")
  /\ lock' = Free
  /\ Go(s, Idle)
  /\ UNCHANGED <<acc, overran, now, credited, paid, called, alerts, changes, crashes, wallet>>

\* (mutant) a lock without EX
ExpiredNever == FALSE

\* After 300 s, whether its server has stopped or still renews.
Expired == lock # Free

LockExpires ==
  /\ Expired
  /\ lock' = Free
  /\ overran' = (overran \/ ~At(lock, "idle"))
  /\ UNCHANGED <<acc, run, now, credited, paid, called, alerts, changes, crashes, wallet>>

-----------------------------------------------------------------------------
(* renew *)

\* A month from the date that was due, or from now when there was a break.
NextDate(row) == IF row.status = "ACTIVE" /\ row.renewsAt # Never THEN row.renewsAt + 1 ELSE now + 1

\* The transaction: month paid, account active, whatever its row says by now.
Renewed(p) ==
  /\ At(p, "renew")
  /\ LET t == run[p].cur.tenant IN
     /\ Debit(t, Fee)
     /\ paid' = [paid EXCEPT ![t] = @ + 1]
     /\ acc' = [acc EXCEPT ![t].status = "ACTIVE", ![t].renewsAt = NextDate(run[p].cur.row)]
  /\ Go(p, [run[p] EXCEPT !.step = "balance"])
  /\ UNCHANGED <<lock, overran, now, credited, called, alerts, changes, crashes>>

\* It fails and is undone ...
CannotPay(p) ==
  /\ At(p, "renew") /\ ~Funded(run[p].cur.tenant, Fee)
  /\ IF run[p].cur.row.status = "SUSPENDED" THEN Renews(p, run[p].rest)
                                            ELSE Go(p, [run[p] EXCEPT !.step = "suspend"])
  /\ UNCHANGED <<acc, lock, overran, now, credited, paid, called, alerts, changes, crashes, wallet>>

\* ... then the account is suspended.
Suspend(p) ==
  /\ At(p, "suspend")
  /\ LET t == run[p].cur.tenant  was == run[p].cur.row.renewsAt IN
     acc' = [acc EXCEPT ![t].status = "SUSPENDED", ![t].renewsAt = IF was = Never THEN now ELSE was]
  /\ Renews(p, run[p].rest)
  /\ UNCHANGED <<lock, overran, now, credited, paid, called, alerts, changes, crashes, wallet>>

-----------------------------------------------------------------------------
(* checkLowBalance *)

ReadBalance(p) ==
  /\ At(p, "balance")
  /\ LET t == run[p].cur.tenant IN
     IF ~notified[t] /\ balance[t] < Threshold THEN Go(p, [run[p] EXCEPT !.step = "alert"])
                                               ELSE Renews(p, run[p].rest)
  /\ UNCHANGED <<acc, lock, overran, now, credited, paid, called, alerts, changes, crashes, wallet>>

\* (mutant) the update has no condition
UnclaimedAlways(t) == TRUE

Unclaimed(t) == ~notified[t]

Alert(p) ==
  /\ At(p, "alert")
  /\ LET t == run[p].cur.tenant IN
     IF Unclaimed(t) THEN /\ notified' = [notified EXCEPT ![t] = TRUE]
                          /\ alerts' = [alerts EXCEPT ![t] = @ + 1]
                     ELSE UNCHANGED <<notified, alerts>>
  /\ Renews(p, run[p].rest)
  /\ UNCHANGED <<acc, lock, overran, now, credited, paid, called, changes, crashes, balance>>

-----------------------------------------------------------------------------
(* Payments and calls *)

\* (mutant) no unique index
NotCredited(payment) == FALSE

\* Transaction.stripeRef is unique: the same payment again changes nothing.
IsCredited(payment) == payment \in credited

\* creditTopup: the transaction ...
Pay(p, t, i) ==
  /\ At(p, "idle") /\ ~IsCredited(<<t, i>>)
  /\ Credit(t, TopUp)
  /\ credited' = credited \cup {<<t, i>>}
  /\ alerts' = [alerts EXCEPT ![t] = IF notified'[t] THEN @ ELSE 0]
  /\ Go(p, [step |-> "recheck", tenant |-> t])
  /\ UNCHANGED <<acc, lock, overran, now, paid, called, changes, crashes>>

\* ... then an account the platform suspended is renewed at once.
Reactivates(row) == row.status = "SUSPENDED" /\ ~row.reason /\ Passed(row.renewsAt)

Recheck(p) ==
  /\ At(p, "recheck")
  /\ LET t == run[p].tenant IN
     Renews(p, IF Reactivates(acc[t]) THEN {Reads(t)} ELSE {})
  /\ UNCHANGED <<acc, lock, overran, now, credited, paid, called, alerts, changes, crashes, wallet>>

\* The charge of a call that has ended, and the check after it.
CallEnds(p, t) ==
  /\ At(p, "idle") /\ called[t] < MaxCalls
  /\ Charge(t, CallCost)
  /\ called' = [called EXCEPT ![t] = @ + 1]
  /\ Go(p, [step |-> "balance", cur |-> Reads(t), rest |-> {}])
  /\ UNCHANGED <<acc, lock, overran, now, credited, paid, alerts, changes, crashes>>

-----------------------------------------------------------------------------
(* The administrator, the clock, the servers *)

Changes(t, row) ==
  /\ changes[t] < MaxChanges /\ crashes + changes[t] < MaxUpsets
  /\ changes' = [changes EXCEPT ![t] = @ + 1]
  /\ acc' = [acc EXCEPT ![t] = row]
  /\ UNCHANGED <<run, lock, overran, now, credited, paid, called, alerts, crashes, wallet>>

AdminSuspends(t) == Changes(t, [acc[t] EXCEPT !.status = "SUSPENDED", !.reason = TRUE])

AdminActivates(t) ==
  Changes(t, [acc[t] EXCEPT !.status = "ACTIVE", !.reason = FALSE,
              !.renewsAt = IF @ = Never \/ acc[t].status = "CLOSED" THEN now + 1 ELSE @])

AdminGrantsTrial(t) ==
  Changes(t, [acc[t] EXCEPT !.status = "TRIAL", !.reason = FALSE,
              !.trialEndsAt = IF @ = Never THEN now + 1 ELSE @])

\* The numbers are released first, see Numbers.
Close(t) == /\ acc[t].status # "CLOSED"
            /\ Changes(t, [acc[t] EXCEPT !.status = "CLOSED", !.reason = TRUE, !.renewsAt = Never])

\* A month is longer than any request.
Tick ==
  /\ now < Months /\ \A p \in DOMAIN run : At(p, "idle")
  /\ now' = now + 1
  /\ UNCHANGED <<acc, run, lock, overran, credited, paid, called, alerts, changes, crashes, wallet>>

\* The server stops, or the request fails, between two steps; a lock it has stays.
Crash(p) ==
  /\ ~At(p, "idle") /\ crashes < MaxCrashes
  /\ \A t \in Tenants : crashes + changes[t] < MaxUpsets
  /\ crashes' = crashes + 1
  /\ Go(p, Idle)
  /\ UNCHANGED <<acc, lock, overran, now, credited, paid, called, alerts, changes, wallet>>

-----------------------------------------------------------------------------
(* The specification *)

Running(p) == \/ Renewed(p) \/ CannotPay(p) \/ Suspend(p) \/ ReadBalance(p) \/ Alert(p)
              \/ List(p) \/ Unlock(p) \/ Recheck(p)

Next ==
  \/ \E s \in Servers : RunRenewals(s)
  \/ \E p \in Servers \cup Clients : Running(p) \/ Crash(p)
  \/ \E p \in Clients, t \in Tenants : CallEnds(p, t) \/ \E i \in 1..MaxTopUps : Pay(p, t, i)
  \/ \E t \in Tenants : AdminSuspends(t) \/ AdminActivates(t) \/ AdminGrantsTrial(t) \/ Close(t)
  \/ LockExpires \/ Tick

Spec == Init /\ [][Next]_vars

\* Requests go on, the timer of some server fires again and again, Redis drops a lock that
\* nobody deletes.
Fairness == /\ \A p \in Servers \cup Clients : WF_vars(Running(p))
            /\ WF_vars(\E s \in Servers : RunRenewals(s))
            /\ WF_vars(LockExpires)

FairSpec == Spec /\ Fairness

-----------------------------------------------------------------------------
(* Properties *)

\* Every variable stays in its type; only calls take a wallet below zero (debit), however
\* many renewals run at once.
TypeOK ==
  /\ acc \in [Tenants -> Row]
  /\ run \in [Servers \cup Clients -> RequestType]
  /\ lock \in Servers \cup {Free} /\ overran \in BOOLEAN
  /\ now \in 0..Months
  /\ credited \subseteq Payments
  /\ paid \in [Tenants -> Nat] /\ called \in [Tenants -> 0..MaxCalls]
  /\ alerts \in [Tenants -> Nat] /\ changes \in [Tenants -> 0..MaxChanges]
  /\ crashes \in 0..MaxCrashes
  /\ balance \in [Tenants -> Int]
  /\ \A t \in Tenants : balance[t] >= -(CallCost * called[t])
  /\ notified \in [Tenants -> BOOLEAN]

\* The ledger explains the balance, whatever requests stop half-way and however often a
\* payment is reported (the transactions of debit, charge and credit).
MoneyAccounted ==
  \A t \in Tenants :
    balance[t] = Start + TopUp * Cardinality({k \in credited : k[1] = t})
                 - Fee * paid[t] - CallCost * called[t]

\* Servers that renew, a server that stops while it does and payments that renew too never
\* make the timer charge an account before its date, unless the administrator has changed
\* its status (runRenewals' lock, creditTopup's conditions).  This is all that is left of "Safe
\* to run from several servers": once a run takes longer than the lock's 300 s, another
\* server lists the same accounts, and until those renewals are done an account may be charged
\* for its next month, or suspended in the month it has paid.
ChargedWhenDue ==
  ~overran => \A s \in Servers : At(s, "renew") =>
    LET t == run[s].cur.tenant IN changes[t] = 0 => DueRow(acc[t])

\* "Sends the low-balance alert once each time the wallet drops under the threshold":
\* calls and renewals that check at once claim it once (checkLowBalance).
AlertedOnce == \A t \in Tenants : alerts[t] <= 1

\* An account whose date has come is charged or suspended, though a server stops with the
\* lock (runRenewals).
DueIsHandled == \A t \in Tenants : DueRow(acc[t]) ~> ~DueRow(acc[t])

\* An account the administrator suspended or closed stays so until the administrator
\* lifts it, which takes the reason away (creditTopup, setStatus).
AdminSuspensionStays ==
  \A t \in Tenants : acc[t].reason => acc[t].status \in {"SUSPENDED", "CLOSED"}

\* An account the platform suspended, and that can pay now, is being renewed (creditTopup).
PayerIsReactivated ==
  \A t \in Tenants :
    Reactivates(acc[t]) /\ Funded(t, Fee) =>
      \E p \in DOMAIN run : \/ At(p, "recheck") /\ run[p].tenant = t
                            \/ At(p, "renew") /\ run[p].cur.tenant = t
=============================================================================
