------------------------------- MODULE Wallet -------------------------------
(***************************************************************************)
(* The prepaid wallet of billing/wallet.service.ts.  Every operation is a  *)
(* database transaction or part of its caller's; its update locks the      *)
(* tenant's row until the transaction ends, so operations on one wallet    *)
(* are atomic.                                                             *)
(***************************************************************************)
EXTENDS Integers

CONSTANTS Tenants,
          Threshold      \* lowBalanceThreshold

VARIABLES balance,       \* Tenant.walletBalance
          notified       \* Tenant.lowBalanceNotifiedAt is set

wallet == <<balance, notified>>

\* (mutant) an update without its condition
Unconditional(t, amount) == TRUE

\* The condition of debit's update: a short wallet changes nothing.
Funded(t, amount) == amount = 0 \/ balance[t] >= amount

Debit(t, amount) == /\ Funded(t, amount)
                    /\ balance' = [balance EXCEPT ![t] = @ - amount]
                    /\ UNCHANGED notified

\* A finished call: it is charged whether the wallet has the money or not.
Charge(t, amount) == /\ balance' = [balance EXCEPT ![t] = @ - amount]
                     /\ UNCHANGED notified

\* Top-ups and refunds; back above the alert level, the next alert is allowed.
Credit(t, amount) ==
  /\ balance' = [balance EXCEPT ![t] = @ + amount]
  /\ notified' = [notified EXCEPT ![t] = @ /\ balance[t] + amount < Threshold]
=============================================================================
