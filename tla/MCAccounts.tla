------------------------------ MODULE MCAccounts ------------------------------
(* One person's account, from registration to deletion.                        *)
EXTENDS Accounts

\* The safety question alone, for the run that needs no fairness.
Unfair == AccountsInit /\ [][AccountsNext]_accountVars
=============================================================================
