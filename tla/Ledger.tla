-------------------------------- MODULE Ledger --------------------------------
(***************************************************************************)
(* TimeLedger: an append-only list of entries in seconds, lots that expire,  *)
(* and ride debits that take from the lots first to expire.  The list is     *)
(* kept as the sums its filters take of it: per lot, per ride and of what    *)
(* names no lot.                                                             *)
(***************************************************************************)
EXTENDS Integers, FiniteSetsExt

CONSTANTS
    Lots,           \* lots of the wallet, as numbers in the order of createdAt
    EXPIRY,         \* EXPIRY[l]: when the lot expires; FOREVER: never
    GRANT,          \* GRANT[l]: its grantedSeconds
    DebitKeys,      \* idempotency keys of ride debits
    DEBIT,          \* DEBIT[r]: the seconds debit r asks for
    COMPENSATION,   \* seconds of the one compensation, which names no lot
    LAST            \* bound: the clock stops here

FOREVER == LAST + 1
ASSUME LedgerAssumption ==
    /\ Lots \subseteq Nat \ {0} /\ LAST \in Nat /\ COMPENSATION \in Int \ {0}
    /\ \A l \in Lots : EXPIRY[l] \in 0 .. FOREVER /\ GRANT[l] \in Nat \ {0}
    /\ \A r \in DebitKeys : DEBIT[r] \in Nat \ {0}

VARIABLES
    lots,       \* #lots
    inLot,      \* per lot, the seconds of the entries that name it
    free,       \* the seconds of those that name none
    charged,    \* per ride, the seconds its entries took
    debit,      \* the loop of debitFifo: ride, remaining, lots it has not come to
    clock

ledgerVars == <<lots, inLot, free, charged, debit, clock>>

-----------------------------------------------------------------------------
Expired(l) == EXPIRY[l] <= clock

\* balance: the entries of expired lots are left out, debits included.
BalanceNow == free + MapThenSumSet(LAMBDA l : inLot[l], {l \in lots : ~Expired(l)})

\* What debitFifo still finds in a lot.
MutantAvailable(l) == GRANT[l]
Available(l) == inLot[l]

\* The lots are gone through first to expire first, then oldest first.
Sooner(a, b) == EXPIRY[a] < EXPIRY[b] \/ (EXPIRY[a] = EXPIRY[b] /\ a < b)

\* No debit is half way: debitFifo runs to its end before any other call.
Through == debit.left = 0 \/ debit.todo = {}

-----------------------------------------------------------------------------
\* A purchase: its lot and its credit, as the tests add them.
AddLot(l) ==
    /\ Through /\ l \in Lots \ lots
    /\ lots' = lots \cup {l}
    /\ inLot' = [inLot EXCEPT ![l] = GRANT[l]]
    /\ UNCHANGED <<free, charged, debit, clock>>

\* append, of a compensation or an adjustment that names no lot: none is of zero
\* seconds, and a key that exists already is answered with its entry.
Compensate ==
    /\ Through /\ free = 0
    /\ free' = COMPENSATION
    /\ UNCHANGED <<lots, inLot, charged, debit, clock>>

\* debitFifo, unless the ride has debits already: they are the answer then.
DebitFifo(r) ==
    /\ Through /\ charged[r] = 0
    /\ BalanceNow >= DEBIT[r]
    /\ debit' = [ride |-> r, left |-> DEBIT[r], todo |-> {l \in lots : ~Expired(l)}]
    /\ UNCHANGED <<lots, inLot, free, charged, clock>>

\* One turn of its loop.  When the lots cannot cover the debit it throws after
\* the last one: what it has appended stays.
TakeFrom(l) ==
    /\ ~Through
    /\ l \in debit.todo /\ \A k \in debit.todo \ {l} : Sooner(l, k)
    /\ LET taken == IF Available(l) <= 0 THEN 0
                    ELSE IF Available(l) < debit.left THEN Available(l) ELSE debit.left
       IN  /\ inLot' = [inLot EXCEPT ![l] = @ - taken]
           /\ charged' = [charged EXCEPT ![debit.ride] = @ + taken]
           /\ debit' = [debit EXCEPT !.left = @ - taken, !.todo = @ \ {l}]
    /\ UNCHANGED <<lots, free, clock>>

ClockTick ==
    /\ Through /\ clock < LAST
    /\ clock' = clock + 1
    /\ UNCHANGED <<lots, inLot, free, charged, debit>>

LedgerInit ==
    /\ lots = {} /\ inLot = [l \in Lots |-> 0] /\ free = 0
    /\ charged = [r \in DebitKeys |-> 0]
    /\ debit = [ride |-> 0, left |-> 0, todo |-> {}]
    /\ clock = 0

LedgerNext ==
    \/ ClockTick \/ Compensate
    \/ \E l \in Lots : AddLot(l) \/ TakeFrom(l)
    \/ \E r \in DebitKeys : DebitFifo(r)

LedgerSpec == LedgerInit /\ [][LedgerNext]_ledgerVars

-----------------------------------------------------------------------------
\* No lot is ever taken below zero and no ride is charged more than it asked
\* for, whatever expires, is compensated or is retried in between (debitFifo).
NeverOvercharged ==
    /\ \A l \in Lots : inLot[l] >= 0
    /\ \A r \in DebitKeys : charged[r] <= DEBIT[r]
=============================================================================
