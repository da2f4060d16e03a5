----------------------------- MODULE CoinLedger -----------------------------
(***************************************************************************)
(* What the Source Coin ledger promises: a transaction moves its amount    *)
(* between two open accounts at one instant, at most once, and only out of *)
(* money that is there.                                                    *)
(***************************************************************************)
EXTENDS Integers

CONSTANTS Account, Transaction, SourceOf, DestinationOf, AmountOf, Genesis

VARIABLES
    balance,   \* of each account
    settled,   \* the transactions that have moved their amount
    open       \* the accounts that may transact

Init ==
    /\ balance = Genesis
    /\ settled = {}
    /\ open = Account

Transfer(t) ==
    /\ t \notin settled
    /\ {SourceOf[t], DestinationOf[t]} \subseteq open
    /\ AmountOf[t] <= balance[SourceOf[t]]
    /\ balance' = [balance EXCEPT ![SourceOf[t]] = @ - AmountOf[t],
                                  ![DestinationOf[t]] = @ + AmountOf[t]]
    /\ settled' = settled \cup {t}
    /\ UNCHANGED open

Govern ==
    /\ open' \in SUBSET Account
    /\ UNCHANGED <<balance, settled>>

Next == (\E t \in Transaction : Transfer(t)) \/ Govern

Spec == Init /\ [][Next]_<<balance, settled, open>>
=============================================================================
