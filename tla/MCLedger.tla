------------------------------- MODULE MCLedger -------------------------------
(* A finite instance of Ledger for TLC.                                     *)
EXTENDS Ledger

CONSTANTS payer, payee

Pay(recipient) == [recipient |-> recipient, token |-> "NATIVE_TOKEN", amount |-> 1]

\* Two native lines, one of them back to the payer itself.
Native == [quoteHash |-> TRUE, settlementPlanHash |-> TRUE, deadline |-> 1, payer |-> payer,
           token |-> "NATIVE_TOKEN", grossAmount |-> 2, lines |-> <<Pay(payee), Pay(payer)>>]

\* The payee settling with a gross amount that its lines exceed.
Short == [Native EXCEPT !.payer = payee, !.grossAmount = 1]

\* A token line to the other account and one to the adapter.
Token == [Native EXCEPT !.token = "ERC20",
                        !.lines = <<[Pay(payee) EXCEPT !.token = "ERC20"],
                                    [Pay(adapter) EXCEPT !.token = "ERC20"]>>]

TheInstructions == {Native, [Native EXCEPT !.payer = payee], Short, Token}
=============================================================================
