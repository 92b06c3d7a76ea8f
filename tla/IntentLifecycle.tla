--------------------------- MODULE IntentLifecycle ---------------------------
(***************************************************************************)
(* What the intent book promises, without bids, nonces, flags or           *)
(* registries: an owner publishes an offer, may agree to terms within it   *)
(* and change that agreement as long as the offer is open, and the offer   *)
(* ends either cancelled or settled, once, on the terms then agreed and    *)
(* before they lapse.                                                      *)
(***************************************************************************)
EXTENDS Naturals, Sequences

CONSTANTS
  IntentId,   \* names of the offers
  Offered,    \* what an owner may offer
  Agreed,     \* what an owner may agree to
  NoOffer,    \* not in Offered
  NoTerms     \* not in Agreed

VARIABLES
  now,           \* the clock
  offer,         \* what is offered under each name
  agreement,     \* the terms agreed for each offer
  outcome,       \* "open", "settled" or "cancelled"
  settlements    \* the settlements that happened, in order

lifecycleVars == <<now, offer, agreement, outcome, settlements>>

Start ==
  /\ now \in Nat
  /\ offer = [i \in IntentId |-> NoOffer]
  /\ agreement = [i \in IntentId |-> NoTerms]
  /\ outcome = [i \in IntentId |-> "open"]
  /\ settlements = << >>

Open(i) == offer[i] # NoOffer /\ outcome[i] = "open"

\* Terms an owner's signature covers.
Acceptable(o, a) ==
  /\ a.amountIn <= o.amountInMax
  /\ a.amountOut >= o.amountOutMin
  /\ a.validUntil <= o.deadline

Publish(i) ==
  /\ offer[i] = NoOffer
  /\ offer'[i] \in Offered /\ now < offer'[i].deadline
  /\ offer' = [offer EXCEPT ![i] = offer'[i]]
  /\ UNCHANGED <<now, agreement, outcome, settlements>>

Agree(i) ==
  /\ Open(i)
  /\ agreement'[i] \in Agreed
  /\ Acceptable(offer[i], agreement'[i]) /\ now <= agreement'[i].validUntil
  /\ agreement' = [agreement EXCEPT ![i] = agreement'[i]]
  /\ UNCHANGED <<now, offer, outcome, settlements>>

Cancel(i) ==
  /\ Open(i)
  /\ outcome' = [outcome EXCEPT ![i] = "cancelled"]
  /\ UNCHANGED <<now, offer, agreement, settlements>>

Settle(i) ==
  /\ Open(i)
  /\ agreement[i] # NoTerms
  /\ now < offer[i].deadline /\ now <= agreement[i].validUntil
  /\ outcome' = [outcome EXCEPT ![i] = "settled"]
  /\ settlements' = Append(settlements, <<i, agreement[i]>>)
  /\ UNCHANGED <<now, offer, agreement>>

Pass ==
  /\ now' \in Nat /\ now' > now
  /\ UNCHANGED <<offer, agreement, outcome, settlements>>

Step == Pass \/ \E i \in IntentId : Publish(i) \/ Agree(i) \/ Cancel(i) \/ Settle(i)

Lifecycle == Start /\ [][Step]_lifecycleVars
=============================================================================
