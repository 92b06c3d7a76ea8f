---------------------------- MODULE MCIntentBook ----------------------------
(* Finite instances of IntentBook for TLC.                                  *)
EXTENDS IntentBook

CONSTANTS owner, solver, rival, hash, audit, profile

\* A signed intent with every constraint and execution requirement set.
Demanding == [owner |-> owner, nonce |-> 0, amountInMax |-> 2, amountOutMin |-> 1,
              deadline |-> 4, slippageBps |-> 100, dataHash |-> hash,
              requiredSubject |-> profile, requiredSchema |-> audit]

\* One with the same nonce and no execution requirement.
Plain == [Demanding EXCEPT !.deadline = 3, !.dataHash = ZeroHash,
                           !.requiredSubject = ZeroHash, !.requiredSchema = ZeroHash]

\* The plain one under other nonces, of the same and of another owner.
Second == [Plain EXCEPT !.nonce = 1, !.slippageBps = 10000]
Foreign == [Plain EXCEPT !.owner = rival]

\* An intent the book must refuse.
Sloppy == [Plain EXCEPT !.slippageBps = 10001]

Good == [amountIn |-> 2, amountOut |-> 1, validUntil |-> 4, executionHash |-> hash]
Short == [Good EXCEPT !.amountIn = 1, !.validUntil = 2]
Wrong == [Good EXCEPT !.validUntil = 3, !.executionHash = ZeroHash]
Greedy == [Good EXCEPT !.amountIn = 3]

AllIntents == {Demanding, Plain, Second, Foreign, Sloppy}
SimpleIntents == {Plain, Second, Foreign, Sloppy}
AllOffers == {Good, Short, Wrong, Greedy}

Submissions == {intents[i] : i \in 1..nextIntentId - 1}

\* One demanding intent, two bids of any terms, an attestation.
Auction == nextIntentId <= 2 /\ Submissions \subseteq {Demanding}

\* Several intents of two owners sharing nonces, one bid each, no attestations.
Races ==
  /\ Submissions \subseteq SimpleIntents
  /\ nextAttestationId = 1
  /\ \A i \in IntentId :
       /\ nextBidId[i] <= 1
       /\ bids[i][1] # NoBid => /\ bids[i][1].solver # solver
                              /\ bids[i][1].executionHash = ZeroHash

Scoped == Auction \/ Races
=============================================================================
