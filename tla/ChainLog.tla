------------------------------ MODULE ChainLog ------------------------------
(***************************************************************************)
(* The intent book as the off-chain services see it: the events its        *)
(* functions emit (contracts/src/IntentBook.sol), in the order of the log, *)
(* each in the block its transaction was mined in.  A transaction goes     *)
(* into the block after head; services read no further than head.  Of the  *)
(* book's guards those are kept that decide which events may follow which; *)
(* what they depend on besides (deadlines, amounts, signatures) may be     *)
(* taken to hold at any time, so every log of the book is one of these.    *)
(***************************************************************************)
EXTENDS Naturals, Sequences, FiniteSetsExt

CONSTANTS
  Solver,       \* accounts that bid and fill
  MaxIntents,   \* bounds on the intents, on the bids for one intent,
  MaxBids,
  MaxSelections,\* on the selections made for one intent,
  MaxBlock      \* and on the blocks mined

ASSUME ChainAssumption ==
  /\ IsFiniteSet(Solver)
  /\ MaxIntents \in Nat /\ MaxBids \in Nat /\ MaxSelections \in Nat /\ MaxBlock \in Nat

VARIABLES
  chain,   \* the events so far, those of the block being built included
  head     \* the last block mined: eth_blockNumber

chainVars == <<chain, head>>

IntentId == 1..MaxIntents
BidId == 1..MaxBids

ChainInit == chain = << >> /\ head = 0

----------------------------------------------------------------------------
(* What the first n events of the log say.                                 *)

Positions(n, name, i) ==
  {k \in 1..n : chain[k].name = name /\ chain[k].intentId = i}

Happened(n, name, i) == Positions(n, name, i) # {}

StatusAfter(n, i) ==
  IF Happened(n, "IntentFilled", i) THEN "FILLED"
  ELSE IF Happened(n, "IntentCancelled", i) THEN "CANCELLED"
  ELSE IF Happened(n, "IntentSubmitted", i) THEN "OPEN"
  ELSE "none"

\* The number of events in the blocks up to b.
EventsUpTo(b) == Cardinality({k \in DOMAIN chain : chain[k].blockNumber <= b})

IsOpen(i) == StatusAfter(Len(chain), i) = "OPEN"

\* The solver that made bid b of intent i, as a set of one.
Bidder(i, b) ==
  UNION {chain[k].solver : k \in {k \in Positions(Len(chain), "SolverBidSubmitted", i) :
                                    chain[k].bidId = b}}

BidCount(i) == Cardinality(Positions(Len(chain), "SolverBidSubmitted", i))
Selections(i) == Positions(Len(chain), "SolverBidSelected", i)

----------------------------------------------------------------------------
(* The transactions.                                                       *)

Event(name, i, b, solver) ==
  [name |-> name, intentId |-> i, bidId |-> b, solver |-> solver,
   blockNumber |-> head + 1]

Mined(events) ==
  /\ head < MaxBlock
  /\ chain' = chain \o events
  /\ UNCHANGED head

SubmitIntent(i) ==
  /\ \A j \in IntentId : Happened(Len(chain), "IntentSubmitted", j) <=> j < i
  /\ Mined(<<Event("IntentSubmitted", i, 0, {})>>)

CancelIntent(i) ==
  /\ IsOpen(i)
  /\ Mined(<<Event("IntentCancelled", i, 0, {})>>)

BidEvents(s, i) == <<Event("SolverBidSubmitted", i, BidCount(i) + 1, {s})>>

SubmitBid(s, i) ==
  /\ IsOpen(i)
  /\ BidCount(i) < MaxBids
  /\ Mined(BidEvents(s, i))

SelectBid(i, b) ==
  /\ IsOpen(i)
  /\ b <= BidCount(i)
  /\ Cardinality(Selections(i)) < MaxSelections
  /\ Mined(<<Event("SolverBidSelected", i, b, Bidder(i, b))>>)

\* The solver of the bid that stands selected, as a set; empty if none does.
Selected(i) == IF Selections(i) = {} THEN {} ELSE chain[Max(Selections(i))].solver

FillEvents(i) ==
  <<Event("IntentFilled", i, 0, Selected(i)), Event("IntentFillProof", i, 0, {})>>

FillIntent(i) ==
  /\ IsOpen(i)
  /\ Selected(i) # {}
  /\ Mined(FillEvents(i))

\* The block being built is mined.
Mine ==
  /\ head < MaxBlock
  /\ head' = head + 1
  /\ UNCHANGED chain

Transact ==
  \E i \in IntentId :
    \/ SubmitIntent(i)
    \/ CancelIntent(i)
    \/ \E s \in Solver : SubmitBid(s, i)
    \/ \E b \in BidId : SelectBid(i, b)
    \/ FillIntent(i)

ChainNext == Transact \/ Mine
=============================================================================
