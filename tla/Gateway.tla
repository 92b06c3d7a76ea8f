------------------------------ MODULE Gateway ------------------------------
(***************************************************************************)
(* The API where it decides something: routes/preflight.ts over the        *)
(* policies table of PolicyMirror, and routes/bids.ts, whose solver_bids   *)
(* table the indexer writes too.  The bids are those of one intent;        *)
(* requests run concurrently, a query of a request being one step.         *)
(*                                                                         *)
(* Selecting a bid is a READ COMMITTED transaction: an UPDATE waits for    *)
(* the rows another transaction has changed, looks at them again when that *)
(* one commits, and sees no row inserted after it began.  Two transactions *)
(* that wait for each other are a deadlock and one is rolled back.         *)
(***************************************************************************)
EXTENDS PolicyMirror

CONSTANTS
  NFTSelector,    \* the selectors of ERC-721 and ERC-1155 transfers
  PreflightCalls, \* the calls asked about
  MaxBids         \* bound on the rows of solver_bids

ASSUME GatewayAssumption ==
  PreflightCalls \subseteq
    [target : Target, value : Nat, selector : Selectors \cup {"none"}, amount : Nat]

VARIABLES
  intentOpen,   \* the intent's row has status OPEN
  posting,      \* POST requests that found it so and have yet to insert
  solverBids,   \* solver_bids
  selections    \* the transactions in progress: by the bid each selects, the rows it sees

bidVars == <<intentOpen, posting, solverBids, selections>>
gatewayVars == <<mirrorVars, bidVars>>

GatewayInit ==
  /\ MirrorInit
  /\ intentOpen = TRUE
  /\ posting = 0
  /\ solverBids = << >>
  /\ selections = << >>

----------------------------------------------------------------------------
(* POST /preflight.                                                        *)

\* getSelector: calldata without a selector counts as selector zero.
PreflightSelector(call) == IF call.selector = "none" THEN NoSelector ELSE call.selector

\* Mutant of FunctionListed: the mode not looked at.
MutantFunctionListed(call) ==
  PreflightSelector(call) # NoSelector =>
    Shown("function_allowlist", NoAddress, call.target, call.selector, FALSE)

FunctionListed(call) ==
  /\ Shown("function_allowlist_mode", NoAddress, NoAddress, NoSelector, FALSE)
  /\ PreflightSelector(call) # NoSelector
  => Shown("function_allowlist", NoAddress, call.target, call.selector, FALSE)

\* detectTokenSpend: NFT transfers are spends too.
DetectTokenSpend(call) ==
  IF call.selector \in NFTSelector \cup {"erc20"} THEN call.amount ELSE 0

\* checkSpendLimit: what was spent already is unknown here.
BelowSpendLimit(token, amount) ==
  LET max == Shown("spend_limit", token, NoAddress, NoSelector, 0)
  IN  max # 0 => amount <= max

Preflight(call) ==
  /\ ~Shown("account_frozen", NoAddress, NoAddress, NoSelector, FALSE)
  /\ Shown("target_allowlist", NoAddress, call.target, NoSelector, FALSE)
  /\ FunctionListed(call)
  /\ BelowSpendLimit(Native, call.value)
  /\ BelowSpendLimit(call.target, DetectTokenSpend(call))

----------------------------------------------------------------------------
(* The bid routes.                                                         *)

Row(status, onChain) == [status |-> status, onChain |-> onChain, swept |-> {}]

\* POST /intents/:id/bids: the intent is looked up ...
CheckIntentOpen ==
  /\ intentOpen
  /\ Len(solverBids) + posting < MaxBids
  /\ posting' = posting + 1
  /\ UNCHANGED <<intentOpen, solverBids, selections>>

\* ... and the bid inserted, whatever became of the intent meanwhile.
InsertBid ==
  /\ posting > 0
  /\ posting' = posting - 1
  /\ solverBids' = Append(solverBids, Row("OPEN", FALSE))
  /\ UNCHANGED <<intentOpen, selections>>

OpenBids == {b \in DOMAIN solverBids : solverBids[b].status = "OPEN"}

\* No transaction in progress has changed the row.  (What it locks of the
\* others a moment before it commits makes no difference.)
Unlocked(b) == b \notin DOMAIN selections

\* Mutant of Selectable: a bid of any status.
MutantSelectable(b) == b \in DOMAIN solverBids /\ Unlocked(b)

Selectable(b) == b \in OpenBids /\ Unlocked(b)

\* POST /bids/:bidId/select: BEGIN and the first UPDATE ...
BeginSelection(b) ==
  /\ Selectable(b)
  /\ selections' = [c \in DOMAIN selections \cup {b} |-> IF c = b THEN {} ELSE selections[c]]
  /\ UNCHANGED <<intentOpen, posting, solverBids>>

\* ... the UPDATE of the others, which sees the rows there are when it begins ...
BeginRejection(b) ==
  /\ b \in DOMAIN selections /\ selections[b] = {}
  /\ selections' = [selections EXCEPT ![b] = DOMAIN solverBids]
  /\ UNCHANGED <<intentOpen, posting, solverBids>>

Ended(b) == [c \in DOMAIN selections \ {b} |-> selections[c]]

\* ... and when it has waited for those of them that are locked, COMMIT.
CommitSelection(b) ==
  /\ b \in DOMAIN selections /\ selections[b] # {}
  /\ LET others == (selections[b] \cap OpenBids) \ {b}
     IN  /\ \A c \in others : Unlocked(c)
         /\ solverBids' = [c \in DOMAIN solverBids |->
              CASE c = b -> [solverBids[c] EXCEPT !.status = "SELECTED", !.swept = selections[b]]
                [] c \in others -> [solverBids[c] EXCEPT !.status = "REJECTED"]
                [] OTHER -> solverBids[c]]
  /\ selections' = Ended(b)
  /\ UNCHANGED <<intentOpen, posting>>

\* The victim of a deadlock, or of a lost connection.
RollBack(b) ==
  /\ b \in DOMAIN selections
  /\ selections' = Ended(b)
  /\ UNCHANGED <<intentOpen, posting, solverBids>>

----------------------------------------------------------------------------
(* The indexer's part in these tables.                                     *)

\* IntentFilled or IntentCancelled.
CloseIntent ==
  /\ intentOpen
  /\ intentOpen' = FALSE
  /\ UNCHANGED <<posting, solverBids, selections>>

\* SolverBidSubmitted; a replay of it (see Indexer) leaves the status alone.
MirrorBid ==
  /\ Len(solverBids) + posting < MaxBids
  /\ solverBids' = Append(solverBids, Row("OPEN", TRUE))
  /\ UNCHANGED <<intentOpen, posting, selections>>

\* SolverBidSelected, one statement, which waits for transactions like the
\* others.  Off-chain bids have no number on the chain and are rejected.
MirrorSelection(b) ==
  /\ b \in DOMAIN solverBids /\ solverBids[b].onChain
  /\ \A c \in OpenBids : Unlocked(c)
  /\ solverBids' = [c \in DOMAIN solverBids |->
       IF c \notin OpenBids THEN solverBids[c]
       ELSE IF c = b
            THEN [solverBids[c] EXCEPT !.status = "SELECTED", !.swept = DOMAIN solverBids]
            ELSE [solverBids[c] EXCEPT !.status = "REJECTED"]]
  /\ UNCHANGED <<intentOpen, posting, selections>>

Bidding ==
  \/ CheckIntentOpen \/ InsertBid
  \/ \E b \in 1..MaxBids :
       \/ BeginSelection(b) \/ BeginRejection(b) \/ CommitSelection(b) \/ RollBack(b)
       \/ MirrorSelection(b)
  \/ CloseIntent \/ MirrorBid

GatewayNext ==
  \/ MirrorNext /\ UNCHANGED bidVars
  \/ Bidding /\ UNCHANGED mirrorVars

GatewaySpec == GatewayInit /\ [][GatewayNext]_gatewayVars

----------------------------------------------------------------------------
(* Properties.                                                             *)

\* The limit halves a call would be charged to.
Tokens(call) ==
  {t \in Token : (t = Native /\ call.value > 0) \/ (t = call.target /\ TokenSpend(call) > 0)}

\* An NFT transfer whose amount preflight takes for an amount of money.
Overstated(call) == call.selector \in NFTSelector /\ ~BelowSpendLimit(call.target, call.amount)

\* What preflight says of a call once the indexer has caught up is what
\* checkTransaction says, in two directions with their exceptions: an allowed
\* call goes through unless money was already spent today, or the function
\* allowlist does not have the selector zero, which preflight takes for no
\* selector; a denied call is denied, unless it moves an NFT under a limit.
PreflightAgrees ==
  CaughtUp =>
    \A call \in PreflightCalls :
      /\ /\ Preflight(call)
         /\ \A t \in Tokens(call) : Spent(limits[t]) = 0
         /\ call.selector # NoSelector
         => CheckTransaction(call)
      /\ CheckTransaction(call) => Preflight(call) \/ Overstated(call)

\* Whatever requests and indexed selections run at the same time, of two
\* selected bids one was not yet there when the other one's selection rejected
\* the rest.
OneWinner ==
  \A b, c \in DOMAIN solverBids :
    b # c /\ solverBids[b].status = "SELECTED" /\ solverBids[c].status = "SELECTED" =>
      b \notin solverBids[c].swept \/ c \notin solverBids[b].swept
=============================================================================
