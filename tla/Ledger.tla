-------------------------------- MODULE Ledger --------------------------------
(***************************************************************************)
(* The two contracts that hold or forward ether: the solvers' bonds        *)
(* (contracts/src/SolverRegistry.sol) and the settlement of a quote line   *)
(* by line (contracts/src/SettlementAdapter.sol).                          *)
(*                                                                         *)
(* Both call foreign code while they are at it: withdrawBond its sender,   *)
(* a native settlement the recipient of every line.  That code may call    *)
(* either contract again, return or revert.  frames is the stack of those  *)
(* calls; each frame keeps what its function restores if it reverts.  A    *)
(* function that reverts before its first foreign call leaves no trace and *)
(* is not a step.  Neither contract accepts plain ether, so paying one of  *)
(* them reverts.  Metadata, capabilities, the fill counters nobody writes, *)
(* the line kinds and the execution hash are left out.                     *)
(***************************************************************************)
EXTENDS Naturals, SequencesExt, Sums

CONSTANTS
  Account,         \* users and contracts of users
  registry,        \* address(this) of SolverRegistry
  adapter,         \* address(this) of SettlementAdapter
  ZeroAddress,     \* address(0)
  Instructions,    \* settlement instructions callers may pass
  Values,          \* the msg.value callers may send with a settlement
  Amounts,         \* the bonds callers may add or withdraw
  Endowment,       \* what every account owns of each asset at first
  MaxSolvers, MaxDepth, MaxSettlements, MaxTime   \* bounds

Asset == {"NATIVE_TOKEN", "ERC20"}
Holder == Account \cup {registry, adapter}

Line == [recipient : Holder \cup {ZeroAddress}, token : Asset, amount : Nat]
Instruction == [quoteHash : BOOLEAN, settlementPlanHash : BOOLEAN,   \* nonzero?
                deadline : Nat, payer : Account, token : Asset,
                grossAmount : Nat, lines : Seq(Line)]
NoInstruction == [payer |-> ZeroAddress]

ASSUME LedgerAssumption ==
  /\ ZeroAddress \notin Holder /\ registry \notin Account /\ adapter \notin Account
  /\ registry # adapter /\ Instructions \subseteq Instruction
  /\ Amounts \subseteq Nat /\ Values \subseteq Nat /\ Endowment \in Nat

VARIABLES
  now,               \* block.timestamp
  balance,           \* who owns how much of each asset
  solvers,           \* _solvers
  solverByOperator,  \* _solverByOperator
  settlements,       \* the SettlementExecuted events
  frames             \* the calls to foreign code under way, the running one last

vars == <<now, balance, solvers, solverByOperator, settlements, frames>>

Init ==
  /\ now = 1
  /\ balance = [t \in Asset |-> [h \in Holder |-> IF h \in Account THEN Endowment ELSE 0]]
  /\ solvers = << >>
  /\ solverByOperator = [a \in Account |-> 0]
  /\ settlements = << >>
  /\ frames = << >>

\* A balance map after `amount' went from one holder to another.
Moved(b, t, from, to, amount) ==
  [b EXCEPT ![t] = [h \in Holder |-> @[h] + (IF h = to THEN amount ELSE 0)
                                           - (IF h = from THEN amount ELSE 0)]]

Affords(from, t, amount) == balance[t][from] >= amount

\* What the EVM restores when the function that runs now reverts.
Snapshot == [balance |-> balance, solvers |-> solvers,
             solverByOperator |-> solverByOperator, settlements |-> settlements]

\* payee.call{value: amount}(""): the code of `payee' runs next.
Frame(payee, lines, instruction, saved) ==
  [payee |-> payee, lines |-> lines, instruction |-> instruction, saved |-> saved]

----------------------------------------------------------------------------
(* SolverRegistry.  A sender may be anybody, also in the midst of a call:  *)
(* the running code may call any other account's code.                     *)

RegisterSolver(sender, value) ==
  /\ solverByOperator[sender] = 0
  /\ Len(solvers) < MaxSolvers
  /\ Affords(sender, "NATIVE_TOKEN", value)
  /\ solvers' = Append(solvers, [operator |-> sender, bond |-> value, active |-> TRUE])
  /\ solverByOperator' = [solverByOperator EXCEPT ![sender] = Len(solvers) + 1]
  /\ balance' = Moved(balance, "NATIVE_TOKEN", sender, registry, value)
  /\ UNCHANGED <<now, settlements, frames>>

Operates(sender, id) == id \in DOMAIN solvers /\ solvers[id].operator = sender

UpdateSolver(sender, id, active) ==
  /\ Operates(sender, id)
  /\ solvers' = [solvers EXCEPT ![id].active = active]
  /\ UNCHANGED <<now, balance, solverByOperator, settlements, frames>>

AddBond(sender, id, value) ==
  /\ Operates(sender, id)
  /\ Affords(sender, "NATIVE_TOKEN", value)
  /\ solvers' = [solvers EXCEPT ![id].bond = @ + value]
  /\ balance' = Moved(balance, "NATIVE_TOKEN", sender, registry, value)
  /\ UNCHANGED <<now, solverByOperator, settlements, frames>>

\* Mutant of Debited: the bond is left as it is.
MutantDebited(id, amount) == solvers

Debited(id, amount) == [solvers EXCEPT ![id].bond = @ - amount]

BondCovers(id, amount) == amount <= solvers[id].bond

\* The bond is debited first, then the sender is called with the ether.
WithdrawBond(sender, id, amount) ==
  /\ Operates(sender, id)
  /\ ~solvers[id].active
  /\ BondCovers(id, amount)
  /\ Affords(registry, "NATIVE_TOKEN", amount)
  /\ Len(frames) < MaxDepth
  /\ solvers' = Debited(id, amount)
  /\ balance' = Moved(balance, "NATIVE_TOKEN", registry, sender, amount)
  /\ frames' = Append(frames, Frame(sender, << >>, NoInstruction, Snapshot))
  /\ UNCHANGED <<now, solverByOperator, settlements>>

----------------------------------------------------------------------------
(* SettlementAdapter.                                                      *)

AmountsOf(lines) == [k \in DOMAIN lines |-> lines[k].amount]
Total(lines) == SumOver(AmountsOf(lines), DOMAIN lines)
LinesTo(h, lines) == SumOver(AmountsOf(lines), {k \in DOMAIN lines : lines[k].recipient = h})

LinesValid(i) ==
  /\ i.lines # << >>
  /\ \A k \in DOMAIN i.lines :
       /\ i.lines[k].recipient # ZeroAddress
       /\ i.lines[k].token = i.token
       /\ i.lines[k].amount # 0

TotalMatches(i) == Total(i.lines) = i.grossAmount

Executable(sender, i) ==
  /\ i.quoteHash /\ i.settlementPlanHash
  /\ now <= i.deadline
  /\ i.payer = sender
  /\ LinesValid(i)
  /\ TotalMatches(i)

ValueMatches(i, value) == value = (IF i.token = "NATIVE_TOKEN" THEN i.grossAmount ELSE 0)

\* The adapter, holding what b says, pays the first of `lines' and calls its
\* recipient; a frame's `lines' are the ones still to be paid.
PayLine(b, lines, instruction, saved, below) ==
  LET line == Head(lines)
  IN  /\ line.recipient \in Account
      /\ b["NATIVE_TOKEN"][adapter] >= line.amount
      /\ balance' = Moved(b, "NATIVE_TOKEN", adapter, line.recipient, line.amount)
      /\ frames' = Append(below, Frame(line.recipient, Tail(lines), instruction, saved))

\* _executeNative up to the first recipient's code.
ExecuteNative(sender, i, value) ==
  /\ Len(frames) < MaxDepth
  /\ PayLine(Moved(balance, "NATIVE_TOKEN", sender, adapter, value), i.lines, i, Snapshot, frames)
  /\ UNCHANGED settlements

\* _executeERC20: the token takes the lines from the payer, all of them or none.
ExecuteERC20(i) ==
  /\ Affords(i.payer, "ERC20", Total(i.lines))
  /\ balance' = [balance EXCEPT !["ERC20"] = [h \in Holder |->
                   @[h] - (IF h = i.payer THEN Total(i.lines) ELSE 0) + LinesTo(h, i.lines)]]
  /\ settlements' = Append(settlements, i)
  /\ UNCHANGED frames

ExecuteSettlement(sender, i, value) ==
  /\ Executable(sender, i)
  /\ ValueMatches(i, value)
  /\ Affords(sender, "NATIVE_TOKEN", value)
  /\ Len(settlements) + Len(frames) < MaxSettlements
  /\ IF i.token = "NATIVE_TOKEN" THEN ExecuteNative(sender, i, value) ELSE ExecuteERC20(i)
  /\ UNCHANGED <<now, solvers, solverByOperator>>

----------------------------------------------------------------------------
(* The foreign code.                                                       *)

Running == frames[Len(frames)]

\* It returns: the next line is paid, or the function that called it ends.
Return ==
  /\ frames # << >>
  /\ \/ /\ Running.lines = << >>
        /\ frames' = Front(frames)
        /\ settlements' = IF Running.instruction = NoInstruction THEN settlements
                          ELSE Append(settlements, Running.instruction)
        /\ UNCHANGED balance
     \/ /\ Running.lines # << >>
        /\ PayLine(balance, Running.lines, Running.instruction, Running.saved, Front(frames))
        /\ UNCHANGED settlements
  /\ UNCHANGED <<now, solvers, solverByOperator>>

\* Mutant of Undone: a failed call goes unnoticed, so only its transfer is taken back.
MutantUndone ==
  /\ balance' = Running.saved.balance
  /\ UNCHANGED <<solvers, solverByOperator, settlements>>

Undone ==
  /\ balance' = Running.saved.balance
  /\ solvers' = Running.saved.solvers
  /\ solverByOperator' = Running.saved.solverByOperator
  /\ settlements' = Running.saved.settlements

\* It reverts, or the next line cannot be paid: so does the function that
\* called it (BOND_WITHDRAW_FAILED, NativeTransferFailed), whose own caller
\* goes on.
Revert ==
  /\ frames # << >>
  /\ Undone
  /\ frames' = Front(frames)
  /\ UNCHANGED now

Tick ==
  /\ frames = << >>
  /\ now < MaxTime
  /\ now' = now + 1
  /\ UNCHANGED <<balance, solvers, solverByOperator, settlements, frames>>

Next ==
  \/ \E sender \in Account :
       \/ \E value \in Amounts : RegisterSolver(sender, value)
       \/ \E id \in 1..MaxSolvers :
            \/ \E active \in BOOLEAN : UpdateSolver(sender, id, active)
            \/ \E amount \in Amounts : AddBond(sender, id, amount) \/ WithdrawBond(sender, id, amount)
       \/ \E i \in Instructions, value \in Values : ExecuteSettlement(sender, i, value)
  \/ Return
  \/ Revert
  \/ Tick

Spec == Init /\ [][Next]_vars

----------------------------------------------------------------------------
(* Properties.                                                             *)

Bonds(S) == SumOver([id \in DOMAIN solvers |-> solvers[id].bond], S)

\* However foreign code re-enters, at every point it runs the registry holds
\* exactly the bonds, and the adapter exactly what the settlements under way
\* have still to pay: no call can draw on what belongs to another one.
ContractsCovered ==
  /\ balance["NATIVE_TOKEN"][registry] = Bonds(DOMAIN solvers)
  /\ balance["NATIVE_TOKEN"][adapter] =
       SumOver([k \in DOMAIN frames |-> Total(frames[k].lines)], DOMAIN frames)

Settled(t) == {k \in DOMAIN settlements : settlements[k].token = t}

Paid(a, t) ==
  SumOver([k \in DOMAIN settlements |-> settlements[k].grossAmount],
          {k \in Settled(t) : settlements[k].payer = a})

Received(a, t) ==
  SumOver([k \in DOMAIN settlements |-> LinesTo(a, settlements[k].lines)], Settled(t))

\* Between transactions every account owns what it began with, less its bond
\* and the gross amounts of the settlements it paid, plus its lines of all
\* settlements: none is executed in part, whoever reverted or re-entered.
SettledExactly ==
  frames = << >> =>
    \A a \in Account, t \in Asset :
      balance[t][a] + Paid(a, t)
        + (IF t = "NATIVE_TOKEN" THEN Bonds({id \in DOMAIN solvers : solvers[id].operator = a}) ELSE 0)
      = Endowment + Received(a, t)
=============================================================================
