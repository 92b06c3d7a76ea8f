----------------------------- MODULE LedgerProofs -----------------------------
(***************************************************************************)
(* Proofs about Ledger for every value of its constants: whatever foreign  *)
(* code re-enters or reverts, the registry holds the bonds, the adapter    *)
(* what it still has to pay, and nobody gains or loses by a settlement but *)
(* its lines.  The state a frame would restore is one that was exact for   *)
(* the frames below it, so the invariant speaks of those states as of the  *)
(* present one.                                                            *)
(***************************************************************************)
EXTENDS Ledger, SumTheorems

USE LedgerAssumption

SolverRecord == [operator : Account, bond : Int, active : BOOLEAN]
Balances == [Asset -> [Holder -> Int]]
Saved == [balance : Balances, solvers : Seq(SolverRecord),
          solverByOperator : [Account -> Nat], settlements : Seq(Instructions)]
FrameSet == [payee : Account, lines : Seq(Line),
             instruction : Instructions \cup {NoInstruction}, saved : Saved]

\* The bonds of all solvers, and of the solvers an account operates.
AllBonds(sv) == SumOver([k \in DOMAIN sv |-> sv[k].bond], DOMAIN sv)
BondsBy(sv, a) ==
  SumOver([k \in DOMAIN sv |-> IF sv[k].operator = a THEN sv[k].bond ELSE 0], DOMAIN sv)

\* What an instruction leaves an account with: its lines, less the gross amount.
Net(i, a, t) ==
  IF i.token = t THEN LinesTo(a, i.lines) - (IF i.payer = a THEN i.grossAmount ELSE 0) ELSE 0

SettledNet(st, a, t) == SumOver([k \in DOMAIN st |-> Net(st[k], a, t)], DOMAIN st)

\* The same of a settlement under way, some lines of which are not paid yet.
FrameNet(f, a, t) ==
  IF f.instruction = NoInstruction THEN 0
  ELSE Net(f.instruction, a, t) - (IF t = "NATIVE_TOKEN" THEN LinesTo(a, f.lines) ELSE 0)

\* Of the first n frames: what the adapter has to pay, what an account is left with.
Owed(F, n) == SumOver([k \in DOMAIN F |-> Total(F[k].lines)], 1..n)
PendingNet(F, n, a, t) == SumOver([k \in DOMAIN F |-> FrameNet(F[k], a, t)], 1..n)

\* The balances are what bonds, settlements and the first n frames make them.
Exact(b, sv, st, F, n) ==
  /\ b["NATIVE_TOKEN"][registry] = AllBonds(sv)
  /\ b["NATIVE_TOKEN"][adapter] = Owed(F, n)
  /\ \A a \in Account, t \in Asset :
       b[t][a] + (IF t = "NATIVE_TOKEN" THEN BondsBy(sv, a) ELSE 0)
         = Endowment + SettledNet(st, a, t) + PendingNet(F, n, a, t)

SavedExact(s, F, n) == Exact(s.balance, s.solvers, s.settlements, F, n)

\* Only native settlements call foreign code with lines left to pay.
FrameOK(f) ==
  IF f.instruction = NoInstruction THEN f.lines = << >>
  ELSE f.instruction.token = "NATIVE_TOKEN"

StackOK(F) ==
  /\ F \in Seq(FrameSet)
  /\ \A k \in DOMAIN F : FrameOK(F[k]) /\ SavedExact(F[k].saved, F, k - 1)

\* One balance map is the other one with an amount moved.
Shifted(b, c, t, from, to, amount) ==
  /\ c[t][to] = b[t][to] + amount /\ c[t][from] = b[t][from] - amount
  /\ \A u \in Asset, h \in Holder : u # t \/ (h # to /\ h # from) => c[u][h] = b[u][h]

\* One list of solvers is the other one with the bond of an operator grown.
BondsPlus(sv, from, a, v) ==
  /\ BondsBy(sv, a) = BondsBy(from, a) + v
  /\ \A c : c # a => BondsBy(sv, c) = BondsBy(from, c)

\* The balances are exact but for a settlement that has still to pay `lines'.
Due(b, sv, st, F, lines, i) ==
  /\ b["NATIVE_TOKEN"][registry] = AllBonds(sv)
  /\ b["NATIVE_TOKEN"][adapter] = Owed(F, Len(F)) + Total(lines)
  /\ \A a \in Account, t \in Asset :
       b[t][a] + (IF t = "NATIVE_TOKEN" THEN BondsBy(sv, a) ELSE 0)
         = Endowment + SettledNet(st, a, t) + PendingNet(F, Len(F), a, t)
             + (Net(i, a, t) - (IF t = "NATIVE_TOKEN" THEN LinesTo(a, lines) ELSE 0))

\* The recipient and the amount of the first line, and the other lines.
Parted(lines, r, x, rest) ==
  r = Head(lines).recipient /\ x = Head(lines).amount /\ rest = Tail(lines)

\* The record of one solver is replaced.
Replaced(tt, sv, id, r) == tt = [sv EXCEPT ![id] = r]

IInv ==
  /\ balance \in Balances /\ solvers \in Seq(SolverRecord)
  /\ solverByOperator \in [Account -> Nat] /\ settlements \in Seq(Instructions)
  /\ StackOK(frames)
  /\ Exact(balance, solvers, settlements, frames, Len(frames))

----------------------------------------------------------------------------
(* Lines.                                                                  *)

\* The indices of a sequence are finitely many.
LEMMA Indices ==
  /\ \A n \in Nat : IsFiniteSet(1..n)
  /\ \A S : \A s \in Seq(S) : IsFiniteSet(DOMAIN s)
<1>1. ASSUME NEW n \in Nat PROVE IsFiniteSet(1..n)
  BY FS_Interval
<1>2. ASSUME NEW S, NEW s \in Seq(S) PROVE IsFiniteSet(DOMAIN s)
  BY <1>1
<1> QED BY <1>1, <1>2

\* Lines sum to naturals.
LEMMA LinesType ==
  ASSUME NEW lines \in Seq(Line)
  PROVE  /\ Total(lines) \in Nat
         /\ \A h : LinesTo(h, lines) \in Nat
<1>1. \A k \in DOMAIN lines : AmountsOf(lines)[k] \in Nat
  <2>1. \A k \in DOMAIN lines : lines[k] \in Line
    OBVIOUS
  <2> QED BY <2>1 DEF AmountsOf, Line
<1>2. IsFiniteSet(DOMAIN lines)
  BY Indices
<1>3. Total(lines) \in Nat
  BY <1>1, <1>2, SumType DEF Total
<1>4. ASSUME NEW h PROVE LinesTo(h, lines) \in Nat
  <2> DEFINE K == {k \in DOMAIN lines : lines[k].recipient = h}
  <2>1. IsFiniteSet(K) /\ \A k \in K : AmountsOf(lines)[k] \in Nat
    BY <1>1, <1>2, FS_Subset
  <2>2. SumOver(AmountsOf(lines), K) \in Nat
    BY <2>1, SumType
  <2> QED BY <2>2 DEF LinesTo
<1> QED BY <1>3, <1>4

\* No lines sum to nothing.
LEMMA NoLines == Total(<< >>) = 0 /\ \A h : LinesTo(h, << >>) = 0
<1>1. DOMAIN << >> = {} /\ \A h : {k \in DOMAIN << >> : << >>[k].recipient = h} = {}
  OBVIOUS
<1> QED BY <1>1, SumEmpty DEF Total, LinesTo

\* Taking the first line off.
LEMMA FirstLine ==
  ASSUME NEW lines \in Seq(Line), lines # << >>
  PROVE  /\ Head(lines) \in Line /\ Tail(lines) \in Seq(Line)
         /\ Total(lines) = Head(lines).amount + Total(Tail(lines))
         /\ \A h : LinesTo(h, lines)
                     = (IF Head(lines).recipient = h THEN Head(lines).amount ELSE 0)
                       + LinesTo(h, Tail(lines))
<1> DEFINE rest == Tail(lines)
<1>1. PICK m \in Nat : Len(lines) = m + 1
  <2>1. Len(lines) = (Len(lines) - 1) + 1 /\ Len(lines) - 1 \in Nat
    OBVIOUS
  <2> QED BY <2>1
<1>2. /\ DOMAIN lines = 1..(m + 1) /\ Head(lines) = lines[1] /\ Head(lines) \in Line
      /\ rest \in Seq(Line) /\ DOMAIN rest = 1..m /\ \A k \in 1..m : rest[k] = lines[k + 1]
      /\ \A k \in 1..(m + 1) : lines[k] \in Line
  BY <1>1
<1> HIDE DEF rest
<1>3. /\ \A k \in 1..(m + 1) : lines[k].amount \in Nat
      /\ \A k \in 1..m : k \in 1..(m + 1) /\ k + 1 \in 1..(m + 1)
      /\ 1 \in 1..(m + 1)
  BY <1>2 DEF Line
<1>4. Total(lines) = Head(lines).amount + Total(rest)
  <2>1. /\ \A k \in 1..(m + 1) : AmountsOf(lines)[k] = lines[k].amount
        /\ \A k \in 1..(m + 1) : AmountsOf(lines)[k] \in Int
        /\ \A k \in 1..m : AmountsOf(rest)[k] = AmountsOf(lines)[k + 1]
    BY <1>2, <1>3 DEF AmountsOf
  <2>2. SumOver(AmountsOf(lines), 1..(m + 1)) = AmountsOf(lines)[1] + SumOver(AmountsOf(rest), 1..m)
    BY <2>1, SumShift
  <2> QED BY <1>2, <1>3, <2>1, <2>2 DEF Total
<1>5. ASSUME NEW h
      PROVE  LinesTo(h, lines)
               = (IF Head(lines).recipient = h THEN Head(lines).amount ELSE 0) + LinesTo(h, rest)
  <2> DEFINE f == [k \in DOMAIN lines |-> IF lines[k].recipient = h THEN lines[k].amount ELSE 0]
             g == [k \in DOMAIN rest |-> IF rest[k].recipient = h THEN rest[k].amount ELSE 0]
             K == {k \in DOMAIN lines : lines[k].recipient = h}
             L == {k \in DOMAIN rest : rest[k].recipient = h}
  <2>1. /\ \A k \in 1..(m + 1) : f[k] \in Int
        /\ \A k \in 1..m : g[k] = f[k + 1]
        /\ f[1] = IF Head(lines).recipient = h THEN Head(lines).amount ELSE 0
    BY <1>2, <1>3
  <2>2. IsFiniteSet(DOMAIN lines) /\ IsFiniteSet(DOMAIN rest)
    BY <1>2, Indices
  <2>3. /\ K \in SUBSET DOMAIN lines /\ \A k \in DOMAIN lines \ K : f[k] = 0
        /\ \A k \in K : AmountsOf(lines)[k] \in Int /\ f[k] = AmountsOf(lines)[k]
    BY <1>2, <1>3 DEF AmountsOf
  <2>4. /\ L \in SUBSET DOMAIN rest /\ \A k \in DOMAIN rest \ L : g[k] = 0
        /\ \A k \in L : AmountsOf(rest)[k] \in Int /\ g[k] = AmountsOf(rest)[k]
    BY <1>2, <1>3 DEF AmountsOf
  <2>5. LinesTo(h, lines) = SumOver(AmountsOf(lines), K) /\ LinesTo(h, rest) = SumOver(AmountsOf(rest), L)
    BY DEF LinesTo
  <2> HIDE DEF f, g, K, L
  <2>6. SumOver(f, DOMAIN lines) = SumOver(AmountsOf(lines), K)
    BY <2>2, <2>3, SumWhere
  <2>7. SumOver(g, DOMAIN rest) = SumOver(AmountsOf(rest), L)
    BY <2>2, <2>4, SumWhere
  <2>8. SumOver(f, 1..(m + 1)) = f[1] + SumOver(g, 1..m)
    BY <2>1, SumShift
  <2> QED BY <1>2, <2>1, <2>5, <2>6, <2>7, <2>8
<1> QED BY <1>2, <1>4, <1>5 DEF rest

----------------------------------------------------------------------------
(* Bonds and settlements.                                                  *)

\* Bonds sum to integers.
LEMMA BondsType ==
  ASSUME NEW sv \in Seq(SolverRecord)
  PROVE  AllBonds(sv) \in Int /\ \A a : BondsBy(sv, a) \in Int
<1>1. IsFiniteSet(DOMAIN sv)
  BY Indices
<1>2. \A k \in DOMAIN sv : sv[k].bond \in Int
  <2>1. \A k \in DOMAIN sv : sv[k] \in SolverRecord
    OBVIOUS
  <2> QED BY <2>1 DEF SolverRecord
<1> QED BY <1>1, <1>2, SumType DEF AllBonds, BondsBy

\* One solver more.
LEMMA BondsAppend ==
  ASSUME NEW sv \in Seq(SolverRecord), NEW e \in SolverRecord
  PROVE  /\ AllBonds(Append(sv, e)) = AllBonds(sv) + e.bond
         /\ \A a : BondsBy(Append(sv, e), a)
                     = BondsBy(sv, a) + (IF e.operator = a THEN e.bond ELSE 0)
<1> DEFINE tt == Append(sv, e)
           n == Len(sv)
<1>1. /\ n \in Nat /\ DOMAIN sv = 1..n /\ DOMAIN tt = 1..(n + 1) /\ tt[n + 1] = e
      /\ \A k \in 1..n : tt[k] = sv[k] /\ sv[k] \in SolverRecord /\ k \in 1..(n + 1)
      /\ n + 1 \in 1..(n + 1)
  OBVIOUS
<1> HIDE DEF tt, n
<1>2. e.bond \in Int /\ \A k \in 1..n : sv[k].bond \in Int
  BY <1>1 DEF SolverRecord
<1>3. AllBonds(tt) = AllBonds(sv) + e.bond
  <2> DEFINE f == [k \in DOMAIN sv |-> sv[k].bond]
             g == [k \in DOMAIN tt |-> tt[k].bond]
  <2>1. /\ \A k \in 1..n : f[k] \in Int /\ g[k] = f[k]
        /\ g[n + 1] = e.bond /\ g[n + 1] \in Int
    BY <1>1, <1>2
  <2>2. SumOver(g, 1..(n + 1)) = SumOver(f, 1..n) + g[n + 1]
    <3> HIDE DEF f, g
    <3> QED BY <1>1, <2>1, SumNext
  <2> QED BY <1>1, <2>1, <2>2 DEF AllBonds
<1>4. ASSUME NEW a
      PROVE  BondsBy(tt, a) = BondsBy(sv, a) + (IF e.operator = a THEN e.bond ELSE 0)
  <2> DEFINE f == [k \in DOMAIN sv |-> IF sv[k].operator = a THEN sv[k].bond ELSE 0]
             g == [k \in DOMAIN tt |-> IF tt[k].operator = a THEN tt[k].bond ELSE 0]
  <2>1. /\ \A k \in 1..n : f[k] \in Int /\ g[k] = f[k]
        /\ g[n + 1] = (IF e.operator = a THEN e.bond ELSE 0) /\ g[n + 1] \in Int
    BY <1>1, <1>2
  <2>2. SumOver(g, 1..(n + 1)) = SumOver(f, 1..n) + g[n + 1]
    <3> HIDE DEF f, g
    <3> QED BY <1>1, <2>1, SumNext
  <2> QED BY <1>1, <2>1, <2>2 DEF BondsBy
<1> QED BY <1>3, <1>4 DEF tt

\* One solver's record replaced by another one of its operator's.
LEMMA BondsChange ==
  ASSUME NEW sv \in Seq(SolverRecord), NEW id \in DOMAIN sv, NEW r \in SolverRecord,
         r.operator = sv[id].operator, NEW v \in Int, r.bond = sv[id].bond + v,
         NEW tt, Replaced(tt, sv, id, r)
  PROVE  /\ tt \in Seq(SolverRecord)
         /\ AllBonds(tt) = AllBonds(sv) + v
         /\ BondsPlus(tt, sv, r.operator, v)
<1>1. /\ tt \in Seq(SolverRecord) /\ DOMAIN tt = DOMAIN sv /\ tt[id] = r
      /\ \A k \in DOMAIN sv \ {id} : tt[k] = sv[k]
      /\ \A k \in DOMAIN sv : sv[k] \in SolverRecord
  BY DEF Replaced
<1>2. \A k \in DOMAIN sv : sv[k].bond \in Int /\ tt[k].bond \in Int
  BY <1>1 DEF SolverRecord
<1>3. IsFiniteSet(DOMAIN sv)
  BY Indices
<1>4. AllBonds(tt) = AllBonds(sv) - sv[id].bond + r.bond
  <2> DEFINE f == [k \in DOMAIN sv |-> sv[k].bond]
             g == [k \in DOMAIN tt |-> tt[k].bond]
  <2>1. /\ \A k \in DOMAIN sv : f[k] \in Int /\ g[k] \in Int
        /\ \A k \in DOMAIN sv \ {id} : f[k] = g[k]
        /\ f[id] = sv[id].bond /\ g[id] = r.bond
    BY <1>1, <1>2
  <2>2. SumOver(g, DOMAIN sv) = SumOver(f, DOMAIN sv) - f[id] + g[id]
    <3> HIDE DEF f, g
    <3> QED BY <1>3, <2>1, SumChange
  <2> QED BY <1>1, <2>1, <2>2 DEF AllBonds
<1>5. AllBonds(sv) \in Int /\ sv[id].bond \in Int /\ \A a : BondsBy(sv, a) \in Int
  BY <1>2, BondsType
<1>6. ASSUME NEW a
      PROVE  BondsBy(tt, a) = IF r.operator = a THEN BondsBy(sv, a) + v ELSE BondsBy(sv, a)
  <2> DEFINE f == [k \in DOMAIN sv |-> IF sv[k].operator = a THEN sv[k].bond ELSE 0]
             g == [k \in DOMAIN tt |-> IF tt[k].operator = a THEN tt[k].bond ELSE 0]
  <2>1. /\ \A k \in DOMAIN sv : f[k] \in Int /\ g[k] \in Int
        /\ \A k \in DOMAIN sv \ {id} : f[k] = g[k]
    BY <1>1, <1>2
  <2>2. SumOver(g, DOMAIN sv) = SumOver(f, DOMAIN sv) - f[id] + g[id]
    <3> HIDE DEF f, g
    <3> QED BY <1>3, <2>1, SumChange
  <2>3. /\ r.operator = a => f[id] = sv[id].bond /\ g[id] = r.bond
        /\ r.operator # a => f[id] = 0 /\ g[id] = 0
    BY <1>1, <1>2
  <2>4. BondsBy(tt, a) = SumOver(g, DOMAIN sv) /\ BondsBy(sv, a) = SumOver(f, DOMAIN sv)
    BY <1>1 DEF BondsBy
  <2> HIDE DEF f, g
  <2>5. BondsBy(tt, a) = BondsBy(sv, a) - f[id] + g[id]
    BY <2>2, <2>4
  <2>6. CASE r.operator = a
    BY <1>5, <2>3, <2>5, <2>6
  <2>7. CASE r.operator # a
    BY <1>5, <2>3, <2>5, <2>7
  <2> QED BY <2>6, <2>7
<1>7. BondsPlus(tt, sv, r.operator, v)
  BY <1>6 DEF BondsPlus
<1>8. AllBonds(tt) = AllBonds(sv) + v
  BY <1>4, <1>5
<1> QED BY <1>1, <1>7, <1>8

\* What an instruction leaves an account with is an integer.
LEMMA NetType ==
  ASSUME NEW i \in Instructions
  PROVE  i.lines \in Seq(Line) /\ i.grossAmount \in Nat /\ \A a, t : Net(i, a, t) \in Int
<1>1. i \in Instruction
  OBVIOUS
<1>2. i.lines \in Seq(Line) /\ i.grossAmount \in Nat
  BY <1>1 DEF Instruction
<1> QED BY <1>2, LinesType DEF Net

\* One settlement more.
LEMMA SettledAppend ==
  ASSUME NEW st \in Seq(Instructions), NEW i \in Instructions, NEW a, NEW t
  PROVE  /\ SettledNet(st, a, t) \in Int
         /\ SettledNet(Append(st, i), a, t) = SettledNet(st, a, t) + Net(i, a, t)
<1> DEFINE tt == Append(st, i)
           n == Len(st)
           f == [k \in DOMAIN st |-> Net(st[k], a, t)]
           g == [k \in DOMAIN tt |-> Net(tt[k], a, t)]
<1>1. /\ n \in Nat /\ DOMAIN st = 1..n /\ DOMAIN tt = 1..(n + 1) /\ tt[n + 1] = i
      /\ \A k \in 1..n : tt[k] = st[k] /\ st[k] \in Instructions /\ k \in 1..(n + 1)
      /\ n + 1 \in 1..(n + 1)
  OBVIOUS
<1> HIDE DEF tt, n
<1>2. /\ \A k \in 1..n : f[k] \in Int /\ g[k] = f[k]
      /\ g[n + 1] = Net(i, a, t) /\ g[n + 1] \in Int
  BY <1>1, NetType
<1>3. SettledNet(st, a, t) = SumOver(f, 1..n) /\ SettledNet(tt, a, t) = SumOver(g, 1..(n + 1))
  BY <1>1 DEF SettledNet
<1> HIDE DEF f, g
<1>4. SumOver(g, 1..(n + 1)) = SumOver(f, 1..n) + g[n + 1]
  BY <1>1, <1>2, SumNext
<1>5. SumOver(f, 1..n) \in Int
  BY <1>1, <1>2, Indices, SumType
<1> QED BY <1>2, <1>3, <1>4, <1>5 DEF tt

----------------------------------------------------------------------------
(* Frames.                                                                 *)

\* The contribution of a frame is an integer.
LEMMA FrameType ==
  ASSUME NEW f \in FrameSet
  PROVE  Total(f.lines) \in Nat /\ \A a, t : FrameNet(f, a, t) \in Int
<1>1. f.lines \in Seq(Line) /\ f.instruction \in Instructions \cup {NoInstruction}
  BY DEF FrameSet
<1>2. Total(f.lines) \in Nat /\ \A h : LinesTo(h, f.lines) \in Nat
  BY <1>1, LinesType
<1>3. ASSUME NEW a, NEW t PROVE FrameNet(f, a, t) \in Int
  <2>1. CASE f.instruction = NoInstruction
    BY <2>1 DEF FrameNet
  <2>2. CASE f.instruction # NoInstruction
    <3>1. Net(f.instruction, a, t) \in Int
      BY <1>1, <2>2, NetType
    <3> QED BY <1>2, <2>2, <3>1 DEF FrameNet
  <2> QED BY <2>1, <2>2
<1> QED BY <1>2, <1>3

\* The first n frames and the one after them.
LEMMA FramesNext ==
  ASSUME NEW F \in Seq(FrameSet), NEW n \in Nat, n + 1 <= Len(F)
  PROVE  /\ Owed(F, n + 1) = Owed(F, n) + Total(F[n + 1].lines)
         /\ \A a, t : PendingNet(F, n + 1, a, t) = PendingNet(F, n, a, t) + FrameNet(F[n + 1], a, t)
<1>1. /\ DOMAIN F = 1..Len(F) /\ Len(F) \in Nat
      /\ \A k \in 1..(n + 1) : k \in DOMAIN F /\ F[k] \in FrameSet
      /\ \A k \in 1..n : k \in 1..(n + 1)
      /\ n + 1 \in 1..(n + 1)
  OBVIOUS
<1>2. Owed(F, n + 1) = Owed(F, n) + Total(F[n + 1].lines)
  <2> DEFINE f == [k \in DOMAIN F |-> Total(F[k].lines)]
  <2>1. /\ \A k \in 1..n : f[k] \in Int
        /\ f[n + 1] = Total(F[n + 1].lines) /\ f[n + 1] \in Int
    BY <1>1, FrameType
  <2>2. SumOver(f, 1..(n + 1)) = SumOver(f, 1..n) + f[n + 1]
    <3> HIDE DEF f
    <3> QED BY <2>1, SumNext
  <2> QED BY <2>1, <2>2 DEF Owed
<1>3. ASSUME NEW a, NEW t
      PROVE  PendingNet(F, n + 1, a, t) = PendingNet(F, n, a, t) + FrameNet(F[n + 1], a, t)
  <2> DEFINE f == [k \in DOMAIN F |-> FrameNet(F[k], a, t)]
  <2>1. /\ \A k \in 1..n : f[k] \in Int
        /\ f[n + 1] = FrameNet(F[n + 1], a, t) /\ f[n + 1] \in Int
    BY <1>1, FrameType
  <2>2. SumOver(f, 1..(n + 1)) = SumOver(f, 1..n) + f[n + 1]
    <3> HIDE DEF f
    <3> QED BY <2>1, SumNext
  <2> QED BY <2>1, <2>2 DEF PendingNet
<1> QED BY <1>2, <1>3

\* What the first n frames sum to depends on them only, and is an integer.
LEMMA FramesAgree ==
  ASSUME NEW F \in Seq(FrameSet), NEW G \in Seq(FrameSet), NEW n \in Nat,
         n <= Len(F), n <= Len(G), \A k \in 1..n : F[k] = G[k]
  PROVE  /\ Owed(F, n) = Owed(G, n) /\ Owed(F, n) \in Int
         /\ \A a, t : PendingNet(F, n, a, t) = PendingNet(G, n, a, t) /\ PendingNet(F, n, a, t) \in Int
<1>1. \A k \in 1..n : k \in DOMAIN F /\ k \in DOMAIN G /\ F[k] \in FrameSet /\ F[k] = G[k]
  OBVIOUS
<1>2. IsFiniteSet(1..n)
  BY Indices
<1>3. Owed(F, n) = Owed(G, n) /\ Owed(F, n) \in Int
  <2> DEFINE f == [k \in DOMAIN F |-> Total(F[k].lines)]
             g == [k \in DOMAIN G |-> Total(G[k].lines)]
  <2>1. \A k \in 1..n : f[k] = g[k] /\ f[k] \in Int
    BY <1>1, FrameType
  <2>2. SumOver(f, 1..n) = SumOver(g, 1..n) /\ SumOver(f, 1..n) \in Int
    <3> HIDE DEF f, g
    <3> QED BY <1>2, <2>1, SumEqual, SumType
  <2> QED BY <2>2 DEF Owed
<1>4. ASSUME NEW a, NEW t
      PROVE  PendingNet(F, n, a, t) = PendingNet(G, n, a, t) /\ PendingNet(F, n, a, t) \in Int
  <2> DEFINE f == [k \in DOMAIN F |-> FrameNet(F[k], a, t)]
             g == [k \in DOMAIN G |-> FrameNet(G[k], a, t)]
  <2>1. \A k \in 1..n : f[k] = g[k] /\ f[k] \in Int
    BY <1>1, FrameType
  <2>2. SumOver(f, 1..n) = SumOver(g, 1..n) /\ SumOver(f, 1..n) \in Int
    <3> HIDE DEF f, g
    <3> QED BY <1>2, <2>1, SumEqual, SumType
  <2> QED BY <2>2 DEF PendingNet
<1> QED BY <1>3, <1>4

\* So being exact for them does.
LEMMA ExactAgrees ==
  ASSUME NEW F \in Seq(FrameSet), NEW G \in Seq(FrameSet), NEW n \in Nat,
         n <= Len(F), n <= Len(G), \A k \in 1..n : F[k] = G[k],
         NEW b, NEW sv, NEW st, Exact(b, sv, st, F, n)
  PROVE  Exact(b, sv, st, G, n)
BY FramesAgree DEF Exact

\* A frame on top.
LEMMA Pushed ==
  ASSUME NEW F, StackOK(F), NEW f \in FrameSet, FrameOK(f), SavedExact(f.saved, F, Len(F))
  PROVE  /\ StackOK(Append(F, f)) /\ Len(Append(F, f)) = Len(F) + 1 /\ Len(F) \in Nat
         /\ Owed(Append(F, f), Len(F) + 1) = Owed(F, Len(F)) + Total(f.lines)
         /\ \A a, t : PendingNet(Append(F, f), Len(F) + 1, a, t)
                        = PendingNet(F, Len(F), a, t) + FrameNet(f, a, t)
<1> DEFINE G == Append(F, f)
           n == Len(F)
<1>1. /\ F \in Seq(FrameSet) /\ G \in Seq(FrameSet) /\ Len(G) = n + 1 /\ n \in Nat
      /\ DOMAIN F = 1..n /\ DOMAIN G = 1..(n + 1)
      /\ G[n + 1] = f /\ \A k \in 1..n : F[k] = G[k]
  BY DEF StackOK
<1> HIDE DEF G, n
<1>2. /\ Owed(G, n + 1) = Owed(F, n) + Total(f.lines)
      /\ \A a, t : PendingNet(G, n + 1, a, t) = PendingNet(F, n, a, t) + FrameNet(f, a, t)
  <2>1. /\ Owed(F, n) = Owed(G, n)
        /\ \A a, t : PendingNet(F, n, a, t) = PendingNet(G, n, a, t)
    <3>1. n <= Len(F) /\ n <= Len(G)
      BY <1>1 DEF n
    <3> QED BY <1>1, <3>1, FramesAgree
  <2>2. n + 1 <= Len(G)
    BY <1>1
  <2> QED BY <1>1, <2>1, <2>2, FramesNext
<1>3. ASSUME NEW k \in 1..(n + 1) PROVE FrameOK(G[k]) /\ SavedExact(G[k].saved, G, k - 1)
  <2>1. FrameOK(G[k]) /\ SavedExact(G[k].saved, F, k - 1)
    BY <1>1 DEF StackOK, n
  <2>2. /\ k - 1 \in Nat /\ k - 1 <= Len(F) /\ k - 1 <= Len(G)
        /\ \A j \in 1..(k - 1) : F[j] = G[j]
    BY <1>1 DEF n
  <2>3. SavedExact(G[k].saved, G, k - 1)
    BY <1>1, <2>1, <2>2, ExactAgrees DEF SavedExact
  <2> QED BY <2>1, <2>3
<1>4. StackOK(G)
  BY <1>1, <1>3 DEF StackOK
<1> QED BY <1>1, <1>2, <1>4 DEF G, n

\* The frame on top and the stack below it.
LEMMA Top ==
  ASSUME NEW F, StackOK(F), F # << >>
  PROVE  LET G == Front(F)
             f == F[Len(F)]
         IN  /\ StackOK(G) /\ Len(F) = Len(G) + 1 /\ Len(G) \in Nat
             /\ f \in FrameSet /\ FrameOK(f) /\ SavedExact(f.saved, G, Len(G))
             /\ Owed(F, Len(F)) = Owed(G, Len(G)) + Total(f.lines)
             /\ \A a, t : PendingNet(F, Len(F), a, t) = PendingNet(G, Len(G), a, t) + FrameNet(f, a, t)
<1> DEFINE G == Front(F)
           f == F[Len(F)]
<1>1. PICK n \in Nat : Len(F) = n + 1
  <2>1. Len(F) = (Len(F) - 1) + 1 /\ Len(F) - 1 \in Nat
    BY DEF StackOK
  <2> QED BY <2>1
<1>2. /\ F \in Seq(FrameSet) /\ DOMAIN F = 1..(n + 1) /\ f = F[n + 1] /\ f \in FrameSet
      /\ G \in Seq(FrameSet) /\ Len(G) = n /\ DOMAIN G = 1..n /\ \A k \in 1..n : F[k] = G[k]
  <2>1. F \in Seq(FrameSet) /\ DOMAIN F = 1..(n + 1) /\ f = F[n + 1] /\ f \in FrameSet
    BY <1>1 DEF StackOK
  <2>2. G = SubSeq(F, 1, n)
    BY <1>1 DEF Front
  <2> HIDE DEF G
  <2> QED BY <1>1, <2>1, <2>2
<1> HIDE DEF G, f
<1>3. /\ Owed(F, n + 1) = Owed(G, n) + Total(f.lines)
      /\ \A a, t : PendingNet(F, n + 1, a, t) = PendingNet(G, n, a, t) + FrameNet(f, a, t)
  <2>1. n <= Len(F) /\ n <= Len(G) /\ n + 1 <= Len(F)
    BY <1>1, <1>2
  <2>2. /\ Owed(F, n) = Owed(G, n)
        /\ \A a, t : PendingNet(F, n, a, t) = PendingNet(G, n, a, t)
    BY <1>2, <2>1, FramesAgree
  <2> QED BY <1>2, <2>1, <2>2, FramesNext
<1>4. \A k \in 1..(n + 1) : FrameOK(F[k]) /\ SavedExact(F[k].saved, G, k - 1)
  <2> SUFFICES ASSUME NEW k \in 1..(n + 1)
               PROVE  FrameOK(F[k]) /\ SavedExact(F[k].saved, G, k - 1)
    OBVIOUS
  <2>1. FrameOK(F[k]) /\ SavedExact(F[k].saved, F, k - 1)
    BY <1>2 DEF StackOK
  <2>2. /\ k - 1 \in Nat /\ k - 1 <= Len(F) /\ k - 1 <= Len(G)
        /\ \A j \in 1..(k - 1) : F[j] = G[j]
    BY <1>1, <1>2
  <2> QED BY <1>2, <2>1, <2>2, ExactAgrees DEF SavedExact
<1>5. StackOK(G)
  BY <1>2, <1>4 DEF StackOK
<1>6. FrameOK(f) /\ SavedExact(f.saved, G, n)
  <2>1. (n + 1) - 1 = n /\ n + 1 \in 1..(n + 1)
    OBVIOUS
  <2> QED BY <1>2, <1>4, <2>1
<1> QED BY <1>1, <1>2, <1>3, <1>5, <1>6 DEF G, f

----------------------------------------------------------------------------
(* The steps.                                                              *)

\* All the sums are integers.
LEMMA SumsType ==
  ASSUME IInv
  PROVE  /\ AllBonds(solvers) \in Int /\ \A a : BondsBy(solvers, a) \in Int
         /\ \A a, t : SettledNet(settlements, a, t) \in Int
         /\ Owed(frames, Len(frames)) \in Int
         /\ \A a, t : PendingNet(frames, Len(frames), a, t) \in Int
         /\ \A t \in Asset, h \in Holder : balance[t][h] \in Int
<1>1. AllBonds(solvers) \in Int /\ \A a : BondsBy(solvers, a) \in Int
  BY BondsType DEF IInv
<1>2. ASSUME NEW a, NEW t PROVE SettledNet(settlements, a, t) \in Int
  <2>1. \A k \in DOMAIN settlements : Net(settlements[k], a, t) \in Int
    BY NetType DEF IInv
  <2>2. IsFiniteSet(DOMAIN settlements)
    BY Indices DEF IInv
  <2> QED BY <2>1, <2>2, SumType DEF SettledNet
<1>3. /\ Owed(frames, Len(frames)) \in Int
      /\ \A a, t : PendingNet(frames, Len(frames), a, t) \in Int
  <2>1. frames \in Seq(FrameSet) /\ Len(frames) \in Nat /\ Len(frames) <= Len(frames)
    BY DEF IInv, StackOK
  <2> QED BY <2>1, FramesAgree
<1>4. \A t \in Asset, h \in Holder : balance[t][h] \in Int
  BY DEF IInv, Balances
<1> QED BY <1>1, <1>2, <1>3, <1>4

\* What the holders own after a transfer.
LEMMA MovedIs ==
  ASSUME NEW b \in Balances, NEW t \in Asset, NEW from \in Holder, NEW to \in Holder, from # to,
         NEW amount \in Int
  PROVE  /\ Moved(b, t, from, to, amount) \in Balances
         /\ Shifted(b, Moved(b, t, from, to, amount), t, from, to, amount)
<1> DEFINE row == [h \in Holder |-> b[t][h] + (IF h = to THEN amount ELSE 0)
                                             - (IF h = from THEN amount ELSE 0)]
           c == Moved(b, t, from, to, amount)
<1>1. c = [b EXCEPT ![t] = row]
  BY DEF Moved, Balances
<1>2. row \in [Holder -> Int]
  BY DEF Balances
<1>3. \A h \in Holder : b[t][h] \in Int
  BY DEF Balances
<1>4. row[to] = b[t][to] + amount /\ row[from] = b[t][from] - amount
  <2>1. row[to] = b[t][to] + amount - 0
    OBVIOUS
  <2>2. row[from] = b[t][from] + 0 - amount
    OBVIOUS
  <2> HIDE DEF row
  <2> QED BY <2>1, <2>2, <1>3
<1>5. ASSUME NEW h \in Holder, h # to, h # from PROVE row[h] = b[t][h]
  <2>1. row[h] = b[t][h] + 0 - 0
    BY <1>5
  <2> HIDE DEF row
  <2> QED BY <2>1, <1>3
<1> HIDE DEF row, c
<1>6. c \in Balances /\ c[t] = row /\ \A u \in Asset : u # t => c[u] = b[u]
  BY <1>1, <1>2 DEF Balances
<1>7. Shifted(b, c, t, from, to, amount)
  BY <1>4, <1>5, <1>6 DEF Shifted
<1> QED BY <1>6, <1>7 DEF c

\* A transfer is the opposite one of the opposite amount.
LEMMA ShiftedBack ==
  ASSUME NEW b \in Balances, NEW t \in Asset, NEW from \in Holder, NEW to \in Holder,
         NEW amount \in Int, NEW c, Shifted(b, c, t, from, to, amount)
  PROVE  Shifted(b, c, t, to, from, -amount)
<1>1. b[t][from] \in Int /\ b[t][to] \in Int
  BY DEF Balances
<1>2. c[t][from] = b[t][from] + (-amount) /\ c[t][to] = b[t][to] - (-amount)
  BY <1>1 DEF Shifted
<1> QED BY <1>2 DEF Shifted

\* The names of the parties.
LEMMA Parties ==
  /\ registry \in Holder /\ adapter \in Holder /\ registry # adapter
  /\ \A a \in Account : a \in Holder /\ a # registry /\ a # adapter
  /\ "NATIVE_TOKEN" \in Asset /\ "ERC20" \in Asset /\ "ERC20" # "NATIVE_TOKEN"
BY DEF Holder, Asset

\* Ether that goes into the registry, or out of it, with a bond that changes alike.
LEMMA BondMoves ==
  ASSUME IInv, NEW a \in Account, NEW v \in Int, NEW sv,
         AllBonds(sv) = AllBonds(solvers) + v, BondsPlus(sv, solvers, a, v),
         NEW b, Shifted(balance, b, "NATIVE_TOKEN", a, registry, v)
  PROVE  Exact(b, sv, settlements, frames, Len(frames))
<1>1. /\ balance["NATIVE_TOKEN"][registry] = AllBonds(solvers)
      /\ balance["NATIVE_TOKEN"][adapter] = Owed(frames, Len(frames))
      /\ \A c \in Account, t \in Asset :
           balance[t][c] + (IF t = "NATIVE_TOKEN" THEN BondsBy(solvers, c) ELSE 0)
             = Endowment + SettledNet(settlements, c, t) + PendingNet(frames, Len(frames), c, t)
  BY DEF IInv, Exact
<1>2. /\ b["NATIVE_TOKEN"][registry] = balance["NATIVE_TOKEN"][registry] + v
      /\ b["NATIVE_TOKEN"][a] = balance["NATIVE_TOKEN"][a] - v
      /\ \A u \in Asset, h \in Holder :
           u # "NATIVE_TOKEN" \/ (h # registry /\ h # a) => b[u][h] = balance[u][h]
  BY DEF Shifted
<1>3. /\ BondsBy(sv, a) = BondsBy(solvers, a) + v
      /\ \A c : c # a => BondsBy(sv, c) = BondsBy(solvers, c)
  BY DEF BondsPlus
<1>4. /\ b["NATIVE_TOKEN"][registry] = AllBonds(sv)
      /\ b["NATIVE_TOKEN"][adapter] = Owed(frames, Len(frames))
  BY <1>1, <1>2, Parties
<1>5. ASSUME NEW c \in Account, NEW t \in Asset
      PROVE  b[t][c] + (IF t = "NATIVE_TOKEN" THEN BondsBy(sv, c) ELSE 0)
               = Endowment + SettledNet(settlements, c, t) + PendingNet(frames, Len(frames), c, t)
  <2>1. c \in Holder /\ c # registry
    BY Parties
  <2>2. CASE t = "NATIVE_TOKEN" /\ c = a
    <3>1. balance["NATIVE_TOKEN"][a] \in Int /\ BondsBy(solvers, a) \in Int
      BY Parties, SumsType
    <3>2. b["NATIVE_TOKEN"][a] + BondsBy(sv, a) = balance["NATIVE_TOKEN"][a] + BondsBy(solvers, a)
      BY <1>2, <1>3, <3>1
    <3> QED BY <1>1, <2>2, <3>2
  <2>3. CASE ~(t = "NATIVE_TOKEN" /\ c = a)
    <3>1. b[t][c] = balance[t][c]
      BY <1>2, <2>1, <2>3
    <3>2. t = "NATIVE_TOKEN" => BondsBy(sv, c) = BondsBy(solvers, c)
      BY <1>3, <2>3
    <3> QED BY <1>1, <3>1, <3>2
  <2> QED BY <2>2, <2>3
<1> QED BY <1>4, <1>5 DEF Exact

\* A solver registers with a bond.
LEMMA RegisterInv ==
  ASSUME IInv, NEW sender \in Account, NEW value \in Amounts, RegisterSolver(sender, value)
  PROVE  IInv'
<1> DEFINE e == [operator |-> sender, bond |-> value, active |-> TRUE]
<1>1. value \in Int /\ e \in SolverRecord /\ e.operator = sender /\ e.bond = value
  BY DEF SolverRecord
<1>2. /\ solvers' = Append(solvers, e)
      /\ solverByOperator' = [solverByOperator EXCEPT ![sender] = Len(solvers) + 1]
      /\ balance' = Moved(balance, "NATIVE_TOKEN", sender, registry, value)
      /\ settlements' = settlements /\ frames' = frames
  BY DEF RegisterSolver
<1>3. /\ balance \in Balances /\ solvers \in Seq(SolverRecord)
      /\ solverByOperator \in [Account -> Nat] /\ settlements \in Seq(Instructions)
      /\ StackOK(frames)
  BY DEF IInv
<1> HIDE DEF e
<1>4. AllBonds(solvers') = AllBonds(solvers) + value /\ BondsPlus(solvers', solvers, sender, value)
  <2>1. /\ AllBonds(solvers') = AllBonds(solvers) + value
        /\ \A c : BondsBy(solvers', c) = BondsBy(solvers, c) + (IF sender = c THEN value ELSE 0)
    BY <1>1, <1>2, <1>3, BondsAppend
  <2>2. \A c : BondsBy(solvers, c) \in Int
    BY SumsType
  <2> QED BY <1>1, <2>1, <2>2 DEF BondsPlus
<1>5. /\ balance' \in Balances
      /\ Shifted(balance, balance', "NATIVE_TOKEN", sender, registry, value)
  BY <1>1, <1>2, <1>3, Parties, MovedIs
<1>6. Exact(balance', solvers', settlements, frames, Len(frames))
  BY <1>1, <1>4, <1>5, BondMoves
<1>7. solvers' \in Seq(SolverRecord) /\ solverByOperator' \in [Account -> Nat]
  BY <1>1, <1>2, <1>3
<1> QED BY <1>2, <1>3, <1>5, <1>6, <1>7 DEF IInv

\* The operator of a solver is an account.
LEMMA SolverIs ==
  ASSUME IInv, NEW sender \in Account, NEW id, Operates(sender, id)
  PROVE  /\ id \in DOMAIN solvers /\ solvers[id] \in SolverRecord /\ solvers[id].bond \in Int
         /\ solvers[id].operator = sender
<1>1. id \in DOMAIN solvers /\ solvers[id].operator = sender
  BY DEF Operates
<1>2. solvers[id] \in SolverRecord
  BY <1>1 DEF IInv
<1> QED BY <1>1, <1>2 DEF SolverRecord

\* A solver pauses, or comes back.
LEMMA UpdateInv ==
  ASSUME IInv, NEW sender \in Account, NEW id, NEW active \in BOOLEAN,
         UpdateSolver(sender, id, active)
  PROVE  IInv'
<1> DEFINE r == [solvers[id] EXCEPT !.active = active]
<1>1. /\ id \in DOMAIN solvers /\ solvers[id] \in SolverRecord /\ solvers[id].bond \in Int
      /\ solvers[id].operator = sender
  BY SolverIs DEF UpdateSolver
<1>2. r \in SolverRecord /\ r.operator = solvers[id].operator /\ r.bond = solvers[id].bond + 0
  BY <1>1 DEF SolverRecord
<1>a. 0 \in Int
  OBVIOUS
<1>3. /\ Replaced(solvers', solvers, id, r)
      /\ balance' = balance /\ solverByOperator' = solverByOperator
      /\ settlements' = settlements /\ frames' = frames
  BY DEF UpdateSolver, Replaced
<1>4. /\ balance \in Balances /\ solvers \in Seq(SolverRecord)
      /\ solverByOperator \in [Account -> Nat] /\ settlements \in Seq(Instructions)
      /\ StackOK(frames) /\ Exact(balance, solvers, settlements, frames, Len(frames))
  BY DEF IInv
<1> HIDE DEF r
<1>5. /\ solvers' \in Seq(SolverRecord) /\ AllBonds(solvers') = AllBonds(solvers) + 0
      /\ BondsPlus(solvers', solvers, r.operator, 0)
  BY <1>1, <1>2, <1>3, <1>4, <1>a, BondsChange
<1>6. AllBonds(solvers') = AllBonds(solvers) /\ \A c : BondsBy(solvers', c) = BondsBy(solvers, c)
  BY <1>5, SumsType DEF BondsPlus
<1>7. Exact(balance, solvers', settlements, frames, Len(frames))
  BY <1>4, <1>6 DEF Exact
<1> QED BY <1>3, <1>4, <1>5, <1>7 DEF IInv

\* The bond of a solver set to what it was and some more, or less.
LEMMA BondSet ==
  ASSUME IInv, NEW sender \in Account, NEW id, Operates(sender, id), NEW v \in Int,
         NEW sv, Replaced(sv, solvers, id, [solvers[id] EXCEPT !.bond = solvers[id].bond + v])
  PROVE  /\ sv \in Seq(SolverRecord) /\ AllBonds(sv) = AllBonds(solvers) + v
         /\ BondsPlus(sv, solvers, sender, v)
<1> DEFINE r == [solvers[id] EXCEPT !.bond = solvers[id].bond + v]
<1>1. /\ id \in DOMAIN solvers /\ solvers[id] \in SolverRecord /\ solvers[id].bond \in Int
      /\ solvers[id].operator = sender
  BY SolverIs
<1>2. r \in SolverRecord /\ r.operator = sender /\ r.bond = solvers[id].bond + v
  BY <1>1 DEF SolverRecord
<1>3. Replaced(sv, solvers, id, r)
  OBVIOUS
<1>4. solvers \in Seq(SolverRecord)
  BY DEF IInv
<1> HIDE DEF r
<1>5. /\ sv \in Seq(SolverRecord) /\ AllBonds(sv) = AllBonds(solvers) + v
      /\ BondsPlus(sv, solvers, r.operator, v)
  BY <1>1, <1>2, <1>3, <1>4, BondsChange
<1> QED BY <1>2, <1>5

\* A bond grows.
LEMMA AddBondInv ==
  ASSUME IInv, NEW sender \in Account, NEW id, NEW value \in Amounts, AddBond(sender, id, value)
  PROVE  IInv'
<1>1. /\ value \in Int /\ Operates(sender, id)
      /\ balance' = Moved(balance, "NATIVE_TOKEN", sender, registry, value)
      /\ solverByOperator' = solverByOperator /\ settlements' = settlements /\ frames' = frames
  BY DEF AddBond
<1>2. Replaced(solvers', solvers, id, [solvers[id] EXCEPT !.bond = solvers[id].bond + value])
  BY DEF AddBond, Replaced
<1>3. /\ balance \in Balances /\ solverByOperator \in [Account -> Nat]
      /\ settlements \in Seq(Instructions) /\ StackOK(frames)
  BY DEF IInv
<1>4. /\ solvers' \in Seq(SolverRecord) /\ AllBonds(solvers') = AllBonds(solvers) + value
      /\ BondsPlus(solvers', solvers, sender, value)
  BY <1>1, <1>2, BondSet
<1>5. /\ balance' \in Balances
      /\ Shifted(balance, balance', "NATIVE_TOKEN", sender, registry, value)
  BY <1>1, <1>3, Parties, MovedIs
<1>6. Exact(balance', solvers', settlements, frames, Len(frames))
  BY <1>1, <1>4, <1>5, BondMoves
<1> QED BY <1>1, <1>3, <1>4, <1>5, <1>6 DEF IInv

\* What a frame would restore now is exact for the frames below it.
LEMMA SnapshotOK ==
  ASSUME IInv
  PROVE  Snapshot \in Saved /\ SavedExact(Snapshot, frames, Len(frames))
BY DEF IInv, Snapshot, Saved, SavedExact

\* A bond shrinks, and its operator's code runs.
LEMMA WithdrawInv ==
  ASSUME IInv, NEW sender \in Account, NEW id, NEW amount \in Amounts,
         WithdrawBond(sender, id, amount)
  PROVE  IInv'
<1> DEFINE f == Frame(sender, << >>, NoInstruction, Snapshot)
<1>1. /\ amount \in Int /\ -amount \in Int /\ Operates(sender, id)
      /\ balance' = Moved(balance, "NATIVE_TOKEN", registry, sender, amount)
      /\ frames' = Append(frames, f)
      /\ solverByOperator' = solverByOperator /\ settlements' = settlements
  BY DEF WithdrawBond
<1>2. Replaced(solvers', solvers, id, [solvers[id] EXCEPT !.bond = solvers[id].bond + (-amount)])
  <2>1. solvers[id].bond - amount = solvers[id].bond + (-amount)
    BY <1>1, SolverIs
  <2>2. solvers' = [solvers EXCEPT ![id] = [solvers[id] EXCEPT !.bond = solvers[id].bond - amount]]
    BY DEF WithdrawBond, Debited
  <2> QED BY <2>1, <2>2 DEF Replaced
<1>3. /\ balance \in Balances /\ solverByOperator \in [Account -> Nat]
      /\ settlements \in Seq(Instructions) /\ StackOK(frames)
  BY DEF IInv
<1>4. /\ solvers' \in Seq(SolverRecord) /\ AllBonds(solvers') = AllBonds(solvers) + (-amount)
      /\ BondsPlus(solvers', solvers, sender, -amount)
  BY <1>1, <1>2, BondSet
<1>5. /\ balance' \in Balances
      /\ Shifted(balance, balance', "NATIVE_TOKEN", sender, registry, -amount)
  <2>1. /\ balance' \in Balances
        /\ Shifted(balance, balance', "NATIVE_TOKEN", registry, sender, amount)
    BY <1>1, <1>3, Parties, MovedIs
  <2> QED BY <1>1, <1>3, <2>1, Parties, ShiftedBack
<1>6. Exact(balance', solvers', settlements, frames, Len(frames))
  BY <1>1, <1>4, <1>5, BondMoves
<1>7. /\ f \in FrameSet /\ FrameOK(f) /\ f.lines = << >> /\ \A a, t : FrameNet(f, a, t) = 0
      /\ SavedExact(f.saved, frames, Len(frames))
  BY SnapshotOK DEF FrameSet, Frame, FrameOK, FrameNet
<1> HIDE DEF f
<1>8. /\ StackOK(frames') /\ Len(frames') = Len(frames) + 1
      /\ Owed(frames', Len(frames) + 1) = Owed(frames, Len(frames)) + Total(f.lines)
      /\ \A a, t : PendingNet(frames', Len(frames) + 1, a, t)
                     = PendingNet(frames, Len(frames), a, t) + FrameNet(f, a, t)
  BY <1>1, <1>3, <1>7, Pushed
<1>9. /\ Owed(frames', Len(frames')) = Owed(frames, Len(frames))
      /\ \A a, t : PendingNet(frames', Len(frames'), a, t) = PendingNet(frames, Len(frames), a, t)
  BY <1>7, <1>8, NoLines, SumsType
<1>10. Exact(balance', solvers', settlements, frames', Len(frames'))
  BY <1>6, <1>9 DEF Exact
<1> QED BY <1>1, <1>3, <1>4, <1>5, <1>8, <1>10 DEF IInv

\* The arithmetic of a payment received.
Balanced(nb, b, x, due, rest, bonds, s, p, net, q) ==
  /\ nb = b + x /\ due = x + rest
  /\ b + bonds = s + p + (net - due) /\ q = p + (net - rest)

\* The sum that every frame of a payment keeps.
LEMMA BalancedSum ==
  \A nb, due, q : \A b, x, rest, bonds, s, p, net \in Int :
    Balanced(nb, b, x, due, rest, bonds, s, p, net, q) => nb + bonds = s + q
BY DEF Balanced

\* Paying the first of the lines that are due.
LEMMA PayInv ==
  ASSUME NEW b \in Balances, NEW sv \in Seq(SolverRecord), NEW st \in Seq(Instructions),
         NEW F, StackOK(F), NEW i \in Instructions, i.token = "NATIVE_TOKEN",
         NEW lines \in Seq(Line), lines # << >>,
         NEW saved \in Saved, SavedExact(saved, F, Len(F)), Due(b, sv, st, F, lines, i),
         NEW r \in Account, NEW x \in Int, NEW rest, Parted(lines, r, x, rest),
         NEW f, f = Frame(r, rest, i, saved),
         NEW nb, nb = Moved(b, "NATIVE_TOKEN", adapter, r, x), NEW G, G = Append(F, f)
  PROVE  nb \in Balances /\ StackOK(G) /\ Exact(nb, sv, st, G, Len(G))
<1>1. /\ rest \in Seq(Line) /\ Total(lines) = x + Total(rest)
      /\ \A h : LinesTo(h, lines) = (IF r = h THEN x ELSE 0) + LinesTo(h, rest)
  <2>1. /\ Head(lines) \in Line /\ Tail(lines) \in Seq(Line)
        /\ Total(lines) = Head(lines).amount + Total(Tail(lines))
        /\ \A h : LinesTo(h, lines)
                    = (IF Head(lines).recipient = h THEN Head(lines).amount ELSE 0)
                      + LinesTo(h, Tail(lines))
    BY FirstLine
  <2>2. Head(lines).amount \in Nat
    BY <2>1 DEF Line
  <2> QED BY <2>1, <2>2 DEF Parted
<1>2. i # NoInstruction
  <2>1. i.payer \in Account
    BY DEF Instruction
  <2>2. NoInstruction.payer = ZeroAddress
    BY DEF NoInstruction
  <2> QED BY <2>1, <2>2 DEF Holder
<1>3. /\ f \in FrameSet /\ FrameOK(f) /\ f.lines = rest /\ SavedExact(f.saved, F, Len(F))
      /\ \A a, t : FrameNet(f, a, t)
                     = Net(i, a, t) - (IF t = "NATIVE_TOKEN" THEN LinesTo(a, rest) ELSE 0)
  BY <1>1, <1>2 DEF FrameSet, Frame, FrameOK, FrameNet
<1>4. adapter \in Holder /\ r \in Holder /\ adapter # r /\ "NATIVE_TOKEN" \in Asset
  BY Parties
<1>5. nb \in Balances /\ Shifted(b, nb, "NATIVE_TOKEN", adapter, r, x)
  BY <1>1, <1>4, MovedIs
<1>6. /\ StackOK(G) /\ Len(G) = Len(F) + 1
      /\ Owed(G, Len(F) + 1) = Owed(F, Len(F)) + Total(f.lines)
      /\ \A a, t : PendingNet(G, Len(F) + 1, a, t) = PendingNet(F, Len(F), a, t) + FrameNet(f, a, t)
  BY <1>3, Pushed
<1>7. /\ Total(rest) \in Int /\ \A h : LinesTo(h, rest) \in Int
      /\ Owed(F, Len(F)) \in Int /\ \A a, t : PendingNet(F, Len(F), a, t) \in Int
      /\ \A a, t : Net(i, a, t) \in Int /\ SettledNet(st, a, t) \in Int
      /\ \A a : BondsBy(sv, a) \in Int
  <2>1. Total(rest) \in Int /\ \A h : LinesTo(h, rest) \in Int
    <3>1. rest \in Seq(Line)
      BY <1>1
    <3>2. Total(rest) \in Nat /\ \A h : LinesTo(h, rest) \in Nat
      BY <3>1, LinesType
    <3> QED BY <3>2
  <2>2. Owed(F, Len(F)) \in Int /\ \A a, t : PendingNet(F, Len(F), a, t) \in Int
    <3>1. F \in Seq(FrameSet) /\ Len(F) \in Nat /\ Len(F) <= Len(F)
      BY DEF StackOK
    <3> QED BY <3>1, FramesAgree
  <2>3. \A a, t : Net(i, a, t) \in Int /\ SettledNet(st, a, t) \in Int
    BY NetType, SettledAppend
  <2>4. \A a : BondsBy(sv, a) \in Int
    BY BondsType
  <2> QED BY <2>1, <2>2, <2>3, <2>4
<1>8. /\ nb["NATIVE_TOKEN"][registry] = AllBonds(sv)
      /\ nb["NATIVE_TOKEN"][adapter] = Owed(G, Len(G))
  <2>1. nb["NATIVE_TOKEN"][registry] = b["NATIVE_TOKEN"][registry]
    BY <1>5, Parties DEF Shifted
  <2>2. nb["NATIVE_TOKEN"][adapter] = b["NATIVE_TOKEN"][adapter] - x
    BY <1>5 DEF Shifted
  <2>3. b["NATIVE_TOKEN"][adapter] = Owed(F, Len(F)) + (x + Total(rest))
    BY <1>1 DEF Due
  <2>4. Owed(G, Len(G)) = Owed(F, Len(F)) + Total(rest)
    BY <1>3, <1>6
  <2>5. b["NATIVE_TOKEN"][registry] = AllBonds(sv)
    BY DEF Due
  <2> QED BY <1>1, <1>7, <2>1, <2>2, <2>3, <2>4, <2>5
<1>9. ASSUME NEW a \in Account, NEW t \in Asset
      PROVE  nb[t][a] + (IF t = "NATIVE_TOKEN" THEN BondsBy(sv, a) ELSE 0)
               = Endowment + SettledNet(st, a, t) + PendingNet(G, Len(G), a, t)
  <2> DEFINE S == Endowment + SettledNet(st, a, t)
             P == PendingNet(F, Len(F), a, t)
             Q == PendingNet(G, Len(G), a, t)
             N == Net(i, a, t)
             L == LinesTo(a, rest)
             B == BondsBy(sv, a)
  <2>1. b[t][a] + (IF t = "NATIVE_TOKEN" THEN B ELSE 0)
          = S + P + (N - (IF t = "NATIVE_TOKEN" THEN LinesTo(a, lines) ELSE 0))
    BY DEF Due
  <2>2. Q = P + (N - (IF t = "NATIVE_TOKEN" THEN L ELSE 0))
    BY <1>3, <1>6
  <2>3. b[t][a] \in Int /\ S \in Int /\ P \in Int /\ N \in Int /\ L \in Int /\ B \in Int
    <3>1. b[t][a] \in Int /\ Endowment \in Int
      BY Parties DEF Balances
    <3> QED BY <1>7, <3>1
  <2>4. (t = "NATIVE_TOKEN" /\ a = r) => nb[t][a] = b[t][a] + x /\ LinesTo(a, lines) = x + L
    BY <1>1, <1>5 DEF Shifted
  <2>5. ~(t = "NATIVE_TOKEN" /\ a = r) => nb[t][a] = b[t][a]
    BY <1>5, Parties DEF Shifted
  <2>6. a # r => LinesTo(a, lines) = 0 + L
    BY <1>1
  <2>7. nb[t][a] + (IF t = "NATIVE_TOKEN" THEN B ELSE 0) = S + Q
    <3> HIDE DEF S, P, Q, N, L, B
    <3>1. CASE t = "NATIVE_TOKEN" /\ a = r
      <4>1. /\ nb[t][a] = b[t][a] + x /\ LinesTo(a, lines) = x + L
            /\ b[t][a] + B = S + P + (N - LinesTo(a, lines)) /\ Q = P + (N - L)
        BY <2>1, <2>2, <2>4, <3>1
      <4>2. Balanced(nb[t][a], b[t][a], x, LinesTo(a, lines), L, B, S, P, N, Q)
        BY <4>1 DEF Balanced
      <4>3. nb[t][a] + B = S + Q
        BY <2>3, <4>2, BalancedSum
      <4> QED BY <3>1, <4>3
    <3>2. CASE t = "NATIVE_TOKEN" /\ a # r
      BY <2>1, <2>2, <2>3, <2>5, <2>6, <3>2
    <3>3. CASE t # "NATIVE_TOKEN"
      BY <2>1, <2>2, <2>3, <2>5, <3>3
    <3> QED BY <3>1, <3>2, <3>3
  <2> QED BY <2>7
<1> QED BY <1>5, <1>6, <1>8, <1>9 DEF Exact

\* Ether of a native settlement arrives, and its first line is paid.
LEMMA NativeInv ==
  ASSUME IInv, NEW sender \in Account, NEW i \in Instructions, NEW value \in Values,
         Executable(sender, i), ValueMatches(i, value), i.token = "NATIVE_TOKEN",
         ExecuteNative(sender, i, value), UNCHANGED <<now, solvers, solverByOperator>>
  PROVE  IInv'
<1> DEFINE b == Moved(balance, "NATIVE_TOKEN", sender, adapter, value)
           r == Head(i.lines).recipient
           x == Head(i.lines).amount
           rest == Tail(i.lines)
           f == Frame(r, rest, i, Snapshot)
<1>1. /\ balance \in Balances /\ solvers \in Seq(SolverRecord)
      /\ solverByOperator \in [Account -> Nat] /\ settlements \in Seq(Instructions)
      /\ StackOK(frames) /\ Exact(balance, solvers, settlements, frames, Len(frames))
  BY DEF IInv
<1>2. /\ r \in Account /\ balance' = Moved(b, "NATIVE_TOKEN", adapter, r, x)
      /\ frames' = Append(frames, f)
  BY DEF ExecuteNative, PayLine
<1>3. /\ settlements' = settlements /\ solvers' = solvers /\ solverByOperator' = solverByOperator
  BY DEF ExecuteNative
<1>4. /\ i.lines \in Seq(Line) /\ i.lines # << >> /\ i.payer = sender
      /\ value = i.grossAmount /\ Total(i.lines) = i.grossAmount /\ value \in Nat
  BY NetType DEF Executable, LinesValid, TotalMatches, ValueMatches
<1>5. x \in Int
  <2>1. Head(i.lines) \in Line
    BY <1>4, FirstLine
  <2> QED BY <2>1 DEF Line
<1>6. Parted(i.lines, r, x, rest)
  BY DEF Parted
<1> HIDE DEF b, r, x, rest, f
<1>7. b \in Balances /\ Shifted(balance, b, "NATIVE_TOKEN", sender, adapter, value)
  BY <1>1, <1>4, Parties, MovedIs DEF b
<1>8. Due(b, solvers, settlements, frames, i.lines, i)
  <2>1. b["NATIVE_TOKEN"][registry] = AllBonds(solvers)
    BY <1>1, <1>7, Parties DEF Shifted, Exact
  <2>2. b["NATIVE_TOKEN"][adapter] = Owed(frames, Len(frames)) + Total(i.lines)
    BY <1>1, <1>4, <1>7 DEF Shifted, Exact
  <2>3. ASSUME NEW a \in Account, NEW t \in Asset
        PROVE  b[t][a] + (IF t = "NATIVE_TOKEN" THEN BondsBy(solvers, a) ELSE 0)
                 = Endowment + SettledNet(settlements, a, t) + PendingNet(frames, Len(frames), a, t)
                     + (Net(i, a, t) - (IF t = "NATIVE_TOKEN" THEN LinesTo(a, i.lines) ELSE 0))
    <3> DEFINE S == Endowment + SettledNet(settlements, a, t) + PendingNet(frames, Len(frames), a, t)
               B == IF t = "NATIVE_TOKEN" THEN BondsBy(solvers, a) ELSE 0
               N == Net(i, a, t) - (IF t = "NATIVE_TOKEN" THEN LinesTo(a, i.lines) ELSE 0)
    <3>1. balance[t][a] + B = S
      BY <1>1 DEF Exact
    <3>2. balance[t][a] \in Int /\ B \in Int
      BY SumsType, Parties
    <3>3. N = IF t = "NATIVE_TOKEN" /\ a = sender THEN 0 - value ELSE 0
      <4>1. LinesTo(a, i.lines) \in Int
        BY <1>4, LinesType
      <4>2. t = "NATIVE_TOKEN" => Net(i, a, t) = LinesTo(a, i.lines) - (IF a = sender THEN value ELSE 0)
        BY <1>4 DEF Net
      <4>3. t # "NATIVE_TOKEN" => Net(i, a, t) = 0
        BY DEF Net
      <4>4. CASE t = "NATIVE_TOKEN" /\ a = sender
        BY <1>4, <4>1, <4>2, <4>4
      <4>5. CASE t = "NATIVE_TOKEN" /\ a # sender
        BY <4>1, <4>2, <4>5
      <4>6. CASE t # "NATIVE_TOKEN"
        BY <4>3, <4>6
      <4> QED BY <4>4, <4>5, <4>6
    <3>4. /\ t = "NATIVE_TOKEN" /\ a = sender => b[t][a] = balance[t][a] - value
          /\ ~(t = "NATIVE_TOKEN" /\ a = sender) => b[t][a] = balance[t][a]
      BY <1>7, Parties DEF Shifted
    <3> HIDE DEF S, B, N
    <3>5. b[t][a] + B = S + N
      <4>1. CASE t = "NATIVE_TOKEN" /\ a = sender
        <5>1. value \in Int /\ b[t][a] = balance[t][a] - value /\ N = 0 - value
          BY <1>4, <3>3, <3>4, <4>1
        <5> QED BY ONLY <3>1, <3>2, <5>1
      <4>2. CASE ~(t = "NATIVE_TOKEN" /\ a = sender)
        <5>1. b[t][a] = balance[t][a] /\ N = 0
          BY <3>3, <3>4, <4>2
        <5> QED BY ONLY <3>1, <3>2, <5>1
      <4> QED BY <4>1, <4>2
    <3> QED BY <3>5 DEF S, B, N
  <2> QED BY <2>1, <2>2, <2>3 DEF Due
<1>9. balance' \in Balances /\ StackOK(frames') /\ Exact(balance', solvers, settlements, frames', Len(frames'))
  BY <1>1, <1>2, <1>4, <1>5, <1>6, <1>7, <1>8, SnapshotOK, PayInv DEF f
<1> QED BY <1>1, <1>3, <1>9 DEF IInv

\* A settlement in tokens moves all lines at once.
LEMMA TokensInv ==
  ASSUME IInv, NEW sender \in Account, NEW i \in Instructions, Executable(sender, i),
         i.token # "NATIVE_TOKEN", ExecuteERC20(i), UNCHANGED <<now, solvers, solverByOperator>>
  PROVE  IInv'
<1> DEFINE row == [h \in Holder |-> balance["ERC20"][h]
                     - (IF h = i.payer THEN Total(i.lines) ELSE 0) + LinesTo(h, i.lines)]
<1>1. /\ balance \in Balances /\ solvers \in Seq(SolverRecord)
      /\ solverByOperator \in [Account -> Nat] /\ settlements \in Seq(Instructions)
      /\ StackOK(frames) /\ Exact(balance, solvers, settlements, frames, Len(frames))
  BY DEF IInv
<1>2. balance' = [balance EXCEPT !["ERC20"] = row] /\ settlements' = Append(settlements, i)
  BY <1>1 DEF ExecuteERC20, Balances, Asset
<1>3. frames' = frames /\ solvers' = solvers /\ solverByOperator' = solverByOperator
  BY DEF ExecuteERC20
<1>4. /\ Total(i.lines) \in Nat /\ \A h : LinesTo(h, i.lines) \in Nat
      /\ Total(i.lines) = i.grossAmount /\ i.token = "ERC20"
  <2>1. i.lines \in Seq(Line) /\ i.token \in Asset
    BY NetType DEF Instruction
  <2> QED BY <2>1, LinesType DEF Executable, TotalMatches, Asset
<1>5. \A h \in Holder : balance["ERC20"][h] \in Int
  BY <1>1, Parties DEF Balances
<1>6. row \in [Holder -> Int]
  BY <1>4, <1>5
<1>7. ASSUME NEW a \in Account
      PROVE  row[a] = balance["ERC20"][a] + Net(i, a, "ERC20")
  <2>1. Net(i, a, "ERC20") = LinesTo(a, i.lines) - (IF a = i.payer THEN Total(i.lines) ELSE 0)
    BY <1>4 DEF Net
  <2>2. row[a] = balance["ERC20"][a] - (IF a = i.payer THEN Total(i.lines) ELSE 0) + LinesTo(a, i.lines)
    BY Parties
  <2>3. balance["ERC20"][a] \in Int /\ LinesTo(a, i.lines) \in Int /\ Total(i.lines) \in Int
    BY <1>4, <1>5, Parties
  <2> HIDE DEF row
  <2>4. CASE a = i.payer
    BY <2>1, <2>2, <2>3, <2>4
  <2>5. CASE a # i.payer
    BY <2>1, <2>2, <2>3, <2>5
  <2> QED BY <2>4, <2>5
<1> HIDE DEF row
<1>8. /\ balance' \in Balances /\ balance'["ERC20"] = row
      /\ balance'["NATIVE_TOKEN"] = balance["NATIVE_TOKEN"]
  BY <1>1, <1>2, <1>6 DEF Balances, Asset
<1>9. /\ settlements' \in Seq(Instructions)
      /\ \A a, t : SettledNet(settlements', a, t) = SettledNet(settlements, a, t) + Net(i, a, t)
  BY <1>1, <1>2, SettledAppend
<1>10. ASSUME NEW a \in Account, NEW t \in Asset
       PROVE  balance'[t][a] + (IF t = "NATIVE_TOKEN" THEN BondsBy(solvers, a) ELSE 0)
                = Endowment + SettledNet(settlements', a, t) + PendingNet(frames, Len(frames), a, t)
  <2> DEFINE S == SettledNet(settlements, a, t)
             P == PendingNet(frames, Len(frames), a, t)
  <2>1. balance[t][a] + (IF t = "NATIVE_TOKEN" THEN BondsBy(solvers, a) ELSE 0) = Endowment + S + P
    BY <1>1 DEF Exact
  <2>2. S \in Int /\ P \in Int /\ balance[t][a] \in Int /\ Net(i, a, t) \in Int
    BY SumsType, Parties, NetType
  <2>3. SettledNet(settlements', a, t) = S + Net(i, a, t)
    BY <1>9
  <2> HIDE DEF S, P
  <2>4. CASE t = "NATIVE_TOKEN"
    <3>1. Net(i, a, t) = 0 /\ balance'[t][a] = balance[t][a]
      BY <1>4, <1>8, <2>4 DEF Net
    <3> QED BY <2>1, <2>2, <2>3, <2>4, <3>1 DEF P
  <2>5. CASE t # "NATIVE_TOKEN"
    <3>1. t = "ERC20"
      BY <2>5 DEF Asset
    <3>2. balance'[t][a] = balance[t][a] + Net(i, a, t)
      BY <1>7, <1>8, <3>1
    <3>3. balance[t][a] + 0 = Endowment + S + P
      BY <2>1, <2>5
    <3>4. balance'[t][a] + 0 = Endowment + (S + Net(i, a, t)) + P
      BY <2>2, <3>2, <3>3
    <3> QED BY <2>3, <2>5, <3>4 DEF P
  <2> QED BY <2>4, <2>5
<1>11. /\ balance'["NATIVE_TOKEN"][registry] = AllBonds(solvers)
       /\ balance'["NATIVE_TOKEN"][adapter] = Owed(frames, Len(frames))
  BY <1>1, <1>8 DEF Exact
<1>12. Exact(balance', solvers, settlements', frames, Len(frames))
  BY <1>10, <1>11 DEF Exact
<1> QED BY <1>1, <1>3, <1>8, <1>9, <1>12 DEF IInv

\* Executing a settlement, of either kind.
LEMMA ExecuteInv ==
  ASSUME IInv, NEW sender \in Account, NEW i \in Instructions, NEW value \in Values,
         ExecuteSettlement(sender, i, value)
  PROVE  IInv'
<1>1. Executable(sender, i) /\ ValueMatches(i, value) /\ UNCHANGED <<now, solvers, solverByOperator>>
  BY DEF ExecuteSettlement
<1>2. CASE i.token = "NATIVE_TOKEN"
  <2>1. ExecuteNative(sender, i, value)
    BY <1>2 DEF ExecuteSettlement
  <2> QED BY <1>1, <1>2, <2>1, NativeInv
<1>3. CASE i.token # "NATIVE_TOKEN"
  <2>1. ExecuteERC20(i)
    BY <1>3 DEF ExecuteSettlement
  <2> QED BY <1>1, <1>3, <2>1, TokensInv
<1> QED BY <1>2, <1>3

\* The running code, and what the invariant says of it.
LEMMA TopFrame ==
  ASSUME IInv, frames # << >>
  PROVE  /\ StackOK(Front(frames)) /\ Running \in FrameSet /\ FrameOK(Running)
         /\ SavedExact(Running.saved, Front(frames), Len(Front(frames)))
         /\ Owed(frames, Len(frames)) = Owed(Front(frames), Len(Front(frames))) + Total(Running.lines)
         /\ \A a, t : PendingNet(frames, Len(frames), a, t)
                        = PendingNet(Front(frames), Len(Front(frames)), a, t) + FrameNet(Running, a, t)
         /\ Owed(Front(frames), Len(Front(frames))) \in Int
         /\ \A a, t : PendingNet(Front(frames), Len(Front(frames)), a, t) \in Int
<1>1. /\ StackOK(Front(frames)) /\ Len(Front(frames)) \in Nat
      /\ Running \in FrameSet /\ FrameOK(Running)
      /\ SavedExact(Running.saved, Front(frames), Len(Front(frames)))
      /\ Owed(frames, Len(frames)) = Owed(Front(frames), Len(Front(frames))) + Total(Running.lines)
      /\ \A a, t : PendingNet(frames, Len(frames), a, t)
                     = PendingNet(Front(frames), Len(Front(frames)), a, t) + FrameNet(Running, a, t)
  BY Top DEF IInv, Running
<1>2. /\ Front(frames) \in Seq(FrameSet) /\ Len(Front(frames)) <= Len(Front(frames))
  BY <1>1 DEF StackOK
<1> QED BY <1>1, <1>2, FramesAgree

\* The running code returns, and nothing is left to be paid: its caller ends.
LEMMA EndInv ==
  ASSUME IInv, frames # << >>, Running.lines = << >>, frames' = Front(frames),
         settlements' = IF Running.instruction = NoInstruction THEN settlements
                        ELSE Append(settlements, Running.instruction),
         balance' = balance, solvers' = solvers, solverByOperator' = solverByOperator
  PROVE  IInv'
<1> DEFINE G == Front(frames)
           i == Running.instruction
<1>1. /\ balance \in Balances /\ solvers \in Seq(SolverRecord)
      /\ solverByOperator \in [Account -> Nat] /\ settlements \in Seq(Instructions)
      /\ Exact(balance, solvers, settlements, frames, Len(frames))
  BY DEF IInv
<1>2. /\ StackOK(G) /\ i \in Instructions \cup {NoInstruction}
      /\ Owed(frames, Len(frames)) = Owed(G, Len(G)) + Total(Running.lines)
      /\ \A a, t : PendingNet(frames, Len(frames), a, t) = PendingNet(G, Len(G), a, t) + FrameNet(Running, a, t)
      /\ Owed(G, Len(G)) \in Int /\ \A a, t : PendingNet(G, Len(G), a, t) \in Int
  BY TopFrame DEF FrameSet
<1>3. Total(Running.lines) = 0 /\ \A h : LinesTo(h, Running.lines) = 0
  BY NoLines
<1>4. Owed(frames, Len(frames)) = Owed(G, Len(G))
  BY <1>2, <1>3
<1>5. /\ settlements' \in Seq(Instructions)
      /\ \A a, t : /\ SettledNet(settlements', a, t) = SettledNet(settlements, a, t) + FrameNet(Running, a, t)
                   /\ FrameNet(Running, a, t) \in Int
  <2>1. CASE i = NoInstruction
    <3>1. settlements' = settlements /\ \A a, t : FrameNet(Running, a, t) = 0
      BY <2>1 DEF FrameNet
    <3> QED BY <1>1, <3>1, SumsType
  <2>2. CASE i # NoInstruction
    <3>1. i \in Instructions /\ settlements' = Append(settlements, i)
      BY <1>2, <2>2
    <3>2. ASSUME NEW a, NEW t PROVE FrameNet(Running, a, t) = Net(i, a, t) /\ Net(i, a, t) \in Int
      <4>1. Net(i, a, t) \in Int
        BY <3>1, NetType
      <4>2. FrameNet(Running, a, t) = Net(i, a, t) - 0
        BY <1>3, <2>2 DEF FrameNet
      <4> QED BY <4>1, <4>2
    <3>3. \A a, t : SettledNet(settlements', a, t) = SettledNet(settlements, a, t) + Net(i, a, t)
      BY <1>1, <3>1, SettledAppend
    <3>4. settlements' \in Seq(Instructions)
      BY <1>1, <3>1
    <3> QED BY <3>2, <3>3, <3>4
  <2> QED BY <2>1, <2>2
<1> HIDE DEF G, i
<1>6. ASSUME NEW a \in Account, NEW t \in Asset
      PROVE  balance[t][a] + (IF t = "NATIVE_TOKEN" THEN BondsBy(solvers, a) ELSE 0)
               = Endowment + SettledNet(settlements', a, t) + PendingNet(G, Len(G), a, t)
  <2> DEFINE B == balance[t][a] + (IF t = "NATIVE_TOKEN" THEN BondsBy(solvers, a) ELSE 0)
             S == SettledNet(settlements, a, t)
             S1 == SettledNet(settlements', a, t)
             P == PendingNet(frames, Len(frames), a, t)
             Q == PendingNet(G, Len(G), a, t)
             N == FrameNet(Running, a, t)
  <2>1. B = Endowment + S + P /\ P = Q + N /\ S1 = S + N
    BY <1>1, <1>2, <1>5 DEF Exact
  <2>2. S \in Int /\ Q \in Int /\ N \in Int
    BY <1>2, <1>5, SumsType
  <2> HIDE DEF B, S, S1, P, Q, N
  <2>3. B = Endowment + S1 + Q
    BY <2>1, <2>2
  <2> QED BY <2>3 DEF B, S1, Q
<1>7. Exact(balance, solvers, settlements', G, Len(G))
  BY <1>1, <1>4, <1>6 DEF Exact
<1> QED BY <1>1, <1>2, <1>5, <1>7 DEF IInv, G

\* It returns, and the next line is paid.
LEMMA NextLineInv ==
  ASSUME IInv, frames # << >>, Running.lines # << >>,
         PayLine(balance, Running.lines, Running.instruction, Running.saved, Front(frames)),
         settlements' = settlements, solvers' = solvers, solverByOperator' = solverByOperator
  PROVE  IInv'
<1> DEFINE G == Front(frames)
           i == Running.instruction
           lines == Running.lines
           saved == Running.saved
           r == Head(lines).recipient
           x == Head(lines).amount
           rest == Tail(lines)
           f == Frame(r, rest, i, saved)
<1>1. /\ balance \in Balances /\ solvers \in Seq(SolverRecord)
      /\ solverByOperator \in [Account -> Nat] /\ settlements \in Seq(Instructions)
      /\ Exact(balance, solvers, settlements, frames, Len(frames))
  BY DEF IInv
<1>2. /\ StackOK(G) /\ Running \in FrameSet /\ FrameOK(Running)
      /\ SavedExact(saved, G, Len(G))
      /\ Owed(frames, Len(frames)) = Owed(G, Len(G)) + Total(lines)
      /\ \A a, t : PendingNet(frames, Len(frames), a, t) = PendingNet(G, Len(G), a, t) + FrameNet(Running, a, t)
      /\ Owed(G, Len(G)) \in Int /\ \A a, t : PendingNet(G, Len(G), a, t) \in Int
  BY TopFrame
<1>3. lines \in Seq(Line) /\ lines # << >> /\ saved \in Saved
  BY <1>2 DEF FrameSet
<1>4. i # NoInstruction /\ i \in Instructions /\ i.token = "NATIVE_TOKEN"
  BY <1>2, <1>3 DEF FrameSet, FrameOK
<1>5. /\ r \in Account /\ balance' = Moved(balance, "NATIVE_TOKEN", adapter, r, x)
      /\ frames' = Append(G, f)
  BY DEF PayLine
<1>6. x \in Int
  <2>1. Head(lines) \in Line
    BY <1>3, FirstLine
  <2> QED BY <2>1 DEF Line
<1>7. Parted(lines, r, x, rest)
  BY DEF Parted
<1>8. ASSUME NEW a, NEW t
      PROVE  /\ FrameNet(Running, a, t)
                  = Net(i, a, t) - (IF t = "NATIVE_TOKEN" THEN LinesTo(a, lines) ELSE 0)
             /\ FrameNet(Running, a, t) \in Int
  BY <1>2, <1>4, FrameType DEF FrameNet
<1> HIDE DEF G, i, lines, saved, r, x, rest, f
<1>9. Due(balance, solvers, settlements, G, lines, i)
  <2>1. ASSUME NEW a \in Account, NEW t \in Asset
        PROVE  balance[t][a] + (IF t = "NATIVE_TOKEN" THEN BondsBy(solvers, a) ELSE 0)
                 = Endowment + SettledNet(settlements, a, t) + PendingNet(G, Len(G), a, t)
                     + (Net(i, a, t) - (IF t = "NATIVE_TOKEN" THEN LinesTo(a, lines) ELSE 0))
    <3> DEFINE B == balance[t][a] + (IF t = "NATIVE_TOKEN" THEN BondsBy(solvers, a) ELSE 0)
               S == SettledNet(settlements, a, t)
               P == PendingNet(frames, Len(frames), a, t)
               Q == PendingNet(G, Len(G), a, t)
               N == FrameNet(Running, a, t)
    <3>1. B = Endowment + S + P /\ P = Q + N
      BY <1>1, <1>2 DEF Exact
    <3>2. S \in Int /\ Q \in Int /\ N \in Int
      BY <1>2, <1>8, SumsType
    <3> HIDE DEF B, S, P, Q, N
    <3>3. B = Endowment + S + Q + N
      BY <3>1, <3>2
    <3> QED BY <1>8, <3>3 DEF B, S, Q, N
  <2> QED BY <1>1, <1>2, <2>1 DEF Due, Exact
<1>10. balance' \in Balances /\ StackOK(frames') /\ Exact(balance', solvers, settlements, frames', Len(frames'))
  BY <1>1, <1>2, <1>3, <1>4, <1>5, <1>6, <1>7, <1>9, PayInv DEF f
<1> QED BY <1>1, <1>10 DEF IInv

\* A call that ends leaves the frame below it exact.
LEMMA ReturnInv ==
  ASSUME IInv, Return
  PROVE  IInv'
<1>1. frames # << >> /\ solvers' = solvers /\ solverByOperator' = solverByOperator
  BY DEF Return
<1>2. CASE Running.lines = << >>
  <2>1. /\ frames' = Front(frames) /\ balance' = balance
        /\ settlements' = IF Running.instruction = NoInstruction THEN settlements
                          ELSE Append(settlements, Running.instruction)
    BY <1>2 DEF Return
  <2> QED BY <1>1, <1>2, <2>1, EndInv
<1>3. CASE Running.lines # << >>
  <2>1. /\ PayLine(balance, Running.lines, Running.instruction, Running.saved, Front(frames))
        /\ settlements' = settlements
    BY <1>3 DEF Return
  <2> QED BY <1>1, <1>3, <2>1, NextLineInv
<1> QED BY <1>2, <1>3

\* The running code reverts: the state before its caller's call is back.
LEMMA RevertInv ==
  ASSUME IInv, Revert
  PROVE  IInv'
<1>1. /\ frames # << >> /\ frames' = Front(frames)
      /\ balance' = Running.saved.balance /\ solvers' = Running.saved.solvers
      /\ solverByOperator' = Running.saved.solverByOperator
      /\ settlements' = Running.saved.settlements
  BY DEF Revert, Undone
<1>2. /\ StackOK(Front(frames)) /\ Running \in FrameSet
      /\ SavedExact(Running.saved, Front(frames), Len(Front(frames)))
  BY <1>1, TopFrame
<1>3. Running.saved \in Saved
  BY <1>2 DEF FrameSet
<1>4. /\ balance' \in Balances /\ solvers' \in Seq(SolverRecord)
      /\ solverByOperator' \in [Account -> Nat] /\ settlements' \in Seq(Instructions)
  BY <1>1, <1>3 DEF Saved
<1>5. Exact(balance', solvers', settlements', frames', Len(frames'))
  BY <1>1, <1>2 DEF SavedExact
<1> QED BY <1>1, <1>2, <1>4, <1>5 DEF IInv

\* At first nobody holds anything but the endowments, and nothing is under way.
LEMMA InitInv == Init => IInv
<1> SUFFICES ASSUME Init PROVE IInv
  OBVIOUS
<1>1. /\ \A t \in Asset, h \in Holder : balance[t][h] = IF h \in Account THEN Endowment ELSE 0
      /\ balance \in Balances
      /\ solvers = << >> /\ settlements = << >> /\ frames = << >>
      /\ solverByOperator \in [Account -> Nat]
  BY DEF Init, Balances
<1>2. /\ DOMAIN << >> = {} /\ 1..0 = {} /\ Len(<< >>) = 0
      /\ \A S : << >> \in Seq(S)
  OBVIOUS
<1>3. /\ AllBonds(solvers) = 0 /\ \A a : BondsBy(solvers, a) = 0
      /\ \A a, t : SettledNet(settlements, a, t) = 0
      /\ Len(frames) = 0 /\ Owed(frames, 0) = 0 /\ \A a, t : PendingNet(frames, 0, a, t) = 0
  BY <1>1, <1>2, SumEmpty DEF AllBonds, BondsBy, SettledNet, Owed, PendingNet
<1>4. /\ balance["NATIVE_TOKEN"][registry] = 0 /\ balance["NATIVE_TOKEN"][adapter] = 0
      /\ \A a \in Account, t \in Asset : balance[t][a] = Endowment
  BY <1>1, Parties
<1>5. Exact(balance, solvers, settlements, frames, Len(frames))
  <2>1. ASSUME NEW a \in Account, NEW t \in Asset
        PROVE  balance[t][a] + (IF t = "NATIVE_TOKEN" THEN BondsBy(solvers, a) ELSE 0)
                 = Endowment + SettledNet(settlements, a, t) + PendingNet(frames, 0, a, t)
    <3>1. (IF t = "NATIVE_TOKEN" THEN BondsBy(solvers, a) ELSE 0) = 0
      BY <1>3
    <3> QED BY <1>3, <1>4, <3>1
  <2> QED BY <1>3, <1>4, <2>1 DEF Exact
<1>6. StackOK(frames)
  BY <1>1, <1>2 DEF StackOK
<1> QED BY <1>1, <1>2, <1>5, <1>6 DEF IInv

\* Every step keeps the invariant.
LEMMA StepInv == IInv /\ [Next]_vars => IInv'
<1> SUFFICES ASSUME IInv, [Next]_vars PROVE IInv'
  OBVIOUS
<1>1. ASSUME NEW sender \in Account, NEW value \in Amounts, RegisterSolver(sender, value) PROVE IInv'
  BY <1>1, RegisterInv
<1>2. ASSUME NEW sender \in Account, NEW id \in 1..MaxSolvers, NEW active \in BOOLEAN,
             UpdateSolver(sender, id, active)
      PROVE  IInv'
  BY <1>2, UpdateInv
<1>3. ASSUME NEW sender \in Account, NEW id \in 1..MaxSolvers, NEW amount \in Amounts,
             AddBond(sender, id, amount)
      PROVE  IInv'
  BY <1>3, AddBondInv
<1>4. ASSUME NEW sender \in Account, NEW id \in 1..MaxSolvers, NEW amount \in Amounts,
             WithdrawBond(sender, id, amount)
      PROVE  IInv'
  BY <1>4, WithdrawInv
<1>5. ASSUME NEW sender \in Account, NEW i \in Instructions, NEW value \in Values,
             ExecuteSettlement(sender, i, value)
      PROVE  IInv'
  BY <1>5, ExecuteInv
<1>6. CASE Return
  BY <1>6, ReturnInv
<1>7. CASE Revert
  BY <1>7, RevertInv
<1>8. CASE Tick
  BY <1>8 DEF Tick, IInv
<1>9. CASE UNCHANGED vars
  BY <1>9 DEF vars, IInv
<1> QED BY <1>1, <1>2, <1>3, <1>4, <1>5, <1>6, <1>7, <1>8, <1>9 DEF Next

\* The inductive invariant: balances are what bonds, settlements and payments
\* under way make them, in the present state and in every state a revert would
\* restore (SolverRegistry.withdrawBond, SettlementAdapter._executeNative).
THEOREM AlwaysExact == Spec => []IInv
BY InitInv, StepInv, PTL DEF Spec

\* At every point foreign code runs, the registry holds exactly the bonds and
\* the adapter exactly what it has still to pay (SolverRegistry.sol,
\* SettlementAdapter.sol).
THEOREM ContractsAlwaysCovered == Spec => []ContractsCovered
<1>1. IInv => ContractsCovered
  <2> SUFFICES ASSUME IInv PROVE ContractsCovered
    OBVIOUS
  <2>1. /\ balance["NATIVE_TOKEN"][registry] = AllBonds(solvers)
        /\ balance["NATIVE_TOKEN"][adapter] = Owed(frames, Len(frames))
    BY DEF IInv, Exact
  <2>2. DOMAIN frames = 1..Len(frames)
    BY DEF IInv, StackOK
  <2> QED BY <2>1, <2>2 DEF ContractsCovered, AllBonds, Bonds, Owed
<1> QED BY <1>1, AlwaysExact, PTL

\* What settlements leave an account with is what it received less what it paid.
LEMMA SettledNetIs ==
  ASSUME settlements \in Seq(Instructions), NEW a, NEW t
  PROVE  /\ Received(a, t) = SettledNet(settlements, a, t) + Paid(a, t)
         /\ Paid(a, t) \in Int
<1> DEFINE D == DOMAIN settlements
           R == Settled(t)
           Q == {k \in Settled(t) : settlements[k].payer = a}
           net == [k \in D |-> Net(settlements[k], a, t)]
           in == [k \in D |-> LinesTo(a, settlements[k].lines)]
           out == [k \in D |-> settlements[k].grossAmount]
           inOf == [k \in D |-> IF settlements[k].token = t THEN LinesTo(a, settlements[k].lines) ELSE 0]
           outOf == [k \in D |-> IF settlements[k].token = t /\ settlements[k].payer = a
                                 THEN settlements[k].grossAmount ELSE 0]
<1>1. IsFiniteSet(D)
  BY Indices
<1>2. ASSUME NEW k \in D
      PROVE  /\ LinesTo(a, settlements[k].lines) \in Int /\ settlements[k].grossAmount \in Int
             /\ Net(settlements[k], a, t) \in Int
  <2>1. settlements[k] \in Instructions
    OBVIOUS
  <2>2. settlements[k].lines \in Seq(Line) /\ settlements[k].grossAmount \in Nat
    BY <2>1, NetType
  <2> QED BY <2>1, <2>2, NetType, LinesType
<1>3. /\ R \in SUBSET D /\ Q \in SUBSET D
      /\ \A k \in R : in[k] \in Int /\ inOf[k] = in[k]
      /\ \A k \in D \ R : inOf[k] = 0
      /\ \A k \in Q : out[k] \in Int /\ outOf[k] = out[k]
      /\ \A k \in D \ Q : outOf[k] = 0
  BY <1>2 DEF Settled
<1>4. ASSUME NEW k \in D PROVE net[k] \in Int /\ outOf[k] \in Int /\ inOf[k] = net[k] + outOf[k]
  <2> DEFINE s == settlements[k]
             L == LinesTo(a, s.lines)
             G == s.grossAmount
  <2>1. L \in Int /\ G \in Int
    BY <1>2
  <2>2. net[k] = IF s.token = t THEN L - (IF s.payer = a THEN G ELSE 0) ELSE 0
    BY DEF Net
  <2>3. inOf[k] = IF s.token = t THEN L ELSE 0
    OBVIOUS
  <2>4. outOf[k] = IF s.token = t /\ s.payer = a THEN G ELSE 0
    OBVIOUS
  <2> HIDE DEF L, G, net, inOf, outOf
  <2>5. CASE s.token = t /\ s.payer = a
    BY <2>1, <2>2, <2>3, <2>4, <2>5
  <2>6. CASE s.token = t /\ s.payer # a
    BY <2>1, <2>2, <2>3, <2>4, <2>6
  <2>7. CASE s.token # t
    BY <2>2, <2>3, <2>4, <2>7
  <2> QED BY <2>5, <2>6, <2>7
<1>5. /\ Received(a, t) = SumOver(in, R) /\ Paid(a, t) = SumOver(out, Q)
      /\ SettledNet(settlements, a, t) = SumOver(net, D)
  BY DEF Received, Paid, SettledNet
<1> HIDE DEF D, R, Q, net, in, out, inOf, outOf
<1>6. SumOver(inOf, D) = SumOver(in, R)
  BY <1>1, <1>3, SumWhere
<1>7. SumOver(outOf, D) = SumOver(out, Q)
  BY <1>1, <1>3, SumWhere
<1>8. SumOver(inOf, D) = SumOver(net, D) + SumOver(outOf, D)
  BY <1>1, <1>4, SumPlus
<1>9. SumOver(outOf, D) \in Int
  BY <1>1, <1>4, SumType
<1> QED BY <1>5, <1>6, <1>7, <1>8, <1>9

\* An account's bonds, as the property and the invariant write them.
LEMMA BondsAre ==
  ASSUME solvers \in Seq(SolverRecord), NEW a
  PROVE  Bonds({id \in DOMAIN solvers : solvers[id].operator = a}) = BondsBy(solvers, a)
<1> DEFINE D == DOMAIN solvers
           R == {id \in D : solvers[id].operator = a}
           f == [id \in D |-> solvers[id].bond]
           g == [id \in D |-> IF solvers[id].operator = a THEN solvers[id].bond ELSE 0]
<1>1. IsFiniteSet(D)
  BY Indices
<1>2. \A k \in D : solvers[k].bond \in Int
  <2>1. \A k \in D : solvers[k] \in SolverRecord
    OBVIOUS
  <2> QED BY <2>1 DEF SolverRecord
<1>3. /\ R \in SUBSET D /\ \A k \in R : f[k] \in Int /\ g[k] = f[k]
      /\ \A k \in D \ R : g[k] = 0
  BY <1>2
<1>4. Bonds(R) = SumOver(f, R) /\ BondsBy(solvers, a) = SumOver(g, D)
  BY DEF Bonds, BondsBy
<1> HIDE DEF D, R, f, g
<1>5. SumOver(g, D) = SumOver(f, R)
  BY <1>1, <1>3, SumWhere
<1> QED BY <1>4, <1>5 DEF R, D

\* Between transactions every account owns its endowment, less its bond and what
\* its settlements cost it, plus its lines of all settlements (SettlementAdapter
\* ._executeNative and _executeERC20, whoever reverted or re-entered).
THEOREM AlwaysSettledExactly == Spec => []SettledExactly
<1>1. IInv => SettledExactly
  <2> SUFFICES ASSUME IInv, frames = << >>, NEW a \in Account, NEW t \in Asset
               PROVE  balance[t][a] + Paid(a, t)
                        + (IF t = "NATIVE_TOKEN"
                           THEN Bonds({id \in DOMAIN solvers : solvers[id].operator = a}) ELSE 0)
                      = Endowment + Received(a, t)
    BY DEF SettledExactly
  <2> DEFINE b == balance[t][a]
             B == IF t = "NATIVE_TOKEN" THEN BondsBy(solvers, a) ELSE 0
             S == SettledNet(settlements, a, t)
             P == PendingNet(frames, Len(frames), a, t)
  <2>1. P = 0
    <3>1. 1..Len(frames) = {}
      OBVIOUS
    <3> QED BY <3>1, SumEmpty DEF PendingNet
  <2>2. b + B = Endowment + S + P
    BY DEF IInv, Exact
  <2>3. b \in Int /\ B \in Int /\ S \in Int
    BY SumsType, Parties
  <2>4. Received(a, t) = S + Paid(a, t) /\ Paid(a, t) \in Int
    BY SettledNetIs DEF IInv
  <2>5. (IF t = "NATIVE_TOKEN"
         THEN Bonds({id \in DOMAIN solvers : solvers[id].operator = a}) ELSE 0) = B
    BY BondsAre DEF IInv
  <2> HIDE DEF b, B, S, P
  <2>6. b + Paid(a, t) + B = Endowment + Received(a, t)
    BY <2>1, <2>2, <2>3, <2>4
  <2> QED BY <2>5, <2>6 DEF b
<1> QED BY <1>1, AlwaysExact, PTL
=============================================================================
