----------------------------- MODULE Participants -----------------------------
(***************************************************************************)
(* Agents, solvers, attestors and their attestations, on the chain and in  *)
(* the indexer's tables: contracts/src/AgentRegistry.sol,                  *)
(* AttestorRegistry.sol and, as far as its events go, SolverRegistry.sol   *)
(* (Ledger has its ether), composed with AttestationRegistry and with the  *)
(* handlers of indexer/src/handlers/agents.ts, participants.ts and         *)
(* attestations.ts.                                                        *)
(*                                                                         *)
(* SolverRegistry and AttestorRegistry are one shape: one record per       *)
(* operator, updated by it alone.  Metadata and capabilities change        *)
(* together and are one version number; keys and hashes are left out.      *)
(***************************************************************************)
EXTENDS AttestationRegistry, EventLoop, FiniteSets

CONSTANTS
  MaxAgents,     \* bound on the agents registered
  MaxVersion,    \* bound on the updates of an agent
  Bond           \* the bonds a solver may have

Kind == {"solvers", "attestors"}

VARIABLES
  agents,        \* _agents
  operators,     \* _solvers and _attestors
  idByOperator   \* _solverByOperator and _attestorByOperator

chainVars == <<registryVars, agents, operators, idByOperator>>
mirrorVars == <<chainVars, loopVars>>

MirrorInit ==
  /\ RegistryInit
  /\ agents = << >>
  /\ operators = [kind \in Kind |-> << >>]
  /\ idByOperator = [kind \in Kind |-> [a \in Address |-> 0]]
  /\ LoopInit({"agents", "attestations"} \cup Kind)

----------------------------------------------------------------------------
(* The contracts.                                                          *)

\* _ownerAgents, which only grows with _agents.
AgentsByOwner(owner) == {id \in DOMAIN agents : agents[id].owner = owner}

RegisterAgent(sender) ==
  /\ Len(agents) < MaxAgents
  /\ agents' = Append(agents, [owner |-> sender, version |-> 0, revoked |-> FALSE])
  /\ Emit([type |-> "AgentRegistered", id |-> Len(agents) + 1, owner |-> sender])
  /\ UNCHANGED <<registryVars, operators, idByOperator>>

\* The agent is the sender's and not revoked.
MayManage(sender, id) == id \in AgentsByOwner(sender) /\ ~agents[id].revoked

UpdateAgent(sender, id) ==
  /\ MayManage(sender, id)
  /\ agents[id].version < MaxVersion
  /\ agents' = [agents EXCEPT ![id].version = @ + 1]
  /\ Emit([type |-> "AgentUpdated", id |-> id, version |-> agents[id].version + 1])
  /\ UNCHANGED <<registryVars, operators, idByOperator>>

RevokeAgent(sender, id) ==
  /\ MayManage(sender, id)
  /\ agents' = [agents EXCEPT ![id].revoked = TRUE]
  /\ Emit([type |-> "AgentRevoked", id |-> id])
  /\ UNCHANGED <<registryVars, operators, idByOperator>>

RegisterOperator(kind, sender, bond) ==
  /\ idByOperator[kind][sender] = 0
  /\ LET id == Len(operators[kind]) + 1
     IN  /\ operators' = [operators EXCEPT ![kind] =
                            Append(@, [operator |-> sender, active |-> TRUE, bond |-> bond])]
         /\ idByOperator' = [idByOperator EXCEPT ![kind][sender] = id]
         /\ Emit([type |-> "OperatorRegistered", kind |-> kind, id |-> id,
                  operator |-> sender, bond |-> bond])
  /\ UNCHANGED <<registryVars, agents>>

Operates(kind, sender, id) ==
  id \in DOMAIN operators[kind] /\ operators[kind][id].operator = sender

UpdateOperator(kind, sender, id, active) ==
  /\ Operates(kind, sender, id)
  /\ operators' = [operators EXCEPT ![kind][id].active = active]
  /\ Emit([type |-> "OperatorUpdated", kind |-> kind, id |-> id, active |-> active])
  /\ UNCHANGED <<registryVars, agents, idByOperator>>

\* addBond, or withdrawBond while inactive.
ChangeBond(sender, id, bond) ==
  /\ Operates("solvers", sender, id)
  /\ bond >= operators["solvers"][id].bond \/ ~operators["solvers"][id].active
  /\ operators' = [operators EXCEPT !["solvers"][id].bond = bond]
  /\ Emit([type |-> "SolverBondChanged", id |-> id, bond |-> bond])
  /\ UNCHANGED <<registryVars, agents, idByOperator>>

AttestOrRevoke(sender) ==
  /\ \/ \E schema \in Schema, subject \in Subject :
          /\ SubmitAttestation(sender, schema, subject)
          /\ Emit([type |-> "AttestationSubmitted", id |-> nextAttestationId,
                   attester |-> sender, schema |-> schema, subject |-> subject])
     \/ \E id \in AttestationId :
          /\ RevokeAttestation(sender, id)
          /\ Emit([type |-> "AttestationRevoked", id |-> id])
  /\ UNCHANGED <<agents, operators, idByOperator>>

Chain ==
  \E sender \in Address :
    \/ RegisterAgent(sender)
    \/ \E id \in 1..MaxAgents : UpdateAgent(sender, id) \/ RevokeAgent(sender, id)
    \/ \E bond \in Bond : RegisterOperator("solvers", sender, bond)
    \/ RegisterOperator("attestors", sender, 0)
    \/ \E kind \in Kind, id \in 1..Cardinality(Address) :
         \/ \E active \in BOOLEAN : UpdateOperator(kind, sender, id, active)
         \/ \E bond \in Bond : kind = "solvers" /\ ChangeBond(sender, id, bond)
    \/ AttestOrRevoke(sender)

----------------------------------------------------------------------------
(* The handlers.                                                           *)

\* The registration is completed from the record the chain holds now, which
\* may be several calls ahead of the event; the row is written a step later.
ReadAgent == Handle("AgentRegistered") /\ UNCHANGED rows /\ Halfway(agents[Event.id])

\* Mutant of AgentRow: the flag every new agent has, instead of the one read.
MutantAgentRow(record) ==
  [owner |-> Event.owner, metadata |-> 0, capabilities |-> record.version, revoked |-> FALSE]

AgentRow(record) ==
  [owner |-> Event.owner, metadata |-> 0, capabilities |-> record.version,
   revoked |-> record.revoked]

HandleAgentRegistered ==
  /\ at < Len(log) /\ Event.type = "AgentRegistered"
  /\ \E record \in pending : Upsert("agents", Event.id, AgentRow(record))
  /\ Done

HandleAgentUpdated ==
  /\ Handle("AgentUpdated")
  /\ Update("agents", Event.id,
            [rows["agents"][Event.id] EXCEPT !.metadata = Event.version,
                                             !.capabilities = Event.version])
  /\ Done

HandleAgentRevoked ==
  /\ Handle("AgentRevoked")
  /\ Update("agents", Event.id, [rows["agents"][Event.id] EXCEPT !.revoked = TRUE])
  /\ Done

\* A replayed registration makes the row active again and keeps its counters.
HandleOperatorRegistered ==
  /\ Handle("OperatorRegistered")
  /\ LET table == Event.kind
         counts == IF Has(table, Event.id)
                   THEN [attestations |-> rows[table][Event.id].attestations,
                         revoked |-> rows[table][Event.id].revoked]
                   ELSE [attestations |-> 0, revoked |-> 0]
     IN  Upsert(table, Event.id,
                [operator |-> Event.operator, active |-> TRUE, bond |-> Event.bond,
                 attestations |-> counts.attestations, revoked |-> counts.revoked])
  /\ Done

HandleOperatorUpdated ==
  /\ Handle("OperatorUpdated")
  /\ Update(Event.kind, Event.id, [rows[Event.kind][Event.id] EXCEPT !.active = Event.active])
  /\ Done

HandleSolverBondChanged ==
  /\ Handle("SolverBondChanged")
  /\ Update("solvers", Event.id, [rows["solvers"][Event.id] EXCEPT !.bond = Event.bond])
  /\ Done

\* The first of two queries: on a conflict the revoked flag stays as it is.
HandleAttestationSubmitted ==
  /\ Handle("AttestationSubmitted")
  /\ Upsert("attestations", Event.id,
            [attester |-> Event.attester, schema |-> Event.schema, subject |-> Event.subject,
             revoked |-> Has("attestations", Event.id) /\ rows["attestations"][Event.id].revoked])
  /\ Halfway(Event.attester)

HandleAttestationRevoked ==
  /\ Handle("AttestationRevoked")
  /\ Update("attestations", Event.id, [rows["attestations"][Event.id] EXCEPT !.revoked = TRUE])
  /\ Halfway(rows["attestations"][Event.id].attester)

\* Mutant of Counts: only active attestors are counted for.
MutantCounts(id, attester) ==
  rows["attestors"][id].operator = attester /\ rows["attestors"][id].active

Counts(id, attester) == rows["attestors"][id].operator = attester

OneMore(row) ==
  IF Event.type = "AttestationSubmitted" THEN [row EXCEPT !.attestations = @ + 1]
  ELSE [row EXCEPT !.revoked = @ + 1]

\* The second query, which may run again in a replay.
CountAttestation ==
  /\ at < Len(log) /\ Event.type \in {"AttestationSubmitted", "AttestationRevoked"}
  /\ \E attester \in pending :
       rows' = [rows EXCEPT !["attestors"] =
         [id \in DOMAIN @ |-> IF Counts(id, attester) THEN OneMore(@[id]) ELSE @[id]]]
  /\ Done

Handler ==
  \/ ReadAgent \/ HandleAgentRegistered \/ HandleAgentUpdated \/ HandleAgentRevoked
  \/ HandleOperatorRegistered \/ HandleOperatorUpdated \/ HandleSolverBondChanged
  \/ HandleAttestationSubmitted \/ HandleAttestationRevoked \/ CountAttestation

MirrorNext ==
  \/ Chain
  \/ Handler /\ UNCHANGED <<chainVars, log, stored, crashes>>
  \/ (Store \/ Crash) /\ UNCHANGED chainVars

MirrorSpec == MirrorInit /\ [][MirrorNext]_mirrorVars

----------------------------------------------------------------------------
(* Properties.                                                             *)

\* A revoked agent or attestation never shows as valid again, although crashes
\* make the loop handle its registration once more.
RevocationsStay ==
  [][\A table \in {"agents", "attestations"} : \A id \in DOMAIN rows[table] :
       rows[table][id].revoked => rows'[table][id].revoked]_mirrorVars

\* The events about an operator's attestations, and those of them that came
\* after the operator registered.
Attested(type, operator) ==
  {k \in DOMAIN log : log[k].type = type /\ attestations[log[k].id].attester = operator}

Due(type, operator) ==
  {k \in Attested(type, operator) : \E j \in 1..k - 1 : /\ log[j].type = "OperatorRegistered"
                                                        /\ log[j].kind = "attestors"
                                                        /\ log[j].operator = operator}

\* A counter counts what is due; each crash can count every event once more.
Plausible(counter, type, operator) ==
  /\ Cardinality(Due(type, operator)) <= counter
  /\ counter <= Cardinality(Due(type, operator)) + crashes * Cardinality(Attested(type, operator))

\* Once the loop has caught up, the tables agree with the contracts; only the
\* attestors' counters may be too high, by what a crash made it count again.
TablesAgree ==
  at = Len(log) =>
    /\ DOMAIN rows["agents"] = DOMAIN agents
    /\ \A id \in DOMAIN agents :
         rows["agents"][id] =
           [owner |-> agents[id].owner, metadata |-> agents[id].version,
            capabilities |-> agents[id].version, revoked |-> agents[id].revoked]
    /\ \A id \in AttestationId :
         /\ Has("attestations", id) <=> AttestationExists(id)
         /\ Has("attestations", id) => rows["attestations"][id] = attestations[id]
    /\ \A kind \in Kind :
         /\ DOMAIN rows[kind] = DOMAIN operators[kind]
         /\ \A id \in DOMAIN operators[kind] :
              /\ rows[kind][id].operator = operators[kind][id].operator
              /\ rows[kind][id].active = operators[kind][id].active
              /\ rows[kind][id].bond = operators[kind][id].bond
    /\ \A id \in DOMAIN rows["attestors"] :
         LET row == rows["attestors"][id]
         IN  /\ Plausible(row.attestations, "AttestationSubmitted", row.operator)
             /\ Plausible(row.revoked, "AttestationRevoked", row.operator)
=============================================================================
