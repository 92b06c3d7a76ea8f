------------------------ MODULE AttestationRegistry ------------------------
(***************************************************************************)
(* contracts/src/AttestationRegistry.sol: any address records a claim about*)
(* a subject under a schema; only the attester of a claim may revoke it.   *)
(*                                                                         *)
(* A Solidity mapping is a total function whose unwritten keys hold zero,  *)
(* so an attestation that does not exist is the record whose attester is   *)
(* ZeroAddress, exactly the test the contract itself uses.  dataHash and   *)
(* timestamp are stored but never read by a contract and are left out.     *)
(* A call that reverts leaves no trace, so it is not a step.               *)
(***************************************************************************)
EXTENDS Naturals, Sequences

CONSTANTS
  Address,          \* externally owned accounts and contracts that may call
  ZeroAddress,      \* address(0), which never sends a transaction
  Schema,           \* bytes32 schema identifiers (ZeroHash may be one of them)
  Subject,          \* bytes32 subjects (ZeroHash may be one of them)
  ZeroHash,         \* bytes32(0)
  MaxAttestations   \* bound on the attestations submitted in a behaviour

ASSUME AddressAssumption == ZeroAddress \notin Address
ASSUME AttestationsBounded == MaxAttestations \in Nat

VARIABLES
  nextAttestationId,     \* _nextAttestationId
  attestations,          \* _attestations
  subjectAttestations    \* _subjectAttestations

registryVars == <<nextAttestationId, attestations, subjectAttestations>>

AttestationId == 1..MaxAttestations

Attestation == [attester : Address \cup {ZeroAddress},
                schema   : Schema \cup {ZeroHash},
                subject  : Subject \cup {ZeroHash},
                revoked  : BOOLEAN]

NoAttestation == [attester |-> ZeroAddress, schema |-> ZeroHash,
                  subject |-> ZeroHash, revoked |-> FALSE]

RegistryInit ==
  /\ nextAttestationId = 1
  /\ attestations = [a \in AttestationId |-> NoAttestation]
  /\ subjectAttestations = [s \in Subject |-> << >>]

\* getAttestation does not revert on id.
AttestationExists(id) ==
  id \in AttestationId /\ attestations[id].attester # ZeroAddress

SubmitAttestation(sender, schema, subject) ==
  /\ nextAttestationId <= MaxAttestations
  /\ attestations' = [attestations EXCEPT ![nextAttestationId] =
       [attester |-> sender, schema |-> schema, subject |-> subject, revoked |-> FALSE]]
  /\ subjectAttestations' =
       [subjectAttestations EXCEPT ![subject] = Append(@, nextAttestationId)]
  /\ nextAttestationId' = nextAttestationId + 1

\* Mutant of RevokeAttestation: the claim deleted instead of marked.
MutantRevokeAttestation(sender, id) ==
  /\ AttestationExists(id)
  /\ attestations[id].attester = sender
  /\ attestations' = [attestations EXCEPT ![id] = NoAttestation]
  /\ UNCHANGED <<nextAttestationId, subjectAttestations>>

RevokeAttestation(sender, id) ==
  /\ AttestationExists(id)
  /\ attestations[id].attester = sender
  /\ ~attestations[id].revoked
  /\ attestations' = [attestations EXCEPT ![id].revoked = TRUE]
  /\ UNCHANGED <<nextAttestationId, subjectAttestations>>

RegistryNext ==
  \E sender \in Address :
    \/ \E schema \in Schema, subject \in Subject :
         SubmitAttestation(sender, schema, subject)
    \/ \E id \in AttestationId : RevokeAttestation(sender, id)

=============================================================================
