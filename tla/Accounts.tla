------------------------------- MODULE Accounts -------------------------------
(***************************************************************************)
(* Identity and its proof: the handlers of src/server/app.rs that register *)
(* and deregister an agent, over the registry and the credentials of the   *)
(* storage (src/storage/core.rs), and the commands of the same names       *)
(* (src/bin/agent-marketplace.rs), which keep the token in the file        *)
(* ~/.agent-marketplace/credentials.json that all processes of a user      *)
(* share.                                                                  *)
(*                                                                         *)
(* A token stands for its hash and is numbered as it is issued.  What else *)
(* a process can be given, --token and the environment, is left out: its   *)
(* token is the one in the file.  Ids are taken to be equally long, so     *)
(* that of two writes of the file the last one stands.                     *)
(***************************************************************************)
EXTENDS Registry

CONSTANTS
  Processes,    \* commands that may be running at once
  NoToken, NoCredentials,
  MaxTokens,    \* bound of the model: tokens issued
  MaxTime       \* bound of the model

(* A file that was written is not taken for none.                          *)
ASSUME AccountsAssumption ==
  /\ MaxTokens \in Nat /\ MaxTime \in Nat
  /\ NoCredentials \notin [agent : Agents, token : Nat]

VARIABLES
  credentials,     \* AuthCredential by token
  tokenCounter,    \* token_counter of the server
  protected,       \* the server was started with a registration token
  file,            \* credentials.json; one that cannot be read is like none
  processes        \* every process, with the handler it waits for

accountsVars ==
  <<registryVars, credentials, tokenCounter, protected, file, processes>>

serverVars == <<registryVars, credentials, tokenCounter, protected>>

Time == 0 .. MaxTime
Never == MaxTime + 1     \* revoked_at: None

Idle == [stage |-> "idle"]

-----------------------------------------------------------------------------

IsActive(t) == t \in DOMAIN credentials /\ credentials[t].revokedAt = Never

(* authenticate.                                                           *)
Proves(t, a) == IsActive(t) /\ credentials[t].agent = a

IsAt(p, stage) == processes[p].stage = stage

Becomes(p, state) == processes' = [processes EXCEPT ![p] = state]
Reaches(p, stage) == processes' = [processes EXCEPT ![p].stage = stage]
Exits(p) == Becomes(p, Idle)

(* Credentials::load, and the token that is sent along.                    *)
TokenOfFile == IF file = NoCredentials THEN NoToken ELSE file.token

(* The registration token: it is of use only where one is configured.      *)
IsAdmin(p) == protected /\ processes[p].hasRegistrationToken

-----------------------------------------------------------------------------
(* register.                                                               *)

StartRegister(p, a, hasRegistrationToken, at) ==
  /\ IsAt(p, "idle")
  /\ Becomes(p, [stage |-> "asked", agent |-> a, token |-> TokenOfFile,
                 hasRegistrationToken |-> hasRegistrationToken, at |-> at])
  /\ UNCHANGED <<serverVars, file>>

(* require_registration_authority, as list_agents answers it: an agent     *)
(* that was ever registered takes a proof.                                 *)
AuthorityNeeded(p) ==
  IF processes[p].agent \in DOMAIN agents /\ ~IsAdmin(p)
  THEN IF processes[p].token = NoToken THEN "refused" ELSE "proving"
  ELSE IF protected /\ ~IsAdmin(p) THEN "refused" ELSE "allowed"

(* What was shown is not looked at again.                                  *)
Allows(p) == Becomes(p, [stage |-> "allowed", agent |-> processes[p].agent,
                         at |-> processes[p].at])

ListAgents(p) ==
  /\ IsAt(p, "asked")
  /\ \/ AuthorityNeeded(p) = "refused" /\ Exits(p)
     \/ AuthorityNeeded(p) = "proving" /\ Reaches(p, "proving")
     \/ AuthorityNeeded(p) = "allowed" /\ Allows(p)
  /\ UNCHANGED <<serverVars, file>>

ProveOwner(p) ==
  /\ IsAt(p, "proving")
  /\ \/ Proves(processes[p].token, processes[p].agent) /\ Allows(p)
     \/ ~Proves(processes[p].token, processes[p].agent) /\ Exits(p)
  /\ UNCHANGED <<serverVars, file>>

RegisterAgent(p) ==
  /\ IsAt(p, "allowed")
  /\ Register(processes[p].agent)
  /\ Reaches(p, "registered")
  /\ UNCHANGED <<credentials, tokenCounter, protected, file>>

(* issue_token: the counter makes every token a new one.                   *)
NewToken == tokenCounter + 1

(* issue_token and store_credential, which cannot know the token yet.      *)
IssueToken(p) ==
  /\ IsAt(p, "registered")
  /\ tokenCounter < MaxTokens
  /\ tokenCounter' = NewToken
  /\ credentials' = [t \in DOMAIN credentials \cup {NewToken} |->
                       IF t \in DOMAIN credentials THEN credentials[t]
                       ELSE [agent |-> processes[p].agent,
                             issuedAt |-> processes[p].at,
                             revokedAt |-> Never]]
  /\ Becomes(p, [stage |-> "answered", agent |-> processes[p].agent,
                 token |-> NewToken])
  /\ UNCHANGED <<registryVars, protected, file>>

(* save: fs::write empties the file before it writes.                      *)
TruncateFile(p) ==
  /\ IsAt(p, "answered")
  /\ file' = NoCredentials
  /\ Reaches(p, "saving")
  /\ UNCHANGED serverVars

WriteFile(p) ==
  /\ IsAt(p, "saving")
  /\ file' = [agent |-> processes[p].agent, token |-> processes[p].token]
  /\ Exits(p)
  /\ UNCHANGED serverVars

-----------------------------------------------------------------------------
(* deregister.                                                             *)

StartDeregister(p, at) ==
  /\ IsAt(p, "idle")
  /\ TokenOfFile # NoToken
  /\ Becomes(p, [stage |-> "leaving", token |-> TokenOfFile, at |-> at])
  /\ UNCHANGED <<serverVars, file>>

Authenticate(p) ==
  /\ IsAt(p, "leaving")
  /\ LET t == processes[p].token
     IN  \/ /\ IsActive(t)
            /\ Becomes(p, [stage |-> "authenticated", token |-> t,
                           agent |-> credentials[t].agent,
                           at |-> processes[p].at])
         \/ ~IsActive(t) /\ Exits(p)
  /\ UNCHANGED <<serverVars, file>>

(* Whoever has left already goes on to have its token revoked.             *)
DeregisterAgent(p) ==
  /\ IsAt(p, "authenticated")
  /\ \/ Deregister(processes[p].agent)
     \/ ~IsRegistered(processes[p].agent) /\ UNCHANGED registryVars
  /\ Reaches(p, "left")
  /\ UNCHANGED <<credentials, tokenCounter, protected, file>>

(* fault: the time of a revocation is not looked at.                       *)
AtAnyTime(t, at) == TRUE

(* A time earlier than what the credential has seen is refused.            *)
IsInOrder(t, at) ==
  IF IsActive(t) THEN at >= credentials[t].issuedAt
                 ELSE at >= credentials[t].revokedAt

(* fault: revoked once more, at a later time.                              *)
RevokedAgain(t, at) ==
  [credentials EXCEPT ![t].revokedAt = at]

(* fault: all that the agent has is revoked.                               *)
RevokedWithAgent(t, at) ==
  [u \in DOMAIN credentials |->
     IF IsActive(u) /\ credentials[u].agent = credentials[t].agent
     THEN [credentials[u] EXCEPT !.revokedAt = at] ELSE credentials[u]]

Revoked(t, at) ==
  IF IsActive(t) THEN [credentials EXCEPT ![t].revokedAt = at] ELSE credentials

RevokeCredential(p) ==
  /\ IsAt(p, "left")
  /\ LET t == processes[p].token
     IN  \/ /\ IsInOrder(t, processes[p].at)
            /\ credentials' = Revoked(t, processes[p].at)
            /\ Reaches(p, "removing")
         \/ /\ ~IsInOrder(t, processes[p].at)
            /\ UNCHANGED credentials
            /\ Exits(p)
  /\ UNCHANGED <<registryVars, tokenCounter, protected, file>>

(* Credentials::remove, whatever the file holds by now.                    *)
RemoveFile(p) ==
  /\ IsAt(p, "removing")
  /\ file' = NoCredentials
  /\ Exits(p)
  /\ UNCHANGED serverVars

-----------------------------------------------------------------------------

(* The process is killed, its connection is lost, or the file cannot be    *)
(* written: the handler it waits for is dropped where it awaits.           *)
GiveUp(p) ==
  /\ ~IsAt(p, "idle")
  /\ Exits(p)
  /\ UNCHANGED <<serverVars, file>>

AccountsInit ==
  /\ RegistryInit
  /\ credentials = [t \in {} |-> {}]
  /\ tokenCounter = 0
  /\ protected \in BOOLEAN
  /\ file = NoCredentials
  /\ processes = [p \in Processes |-> Idle]

AccountsNext ==
  \E p \in Processes :
    \/ \E a \in Agents, hasRegistrationToken \in BOOLEAN, at \in Time :
         StartRegister(p, a, hasRegistrationToken, at)
    \/ ListAgents(p) \/ ProveOwner(p) \/ RegisterAgent(p) \/ IssueToken(p)
    \/ TruncateFile(p) \/ WriteFile(p)
    \/ \E at \in Time : StartDeregister(p, at)
    \/ Authenticate(p) \/ DeregisterAgent(p) \/ RevokeCredential(p)
    \/ RemoveFile(p)
    \/ GiveUp(p)

AccountsSpec == AccountsInit /\ [][AccountsNext]_accountsVars

-----------------------------------------------------------------------------
(* Properties.                                                             *)

(* The type invariant, and what the parts hold of each other: a credential *)
(* names an agent that was registered and is revoked after it was issued,  *)
(* and a token is only ever kept, by a process or in the file, together    *)
(* with the agent the server issued it for.                                *)
AccountsTypeOK ==
  /\ tokenCounter \in 0 .. MaxTokens
  /\ DOMAIN credentials \subseteq 1 .. tokenCounter
  /\ \A t \in DOMAIN credentials :
       /\ credentials[t].agent \in DOMAIN agents
       /\ credentials[t].issuedAt <= credentials[t].revokedAt
       /\ credentials[t].revokedAt \in Time \cup {Never}
  /\ file # NoCredentials =>
       /\ file.token \in DOMAIN credentials
       /\ credentials[file.token].agent = file.agent
  /\ \A p \in Processes :
       processes[p].stage \in {"answered", "saving", "authenticated", "left"} =>
         /\ processes[p].token \in DOMAIN credentials
         /\ credentials[processes[p].token].agent = processes[p].agent

(* A token is revoked once, by who used it to deregister, and never proves *)
(* anything again: neither a late handler that still holds it nor a clock  *)
(* that was set back changes a credential a second time                    *)
(* (storage/core.rs:29-44, 56-81; app.rs:213-225).                         *)
RevokedForGood ==
  [][\A t \in DOMAIN credentials :
       /\ t \in DOMAIN credentials'
       /\ credentials'[t] # credentials[t] =>
            /\ credentials[t].revokedAt = Never
            /\ credentials'[t].revokedAt # Never
            /\ credentials'[t] = [credentials[t] EXCEPT
                                    !.revokedAt = credentials'[t].revokedAt]
            /\ \E p \in Processes : /\ IsAt(p, "left")
                                    /\ processes[p].token = t
    ]_accountsVars

(* Who can still show that it is the agent: the file or a process that is  *)
(* about to save has an active token that no handler is about to revoke,   *)
(* or a registration that has been allowed is under way.                   *)
WillBeRevoked(t) == \E p \in Processes : IsAt(p, "left") /\ processes[p].token = t

CanProve(a) ==
  \/ /\ file # NoCredentials
     /\ Proves(file.token, a)
     /\ ~WillBeRevoked(file.token)
  \/ \E p \in Processes :
       \/ processes[p].stage \in {"answered", "saving"}
            /\ Proves(processes[p].token, a)
       \/ processes[p].stage \in {"allowed", "registered"}
            /\ processes[p].agent = a

(* A registered agent keeps its identity, however registrations and        *)
(* deregistrations of several processes overlap, except in three cases: a  *)
(* command is cut short, the file is overwritten by the registration of    *)
(* another agent, or a deregister command removes a file that was saved    *)
(* since it started (app.rs:129-225; agent-marketplace.rs:60-84, 631-637,  *)
(* 656-684).                                                               *)
IdentityIsKept ==
  [][\A a \in Agents :
       (IsRegistered(a) /\ CanProve(a)) =>
         \/ (IsRegistered(a) => CanProve(a))'
         \/ \E p \in Processes :
              \/ GiveUp(p)
              \/ TruncateFile(p) /\ processes[p].agent # a
              \/ WriteFile(p) /\ processes[p].agent # a
              \/ RemoveFile(p) /\ processes[p].token # file.token
    ]_accountsVars

===============================================================================
