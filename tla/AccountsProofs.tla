---------------------------- MODULE AccountsProofs ----------------------------
(***************************************************************************)
(* What identity and its proof keep, for all agents, processes, numbers of *)
(* tokens and times, in whatever order handlers read them.                 *)
(***************************************************************************)
EXTENDS Accounts, TLAPS

(* The states of a process, by what it has in hand.                        *)
Asking ==
  [stage : {"asked", "proving"}, agent : Agents,
   token : Nat \cup {NoToken}, hasRegistrationToken : BOOLEAN, at : Time]
Registering == [stage : {"allowed", "registered"}, agent : Agents, at : Time]
Saving == [stage : {"answered", "saving"}, agent : Agents, token : Nat]
Leaving ==
  [stage : {"leaving"}, token : Nat \cup {NoToken}, at : Time]
Revoking ==
  [stage : {"authenticated", "left", "removing"}, token : Nat,
   agent : Agents, at : Time]

ProcessState ==
  {Idle} \cup Asking \cup Registering \cup Saving \cup Leaving \cup Revoking

Credential ==
  [agent : Agents, issuedAt : Time, revokedAt : Time \cup {Never}]

CredentialsOK ==
  /\ tokenCounter \in 0 .. MaxTokens
  /\ DOMAIN agents \subseteq Agents
  /\ DOMAIN credentials \subseteq 1 .. tokenCounter
  /\ credentials = [t \in DOMAIN credentials |-> credentials[t]]
  /\ \A t \in DOMAIN credentials :
       /\ credentials[t] \in Credential
       /\ credentials[t].agent \in DOMAIN agents
       /\ credentials[t].issuedAt <= credentials[t].revokedAt

(* A token was issued, and for the agent it is kept with.                  *)
BelongsTo(t, a) == t \in DOMAIN credentials /\ credentials[t].agent = a

FileOK ==
  file # NoCredentials =>
    /\ file = [agent |-> file.agent, token |-> file.token]
    /\ BelongsTo(file.token, file.agent)

(* What a process has in hand: the agent it registered is known, and the   *)
(* token it was given or showed is the agent's.                            *)
Holds(s) ==
  /\ s.stage = "registered" => s.agent \in DOMAIN agents
  /\ s.stage \in {"answered", "saving", "authenticated", "left"} =>
       BelongsTo(s.token, s.agent)

ProcessesOK ==
  /\ processes \in [Processes -> ProcessState]
  /\ \A p \in Processes : Holds(processes[p])

AccountsInv == CredentialsOK /\ FileOK /\ ProcessesOK

(* What becomes of credentials: RevokedForGood, for one token.             *)
RevokedOnly(t) ==
  /\ t \in DOMAIN credentials'
  /\ credentials'[t] # credentials[t] =>
       /\ credentials[t].revokedAt = Never
       /\ credentials'[t].revokedAt # Never
       /\ credentials'[t] = [credentials[t] EXCEPT
                               !.revokedAt = credentials'[t].revokedAt]
       /\ \E p \in Processes : IsAt(p, "left") /\ processes[p].token = t

(* Agents are never forgotten, and a credential keeps its agent.           *)
Remembers ==
  /\ DOMAIN agents \subseteq DOMAIN agents'
  /\ \A t \in DOMAIN credentials :
       t \in DOMAIN credentials' /\ credentials'[t].agent = credentials[t].agent

-----------------------------------------------------------------------------

LEMMA NeverIsNoTime == Never \notin Time /\ Time \subseteq Nat /\ Never \in Nat
BY AccountsAssumption DEF Never, Time

(* A process may change its stage within its kind of state.                *)
LEMMA StageMoves ==
  ASSUME NEW s \in ProcessState
  PROVE  /\ s.stage = "asked" => [s EXCEPT !.stage = "proving"] \in Asking
         /\ s.stage = "allowed" => [s EXCEPT !.stage = "registered"] \in Registering
         /\ s.stage = "answered" => [s EXCEPT !.stage = "saving"] \in Saving
         /\ s.stage = "authenticated" => [s EXCEPT !.stage = "left"] \in Revoking
         /\ s.stage = "left" => [s EXCEPT !.stage = "removing"] \in Revoking
<1>1. s.stage = "asked" => s \in Asking
  BY DEF ProcessState, Idle, Asking, Registering, Saving, Leaving, Revoking
<1>2. s.stage = "allowed" => s \in Registering
  BY DEF ProcessState, Idle, Asking, Registering, Saving, Leaving, Revoking
<1>3. s.stage = "answered" => s \in Saving
  BY DEF ProcessState, Idle, Asking, Registering, Saving, Leaving, Revoking
<1>4. s.stage \in {"authenticated", "left"} => s \in Revoking
  BY DEF ProcessState, Idle, Asking, Registering, Saving, Leaving, Revoking
<1>5. s.stage = "asked" => [s EXCEPT !.stage = "proving"] \in Asking
  BY <1>1 DEF Asking
<1>6. s.stage = "allowed" => [s EXCEPT !.stage = "registered"] \in Registering
  BY <1>2 DEF Registering
<1>7. s.stage = "answered" => [s EXCEPT !.stage = "saving"] \in Saving
  BY <1>3 DEF Saving
<1>8. s.stage = "authenticated" => [s EXCEPT !.stage = "left"] \in Revoking
  BY <1>4 DEF Revoking
<1>9. s.stage = "left" => [s EXCEPT !.stage = "removing"] \in Revoking
  BY <1>4 DEF Revoking
<1> QED
  BY <1>5, <1>6, <1>7, <1>8, <1>9

(* What such a move leaves.                                                *)
LEMMA StageOnly ==
  ASSUME NEW s \in ProcessState, NEW stage
  PROVE  /\ [s EXCEPT !.stage = stage].stage = stage
         /\ s.stage \in {"allowed", "answered", "authenticated", "left"} =>
              [s EXCEPT !.stage = stage].agent = s.agent
         /\ s.stage \in {"answered", "authenticated", "left"} =>
              [s EXCEPT !.stage = stage].token = s.token
BY DEF ProcessState, Idle, Asking, Registering, Saving, Leaving, Revoking

(* The types of what a process has in hand.                                *)
LEMMA InHand ==
  ASSUME NEW s \in ProcessState
  PROVE  /\ s.stage \in {"asked", "proving", "allowed", "registered"} =>
              s.agent \in Agents /\ s.at \in Time
         /\ s.stage \in {"answered", "saving", "authenticated", "left"} =>
              s.agent \in Agents /\ s.token \in Nat
         /\ s.stage \in {"leaving", "authenticated", "left"} => s.at \in Time
BY DEF ProcessState, Idle, Asking, Registering, Saving, Leaving, Revoking

(* What others hold stays true of what is only added to.                   *)
LEMMA RememberedIsHeld ==
  ASSUME Remembers, NEW s, Holds(s)
  PROVE  Holds(s)'
BY DEF Remembers, Holds, BelongsTo

(* Then one process at a time is all that has to be looked at.             *)
LEMMA OneProcessMoves ==
  ASSUME ProcessesOK, Remembers, NEW p \in Processes, NEW state \in ProcessState,
         Becomes(p, state),
         /\ state.stage = "registered" => state.agent \in DOMAIN agents'
         /\ state.stage \in {"answered", "saving", "authenticated", "left"} =>
              /\ state.token \in DOMAIN credentials'
              /\ credentials'[state.token].agent = state.agent
  PROVE  ProcessesOK'
<1>1. processes' \in [Processes -> ProcessState]
  BY DEF ProcessesOK, Becomes
<1>2. ASSUME NEW q \in Processes
      PROVE  Holds(processes[q])'
  <2>1. CASE q = p
    <3>1. processes'[q] = state
      BY <2>1 DEF ProcessesOK, Becomes
    <3> QED
      BY <3>1 DEF Holds, BelongsTo
  <2>2. CASE q # p
    <3>1. processes'[q] = processes[q]
      BY <2>2 DEF ProcessesOK, Becomes
    <3> QED
      BY <3>1 DEF ProcessesOK, Remembers, Holds, BelongsTo
  <2> QED
    BY <2>1, <2>2
<1> QED
  BY <1>1, <1>2 DEF ProcessesOK

LEMMA ExitOK ==
  ASSUME ProcessesOK, Remembers, NEW p \in Processes, Exits(p)
  PROVE  ProcessesOK'
<1>1. Idle \in ProcessState /\ Idle.stage = "idle"
  BY DEF ProcessState, Idle
<1> QED
  BY <1>1, OneProcessMoves DEF Exits

LEMMA FileKept ==
  ASSUME FileOK, Remembers, file' = file
  PROVE  FileOK'
BY DEF FileOK, Remembers, BelongsTo

-----------------------------------------------------------------------------
(* The steps.                                                              *)

Good == AccountsInv' /\ \A t \in DOMAIN credentials : RevokedOnly(t)

(* Most steps change neither credentials nor agents.                       *)
LEMMA NothingIssued ==
  ASSUME AccountsInv, UNCHANGED serverVars
  PROVE  /\ CredentialsOK' /\ Remembers
         /\ \A t \in DOMAIN credentials : RevokedOnly(t)
<1>1. /\ agents' = agents /\ credentials' = credentials
      /\ tokenCounter' = tokenCounter
  BY DEF serverVars, registryVars
<1> QED
  BY <1>1 DEF AccountsInv, CredentialsOK, Remembers, RevokedOnly

(* A process moves, and the server and the file stay as they are.          *)
LEMMA ProcessMoves ==
  ASSUME AccountsInv, UNCHANGED <<serverVars, file>>,
         NEW p \in Processes, NEW state \in ProcessState, Becomes(p, state),
         state.stage # "registered",
         state.stage \in {"answered", "saving", "authenticated", "left"} =>
           BelongsTo(state.token, state.agent)
  PROVE  Good
<1>1. /\ UNCHANGED serverVars /\ file' = file
      /\ credentials' = credentials
  BY DEF serverVars
<1>2. CredentialsOK' /\ Remembers /\ \A t \in DOMAIN credentials : RevokedOnly(t)
  BY <1>1, NothingIssued
<1>3. ProcessesOK'
  BY <1>1, <1>2, OneProcessMoves DEF AccountsInv, BelongsTo
<1> QED
  BY <1>1, <1>2, <1>3, FileKept DEF Good, AccountsInv

LEMMA ProcessExits ==
  ASSUME AccountsInv, UNCHANGED <<serverVars, file>>,
         NEW p \in Processes, Exits(p)
  PROVE  Good
<1>1. Idle \in ProcessState /\ Idle.stage = "idle"
  BY DEF ProcessState, Idle
<1> QED
  BY <1>1, ProcessMoves DEF Exits

LEMMA TokenOfFileOK ==
  ASSUME AccountsInv
  PROVE  TokenOfFile \in Nat \cup {NoToken}
BY DEF AccountsInv, CredentialsOK, FileOK, BelongsTo, TokenOfFile

LEMMA StartRegisterGood ==
  ASSUME AccountsInv, NEW p \in Processes, NEW a \in Agents,
         NEW withToken \in BOOLEAN, NEW at \in Time,
         StartRegister(p, a, withToken, at)
  PROVE  Good
<1> DEFINE state == [stage |-> "asked", agent |-> a, token |-> TokenOfFile,
                     hasRegistrationToken |-> withToken, at |-> at]
<1>1. state \in ProcessState /\ state.stage = "asked"
  BY TokenOfFileOK DEF ProcessState, Asking
<1>2. Becomes(p, state) /\ UNCHANGED <<serverVars, file>>
  BY DEF StartRegister
<1> HIDE DEF state
<1> QED
  BY <1>1, <1>2, ProcessMoves

LEMMA AllowsGood ==
  ASSUME AccountsInv, UNCHANGED <<serverVars, file>>, NEW p \in Processes,
         processes[p].stage \in {"asked", "proving"}, Allows(p)
  PROVE  Good
<1> DEFINE state == [stage |-> "allowed", agent |-> processes[p].agent,
                     at |-> processes[p].at]
<1>1. processes[p] \in ProcessState
  BY DEF AccountsInv, ProcessesOK
<1>2. state \in ProcessState /\ state.stage = "allowed"
  BY <1>1, InHand DEF ProcessState, Registering
<1>3. Becomes(p, state)
  BY DEF Allows
<1> HIDE DEF state
<1> QED
  BY <1>2, <1>3, ProcessMoves

LEMMA ListAgentsGood ==
  ASSUME AccountsInv, NEW p \in Processes, ListAgents(p)
  PROVE  Good
<1>1. /\ processes[p].stage = "asked" /\ UNCHANGED <<serverVars, file>>
      /\ Exits(p) \/ Reaches(p, "proving") \/ Allows(p)
  BY DEF ListAgents, IsAt
<1>2. processes[p] \in ProcessState
  BY DEF AccountsInv, ProcessesOK
<1>3. ASSUME Reaches(p, "proving")
      PROVE  Good
  <2> DEFINE state == [processes[p] EXCEPT !.stage = "proving"]
  <2>1. state \in ProcessState /\ state.stage = "proving"
    BY <1>1, <1>2, StageMoves, StageOnly DEF ProcessState
  <2>2. Becomes(p, state)
    BY <1>2, <1>3 DEF Reaches, Becomes, AccountsInv, ProcessesOK
  <2> HIDE DEF state
  <2> QED
    BY <1>1, <2>1, <2>2, ProcessMoves
<1> QED
  BY <1>1, <1>3, ProcessExits, AllowsGood

LEMMA ProveOwnerGood ==
  ASSUME AccountsInv, NEW p \in Processes, ProveOwner(p)
  PROVE  Good
<1>1. /\ processes[p].stage = "proving" /\ UNCHANGED <<serverVars, file>>
      /\ Exits(p) \/ Allows(p)
  BY DEF ProveOwner, IsAt
<1> QED
  BY <1>1, ProcessExits, AllowsGood

LEMMA RegisterAgentGood ==
  ASSUME AccountsInv, NEW p \in Processes, RegisterAgent(p)
  PROVE  Good
<1> DEFINE state == [processes[p] EXCEPT !.stage = "registered"]
<1>1. processes[p] \in ProcessState /\ processes[p].stage = "allowed"
  BY DEF AccountsInv, ProcessesOK, RegisterAgent, IsAt
<1>2. /\ state \in ProcessState /\ state.stage = "registered"
      /\ state.agent = processes[p].agent /\ processes[p].agent \in Agents
  BY <1>1, StageMoves, StageOnly, InHand DEF ProcessState
<1>3. /\ Becomes(p, state) /\ credentials' = credentials
      /\ tokenCounter' = tokenCounter /\ file' = file
  BY DEF RegisterAgent, Reaches, Becomes
<1>4. DOMAIN agents' = DOMAIN agents \cup {processes[p].agent}
  BY DEF RegisterAgent, Register
<1>5. Remembers /\ \A t \in DOMAIN credentials : RevokedOnly(t)
  BY <1>3, <1>4 DEF Remembers, RevokedOnly
<1>6. CredentialsOK'
  BY <1>2, <1>3, <1>4 DEF AccountsInv, CredentialsOK
<1> HIDE DEF state
<1>7. ProcessesOK'
  BY <1>2, <1>3, <1>4, <1>5, OneProcessMoves DEF AccountsInv
<1> QED
  BY <1>3, <1>5, <1>6, <1>7, FileKept DEF Good, AccountsInv

LEMMA IssueTokenGood ==
  ASSUME AccountsInv, NEW p \in Processes, IssueToken(p)
  PROVE  Good
<1> DEFINE a == processes[p].agent
           new == [agent |-> a, issuedAt |-> processes[p].at, revokedAt |-> Never]
           state == [stage |-> "answered", agent |-> a, token |-> NewToken]
<1>1. processes[p] \in ProcessState /\ processes[p].stage = "registered"
  BY DEF AccountsInv, ProcessesOK, IssueToken, IsAt
<1>2. a \in Agents /\ processes[p].at \in Time /\ a \in DOMAIN agents
  BY <1>1, InHand DEF AccountsInv, ProcessesOK, Holds
<1>3. /\ NewToken \in Nat /\ NewToken \in 0 .. MaxTokens
      /\ 1 .. tokenCounter \subseteq 1 .. NewToken /\ NewToken \in 1 .. NewToken
      /\ NewToken \notin DOMAIN credentials
  BY AccountsAssumption DEF AccountsInv, CredentialsOK, NewToken, IssueToken
<1>4. new \in Credential /\ new.issuedAt <= new.revokedAt
  BY <1>2, AccountsAssumption DEF Credential, Never, Time
<1>5. /\ DOMAIN credentials' = DOMAIN credentials \cup {NewToken}
      /\ credentials' = [t \in DOMAIN credentials' |-> credentials'[t]]
      /\ credentials'[NewToken] = new
      /\ \A t \in DOMAIN credentials : credentials'[t] = credentials[t]
  BY <1>3 DEF IssueToken
<1>6. /\ tokenCounter' = NewToken /\ file' = file /\ agents' = agents
      /\ Becomes(p, state)
  BY DEF IssueToken, registryVars
<1>7. Remembers /\ \A t \in DOMAIN credentials : RevokedOnly(t)
  BY <1>5, <1>6 DEF Remembers, RevokedOnly
<1>8. CredentialsOK'
  <2>1. ASSUME NEW t \in DOMAIN credentials'
        PROVE  /\ credentials'[t] \in Credential
               /\ credentials'[t].agent \in DOMAIN agents'
               /\ credentials'[t].issuedAt <= credentials'[t].revokedAt
    <3>1. CASE t = NewToken
      BY <1>2, <1>4, <1>5, <1>6, <3>1
    <3>2. CASE t # NewToken
      BY <1>5, <1>6, <3>2 DEF AccountsInv, CredentialsOK
    <3> QED
      BY <3>1, <3>2
  <2>2. DOMAIN credentials' \subseteq 1 .. tokenCounter'
    BY <1>3, <1>5, <1>6 DEF AccountsInv, CredentialsOK
  <2>3. Credential' = Credential
    BY DEF Credential, Time, Never
  <2> QED
    BY <1>3, <1>5, <1>6, <2>1, <2>2, <2>3 DEF AccountsInv, CredentialsOK
<1>9. /\ state \in ProcessState /\ state.stage = "answered"
      /\ state.token = NewToken /\ state.agent = a
  BY <1>2, <1>3 DEF ProcessState, Saving
<1>10. NewToken \in DOMAIN credentials' /\ credentials'[NewToken].agent = a
  BY <1>5
<1> HIDE DEF state, new, a
<1>11. ProcessesOK'
  BY <1>6, <1>7, <1>9, <1>10, OneProcessMoves DEF AccountsInv
<1> QED
  BY <1>6, <1>7, <1>8, <1>11, FileKept DEF Good, AccountsInv

(* The file changes, and then holds what the process had in hand.          *)
LEMMA FileMoves ==
  ASSUME AccountsInv, UNCHANGED serverVars, FileOK', ProcessesOK'
  PROVE  Good
BY NothingIssued DEF Good, AccountsInv

LEMMA TruncateFileGood ==
  ASSUME AccountsInv, NEW p \in Processes, TruncateFile(p)
  PROVE  Good
<1> DEFINE state == [processes[p] EXCEPT !.stage = "saving"]
<1>1. processes[p] \in ProcessState /\ processes[p].stage = "answered"
  BY DEF AccountsInv, ProcessesOK, TruncateFile, IsAt
<1>2. /\ state \in ProcessState /\ state.stage = "saving"
      /\ state.agent = processes[p].agent /\ state.token = processes[p].token
  BY <1>1, StageMoves, StageOnly DEF ProcessState
<1>3. BelongsTo(processes[p].token, processes[p].agent)
  BY <1>1 DEF AccountsInv, ProcessesOK, Holds
<1>4. Becomes(p, state) /\ UNCHANGED serverVars /\ credentials' = credentials
  BY DEF TruncateFile, Reaches, Becomes, serverVars
<1>5. FileOK'
  BY DEF TruncateFile, FileOK
<1> HIDE DEF state
<1>6. ProcessesOK'
  BY <1>2, <1>3, <1>4, NothingIssued, OneProcessMoves DEF AccountsInv, BelongsTo
<1> QED
  BY <1>4, <1>5, <1>6, FileMoves

LEMMA WriteFileGood ==
  ASSUME AccountsInv, NEW p \in Processes, WriteFile(p)
  PROVE  Good
<1>1. BelongsTo(processes[p].token, processes[p].agent)
  BY DEF AccountsInv, ProcessesOK, Holds, WriteFile, IsAt
<1>2. UNCHANGED serverVars /\ credentials' = credentials /\ Exits(p)
  BY DEF WriteFile, serverVars
<1>3. FileOK'
  BY <1>1, <1>2 DEF WriteFile, FileOK, BelongsTo
<1>4. ProcessesOK'
  BY <1>2, NothingIssued, ExitOK DEF AccountsInv
<1> QED
  BY <1>2, <1>3, <1>4, FileMoves

LEMMA RemoveFileGood ==
  ASSUME AccountsInv, NEW p \in Processes, RemoveFile(p)
  PROVE  Good
<1>1. UNCHANGED serverVars /\ Exits(p) /\ FileOK'
  BY DEF RemoveFile, FileOK
<1>2. ProcessesOK'
  BY <1>1, NothingIssued, ExitOK DEF AccountsInv
<1> QED
  BY <1>1, <1>2, FileMoves

LEMMA StartDeregisterGood ==
  ASSUME AccountsInv, NEW p \in Processes, NEW at \in Time,
         StartDeregister(p, at)
  PROVE  Good
<1> DEFINE state == [stage |-> "leaving", token |-> TokenOfFile, at |-> at]
<1>1. state \in ProcessState /\ state.stage = "leaving"
  BY TokenOfFileOK DEF ProcessState, Leaving
<1>2. Becomes(p, state) /\ UNCHANGED <<serverVars, file>>
  BY DEF StartDeregister
<1> HIDE DEF state
<1> QED
  BY <1>1, <1>2, ProcessMoves

LEMMA AuthenticateGood ==
  ASSUME AccountsInv, NEW p \in Processes, Authenticate(p)
  PROVE  Good
<1> DEFINE t == processes[p].token
           state == [stage |-> "authenticated", token |-> t,
                     agent |-> credentials[t].agent, at |-> processes[p].at]
<1>1. processes[p] \in ProcessState /\ processes[p].stage = "leaving"
  BY DEF AccountsInv, ProcessesOK, Authenticate, IsAt
<1>2. UNCHANGED <<serverVars, file>>
  BY DEF Authenticate
<1>3. CASE IsActive(t) /\ Becomes(p, state)
  <2>1. /\ t \in DOMAIN credentials /\ t \in Nat
        /\ credentials[t].agent \in Agents /\ processes[p].at \in Time
    BY <1>1, <1>3, InHand
       DEF IsActive, AccountsInv, CredentialsOK, Credential
  <2>2. /\ state \in ProcessState /\ state.stage = "authenticated"
        /\ BelongsTo(state.token, state.agent)
    BY <2>1 DEF ProcessState, Revoking, BelongsTo
  <2>3. Becomes(p, state)
    BY <1>3
  <2> HIDE DEF state
  <2> QED
    BY <1>2, <2>2, <2>3, ProcessMoves
<1>4. CASE Exits(p)
  BY <1>2, <1>4, ProcessExits
<1> QED
  BY <1>3, <1>4 DEF Authenticate

LEMMA DeregisterAgentGood ==
  ASSUME AccountsInv, NEW p \in Processes, DeregisterAgent(p)
  PROVE  Good
<1> DEFINE state == [processes[p] EXCEPT !.stage = "left"]
<1>1. processes[p] \in ProcessState /\ processes[p].stage = "authenticated"
  BY DEF AccountsInv, ProcessesOK, DeregisterAgent, IsAt
<1>2. /\ state \in ProcessState /\ state.stage = "left"
      /\ state.agent = processes[p].agent /\ state.token = processes[p].token
  BY <1>1, StageMoves, StageOnly DEF ProcessState
<1>3. BelongsTo(processes[p].token, processes[p].agent)
  BY <1>1 DEF AccountsInv, ProcessesOK, Holds
<1>4. /\ Becomes(p, state) /\ credentials' = credentials
      /\ tokenCounter' = tokenCounter /\ file' = file
      /\ DOMAIN agents' = DOMAIN agents
  BY DEF DeregisterAgent, Reaches, Becomes, Deregister, registryVars
<1>5. Remembers /\ \A t \in DOMAIN credentials : RevokedOnly(t)
  BY <1>4 DEF Remembers, RevokedOnly
<1>6. CredentialsOK'
  BY <1>4 DEF AccountsInv, CredentialsOK
<1> HIDE DEF state
<1>7. ProcessesOK'
  BY <1>2, <1>3, <1>4, <1>5, OneProcessMoves DEF AccountsInv, BelongsTo
<1> QED
  BY <1>4, <1>5, <1>6, <1>7, FileKept DEF Good, AccountsInv

(* Only here a credential changes, and only one that was never revoked.    *)
LEMMA RevokeCredentialGood ==
  ASSUME AccountsInv, NEW p \in Processes, RevokeCredential(p)
  PROVE  Good
<1> DEFINE t == processes[p].token
           at == processes[p].at
           state == [processes[p] EXCEPT !.stage = "removing"]
<1>1. processes[p] \in ProcessState /\ processes[p].stage = "left"
  BY DEF AccountsInv, ProcessesOK, RevokeCredential, IsAt
<1>2. t \in DOMAIN credentials /\ at \in Time
  BY <1>1, InHand DEF AccountsInv, ProcessesOK, Holds, BelongsTo
<1>3. /\ state \in ProcessState /\ state.stage = "removing"
  BY <1>1, StageMoves, StageOnly DEF ProcessState
<1>4. /\ tokenCounter' = tokenCounter /\ file' = file /\ agents' = agents
  BY DEF RevokeCredential, registryVars
<1>5. CASE ~IsInOrder(t, at)
  <2>1. UNCHANGED <<serverVars, file>> /\ Exits(p)
    BY <1>5 DEF RevokeCredential, serverVars
  <2> QED
    BY <2>1, ProcessExits
<1>6. CASE IsInOrder(t, at)
  <2>1. credentials' = Revoked(t, at) /\ Becomes(p, state)
    BY <1>6 DEF RevokeCredential, Reaches, Becomes
  <2>2. ASSUME NEW u \in DOMAIN credentials
        PROVE  /\ u \in DOMAIN credentials'
               /\ credentials'[u] \in Credential
               /\ credentials'[u].agent = credentials[u].agent
               /\ credentials'[u].issuedAt <= credentials'[u].revokedAt
               /\ RevokedOnly(u)
    <3>1. /\ credentials[u] \in Credential
          /\ credentials[u].issuedAt <= credentials[u].revokedAt
      BY DEF AccountsInv, CredentialsOK
    <3>2. CASE ~IsActive(t) \/ u # t
      <4>1. credentials'[u] = credentials[u] /\ u \in DOMAIN credentials'
        BY <2>1, <3>2 DEF Revoked, AccountsInv, CredentialsOK
      <4> QED
        BY <3>1, <4>1 DEF RevokedOnly
    <3>3. CASE IsActive(t) /\ u = t
      <4>1. /\ credentials'[t] = [credentials[t] EXCEPT !.revokedAt = at]
            /\ t \in DOMAIN credentials'
        BY <1>2, <2>1, <3>3 DEF Revoked, AccountsInv, CredentialsOK
      <4>2. credentials[t].revokedAt = Never /\ at >= credentials[t].issuedAt
        BY <1>6, <3>3 DEF IsActive, IsInOrder
      <4>3. /\ credentials'[t] \in Credential
            /\ credentials'[t].agent = credentials[t].agent
            /\ credentials'[t].issuedAt = credentials[t].issuedAt
            /\ credentials'[t].revokedAt = at
        BY <1>2, <3>1, <3>3, <4>1 DEF Credential
      <4>4. at # Never
        BY <1>2, NeverIsNoTime
      <4>5. credentials'[t].issuedAt <= credentials'[t].revokedAt
        BY <1>2, <3>1, <3>3, <4>2, <4>3, NeverIsNoTime DEF Credential
      <4>6. RevokedOnly(t)
        BY <1>1, <4>1, <4>2, <4>3, <4>4 DEF RevokedOnly, IsAt
      <4> QED
        BY <3>3, <4>1, <4>3, <4>5, <4>6
    <3> QED
      BY <3>2, <3>3
  <2>3. /\ DOMAIN credentials' = DOMAIN credentials
        /\ credentials' = [u \in DOMAIN credentials' |-> credentials'[u]]
    BY <2>1 DEF Revoked, AccountsInv, CredentialsOK
  <2>4. Remembers
    BY <1>4, <2>2 DEF Remembers
  <2>5. CredentialsOK'
    <3>1. Credential' = Credential
      BY DEF Credential, Time, Never
    <3> QED
      BY <1>4, <2>2, <2>3, <3>1 DEF AccountsInv, CredentialsOK
  <2> HIDE DEF state
  <2>6. ProcessesOK'
    BY <1>3, <2>1, <2>4, OneProcessMoves DEF AccountsInv
  <2> QED
    BY <1>4, <2>2, <2>4, <2>5, <2>6, FileKept DEF Good, AccountsInv
<1> QED
  BY <1>5, <1>6

LEMMA GiveUpGood ==
  ASSUME AccountsInv, NEW p \in Processes, GiveUp(p)
  PROVE  Good
BY ProcessExits DEF GiveUp

-----------------------------------------------------------------------------
(* Who can prove what.                                                     *)

(* A process that brings a new token to the file, and one that goes on to  *)
(* have the token revoked it found there.                                  *)
Brings(s) == s.stage \in {"answered", "saving"}
Shows(s) == s.stage \in {"leaving", "authenticated", "left", "removing"}

(* The inductive invariant of IdentityIsKept: a token that is not in the   *)
(* file yet is active and in one hand only, so that nobody can have it     *)
(* revoked, and who is about to remove the file has had its token revoked. *)
TokensOK ==
  \A p \in Processes :
    /\ Shows(processes[p]) => processes[p].token \in DOMAIN credentials
    /\ IsAt(p, "removing") =>
         credentials[processes[p].token].revokedAt # Never
    /\ Brings(processes[p]) =>
         /\ IsActive(processes[p].token)
         /\ file # NoCredentials => file.token # processes[p].token
         /\ \A q \in Processes \ {p} :
              Brings(processes[q]) \/ Shows(processes[q])
                => processes[q].token # processes[p].token

(* The parts of CanProve.                                                  *)
FileProves(a) ==
  file # NoCredentials /\ Proves(file.token, a) /\ ~WillBeRevoked(file.token)
ProcessProves(s, a) ==
  \/ Brings(s) /\ Proves(s.token, a)
  \/ s.stage \in {"allowed", "registered"} /\ s.agent = a

(* IdentityIsKept, for one agent.                                          *)
KeepsIdentity(a) ==
  (IsRegistered(a) /\ CanProve(a)) =>
    \/ (IsRegistered(a) => CanProve(a))'
    \/ \E p \in Processes :
         \/ GiveUp(p)
         \/ TruncateFile(p) /\ processes[p].agent # a
         \/ WriteFile(p) /\ processes[p].agent # a
         \/ RemoveFile(p) /\ processes[p].token # file.token

Kept == TokensOK' /\ \A a \in Agents : KeepsIdentity(a)

LEMMA ProofParts ==
  ASSUME NEW a
  PROVE  /\ CanProve(a) <=>
              FileProves(a) \/ \E p \in Processes : ProcessProves(processes[p], a)
         /\ (FileProves(a) \/ \E p \in Processes : ProcessProves(processes[p], a))'
              => CanProve(a)'
BY DEF CanProve, FileProves, ProcessProves, Brings

(* The processes but the one that moves.                                   *)
LEMMA OthersStay ==
  ASSUME AccountsInv, NEW p \in Processes, NEW state, Becomes(p, state)
  PROVE  /\ processes'[p] = state
         /\ \A q \in Processes \ {p} : processes'[q] = processes[q]
BY DEF Becomes, AccountsInv, ProcessesOK

(* A new token stays active and a revoked one revoked, whatever happens.   *)
LEMMA TokensStay ==
  ASSUME AccountsInv, TokensOK, \A t \in DOMAIN credentials : RevokedOnly(t)
  PROVE  /\ \A t \in DOMAIN credentials :
              /\ t \in DOMAIN credentials'
              /\ credentials[t].revokedAt # Never
                   => credentials'[t].revokedAt # Never
              /\ ~WillBeRevoked(t) => credentials'[t] = credentials[t]
         /\ \A p \in Processes : Brings(processes[p]) =>
              /\ processes[p].token \in DOMAIN credentials
              /\ ~WillBeRevoked(processes[p].token)
<1>1. ASSUME NEW p \in Processes, Brings(processes[p])
      PROVE  /\ processes[p].token \in DOMAIN credentials
             /\ ~WillBeRevoked(processes[p].token)
  BY <1>1 DEF TokensOK, IsActive, WillBeRevoked, IsAt, Brings, Shows
<1> QED
  BY <1>1 DEF RevokedOnly, WillBeRevoked

(* Then, when a process moves, what it has in hand afterwards is all that  *)
(* has to be looked at.                                                    *)
LEMMA OneTokenMoves ==
  ASSUME AccountsInv, TokensOK, \A t \in DOMAIN credentials : RevokedOnly(t),
         NEW p \in Processes, NEW state, Becomes(p, state),
         file' # NoCredentials =>
           \/ file' = file
           \/ Brings(processes[p]) /\ file'.token = processes[p].token,
         Shows(state) =>
           /\ state.token \in DOMAIN credentials
           /\ \A q \in Processes \ {p} :
                Brings(processes[q]) => processes[q].token # state.token,
         state.stage = "removing" => credentials'[state.token].revokedAt # Never,
         Brings(state) =>
           /\ state.token \in DOMAIN credentials'
           /\ credentials'[state.token].revokedAt = Never
           /\ file' # NoCredentials => file'.token # state.token
           /\ \A q \in Processes \ {p} :
                Brings(processes[q]) \/ Shows(processes[q])
                  => processes[q].token # state.token
  PROVE  TokensOK'
<1>1. ASSUME NEW r \in Processes
      PROVE  /\ Shows(processes'[r]) => processes'[r].token \in DOMAIN credentials'
             /\ processes'[r].stage = "removing" =>
                  credentials'[processes'[r].token].revokedAt # Never
             /\ Brings(processes'[r]) =>
                  /\ IsActive(processes[r].token)'
                  /\ file' # NoCredentials => file'.token # processes'[r].token
  <2>1. CASE r = p
    BY <2>1, OthersStay, TokensStay DEF IsActive, Never
  <2>2. CASE r # p
    <3>1. processes'[r] = processes[r]
      BY <2>2, OthersStay
    <3>2. Brings(processes[r]) =>
            /\ IsActive(processes[r].token)
            /\ ~WillBeRevoked(processes[r].token)
            /\ processes[r].token \in DOMAIN credentials
            /\ file # NoCredentials => file.token # processes[r].token
            /\ Brings(processes[p]) => processes[p].token # processes[r].token
      BY <2>2, TokensStay DEF TokensOK
    <3>3. Brings(processes[r]) => IsActive(processes[r].token)'
      BY <3>1, <3>2, TokensStay DEF IsActive
    <3>4. Brings(processes[r]) /\ file' # NoCredentials
            => file'.token # processes[r].token
      BY <3>2
    <3>5. Shows(processes[r]) => processes[r].token \in DOMAIN credentials'
      BY TokensStay DEF TokensOK
    <3>6. processes[r].stage = "removing" =>
            credentials'[processes[r].token].revokedAt # Never
      BY TokensStay DEF TokensOK, IsAt, Shows
    <3> QED
      BY <3>1, <3>3, <3>4, <3>5, <3>6
  <2> QED
    BY <2>1, <2>2
<1>2. ASSUME NEW r \in Processes, NEW q \in Processes \ {r},
             Brings(processes'[r]),
             Brings(processes'[q]) \/ Shows(processes'[q])
      PROVE  processes'[q].token # processes'[r].token
  <2>1. CASE r = p
    BY <1>2, <2>1, OthersStay
  <2>2. CASE q = p /\ r # p
    BY <1>2, <2>2, OthersStay
  <2>3. CASE q # p /\ r # p
    BY <1>2, <2>3, OthersStay DEF TokensOK
  <2> QED
    BY <2>1, <2>2, <2>3
<1> QED
  BY <1>1, <1>2 DEF TokensOK, IsAt, Brings, Shows

(* What proves an agent goes on proving it, in the hands of others and in  *)
(* the file.                                                               *)
LEMMA OthersProve ==
  ASSUME AccountsInv, TokensOK, \A t \in DOMAIN credentials : RevokedOnly(t),
         Remembers,
         NEW p \in Processes, NEW state, Becomes(p, state), NEW a,
         \/ /\ FileProves(a)
            /\ file' = file
            /\ ~(state.stage = "left" /\ state.token = file.token)
         \/ \E q \in Processes \ {p} : ProcessProves(processes[q], a)
  PROVE  CanProve(a)'
<1>1. CASE /\ FileProves(a)
           /\ file' = file
           /\ ~(state.stage = "left" /\ state.token = file.token)
  <2>1. /\ file.token \in DOMAIN credentials'
        /\ credentials'[file.token] = credentials[file.token]
    BY <1>1, TokensStay DEF FileProves, Proves, IsActive
  <2>2. ~ \E q \in Processes : /\ processes'[q].stage = "left"
                               /\ processes'[q].token = file.token
    BY <1>1, OthersStay DEF FileProves, WillBeRevoked, IsAt
  <2>3. FileProves(a)'
    BY <1>1, <2>1, <2>2 DEF FileProves, Proves, IsActive, WillBeRevoked, IsAt, Never
  <2> QED
    BY <2>3, ProofParts
<1>2. ASSUME NEW q \in Processes \ {p}, ProcessProves(processes[q], a)
      PROVE  CanProve(a)'
  <2>1. processes'[q] = processes[q]
    BY OthersStay
  <2>2. Brings(processes[q]) =>
          /\ processes[q].token \in DOMAIN credentials'
          /\ credentials'[processes[q].token] = credentials[processes[q].token]
    BY TokensStay
  <2>3. ProcessProves(processes[q], a)'
    BY <1>2, <2>1, <2>2 DEF ProcessProves, Brings, Proves, IsActive, Never
  <2> QED
    BY <2>3, ProofParts
<1> QED
  BY <1>1, <1>2

(* A process that brings, proves and shows nothing, before or after.       *)
LEMMA QuietMove ==
  ASSUME AccountsInv, TokensOK, Good, Remembers,
         NEW p \in Processes, NEW state, Becomes(p, state), file' = file,
         ~Brings(state), ~Shows(state),
         \A a \in Agents : ProcessProves(processes[p], a) =>
           state.stage \in {"allowed", "registered"} /\ state.agent = a
  PROVE  Kept
<1>1. TokensOK'
  BY OneTokenMoves DEF Good, Brings, Shows
<1>2. ASSUME NEW a \in Agents, CanProve(a)
      PROVE  CanProve(a)'
  <2>1. CASE ProcessProves(processes[p], a)
    <3>1. ProcessProves(processes[p], a)'
      BY <2>1, OthersStay DEF ProcessProves, Brings, Proves, IsActive, Never
    <3> QED
      BY <3>1, ProofParts
  <2>2. CASE ~ProcessProves(processes[p], a)
    BY <1>2, <2>2, ProofParts, OthersProve DEF Good, Shows
  <2> QED
    BY <2>1, <2>2
<1> QED
  BY <1>1, <1>2 DEF Kept, KeepsIdentity

LEMMA NothingShown ==
  ASSUME AccountsInv, TokensOK, Good, Remembers, file' = file,
         NEW p \in Processes, Exits(p),
         ~Brings(processes[p]), processes[p].stage \notin {"allowed", "registered"}
  PROVE  Kept
BY QuietMove DEF Exits, Idle, Brings, Shows, ProcessProves

LEMMA StartRegisterKept ==
  ASSUME AccountsInv, TokensOK, Good, Remembers, NEW p \in Processes,
         NEW a \in Agents, NEW withToken \in BOOLEAN, NEW at \in Time,
         StartRegister(p, a, withToken, at)
  PROVE  Kept
<1>1. PICK state : state = [stage |-> "asked", agent |-> a,
                            token |-> TokenOfFile,
                            hasRegistrationToken |-> withToken, at |-> at]
  OBVIOUS
<1>2. Becomes(p, state) /\ file' = file /\ processes[p].stage = "idle"
  BY <1>1 DEF StartRegister, IsAt
<1> QED
  BY <1>1, <1>2, QuietMove DEF Brings, Shows, ProcessProves

LEMMA AllowsKept ==
  ASSUME AccountsInv, TokensOK, Good, Remembers, NEW p \in Processes,
         file' = file, processes[p].stage \in {"asked", "proving"}, Allows(p)
  PROVE  Kept
<1>1. PICK state : state = [stage |-> "allowed", agent |-> processes[p].agent,
                            at |-> processes[p].at]
  OBVIOUS
<1>2. Becomes(p, state)
  BY <1>1 DEF Allows
<1> QED
  BY <1>1, <1>2, QuietMove DEF Brings, Shows, ProcessProves

LEMMA ListAgentsKept ==
  ASSUME AccountsInv, TokensOK, Good, Remembers, NEW p \in Processes,
         ListAgents(p)
  PROVE  Kept
<1>1. /\ processes[p].stage = "asked" /\ file' = file
      /\ Exits(p) \/ Reaches(p, "proving") \/ Allows(p)
  BY DEF ListAgents, IsAt
<1>2. ASSUME Reaches(p, "proving")
      PROVE  Kept
  <2>1. PICK state : state = [processes[p] EXCEPT !.stage = "proving"]
    OBVIOUS
  <2>2. state.stage = "proving"
    BY <2>1, StageOnly DEF AccountsInv, ProcessesOK
  <2>3. Becomes(p, state)
    BY <1>2, <2>1 DEF Reaches, Becomes, AccountsInv, ProcessesOK
  <2> QED
    BY <1>1, <2>2, <2>3, QuietMove DEF Brings, Shows, ProcessProves
<1>3. ASSUME Exits(p)
      PROVE  Kept
  BY <1>1, <1>3, NothingShown DEF Brings
<1> QED
  BY <1>1, <1>2, <1>3, AllowsKept

LEMMA ProveOwnerKept ==
  ASSUME AccountsInv, TokensOK, Good, Remembers, NEW p \in Processes,
         ProveOwner(p)
  PROVE  Kept
<1>1. /\ processes[p].stage = "proving" /\ file' = file
      /\ Exits(p) \/ Allows(p)
  BY DEF ProveOwner, IsAt
<1>2. ASSUME Exits(p)
      PROVE  Kept
  BY <1>1, <1>2, NothingShown DEF Brings
<1> QED
  BY <1>1, <1>2, AllowsKept

LEMMA RegisterAgentKept ==
  ASSUME AccountsInv, TokensOK, Good, Remembers, NEW p \in Processes,
         RegisterAgent(p)
  PROVE  Kept
<1>1. PICK state : state = [processes[p] EXCEPT !.stage = "registered"]
  OBVIOUS
<1>2. processes[p] \in ProcessState /\ processes[p].stage = "allowed"
  BY DEF AccountsInv, ProcessesOK, RegisterAgent, IsAt
<1>3. state.stage = "registered" /\ state.agent = processes[p].agent
  BY <1>1, <1>2, StageOnly
<1>4. Becomes(p, state) /\ file' = file
  BY <1>1 DEF RegisterAgent, Reaches, Becomes
<1> QED
  BY <1>2, <1>3, <1>4, QuietMove DEF Brings, Shows, ProcessProves

(* A token is in nobody's hands when it is issued.                         *)
LEMMA IssueTokenKept ==
  ASSUME AccountsInv, TokensOK, Good, Remembers, NEW p \in Processes,
         IssueToken(p)
  PROVE  Kept
<1>1. PICK state : state = [stage |-> "answered", agent |-> processes[p].agent,
                            token |-> NewToken]
  OBVIOUS
<1>2. /\ Becomes(p, state) /\ file' = file /\ processes[p].stage = "registered"
      /\ NewToken \notin DOMAIN credentials
      /\ NewToken \in DOMAIN credentials'
      /\ credentials'[NewToken].revokedAt = Never
      /\ credentials'[NewToken].agent = processes[p].agent
  BY <1>1 DEF IssueToken, IsAt, AccountsInv, CredentialsOK, NewToken
<1>3. ASSUME NEW q \in Processes, Brings(processes[q]) \/ Shows(processes[q])
      PROVE  processes[q].token \in DOMAIN credentials
  BY <1>3 DEF TokensOK, IsActive
<1>4. file # NoCredentials => file.token \in DOMAIN credentials
  BY DEF AccountsInv, FileOK, BelongsTo
<1>5. Brings(state) /\ ~Shows(state) /\ state.token = NewToken
  BY <1>1 DEF Brings, Shows
<1>6. TokensOK'
  BY <1>1, <1>2, <1>3, <1>4, <1>5, OneTokenMoves DEF Good
<1>7. ASSUME NEW a \in Agents, CanProve(a)
      PROVE  CanProve(a)'
  <2>1. CASE processes[p].agent = a
    <3>1. ProcessProves(processes[p], a)'
      BY <1>1, <1>2, <1>5, <2>1, OthersStay
         DEF ProcessProves, Brings, Proves, IsActive, Never
    <3> QED
      BY <3>1, ProofParts
  <2>2. CASE processes[p].agent # a
    <3>1. ~ProcessProves(processes[p], a)
      BY <1>2, <2>2 DEF ProcessProves, Brings
    <3>2. state.stage # "left"
      BY <1>1
    <3> QED
      BY <1>2, <1>7, <3>1, <3>2, ProofParts, OthersProve DEF Good
  <2> QED
    BY <2>1, <2>2
<1> QED
  BY <1>6, <1>7 DEF Kept, KeepsIdentity

LEMMA TruncateFileKept ==
  ASSUME AccountsInv, TokensOK, Good, Remembers, NEW p \in Processes,
         TruncateFile(p)
  PROVE  Kept
<1>1. PICK state : state = [processes[p] EXCEPT !.stage = "saving"]
  OBVIOUS
<1>2. processes[p] \in ProcessState /\ processes[p].stage = "answered"
  BY DEF AccountsInv, ProcessesOK, TruncateFile, IsAt
<1>3. /\ state.stage = "saving" /\ state.agent = processes[p].agent
      /\ state.token = processes[p].token
  BY <1>1, <1>2, StageOnly
<1>4. /\ Becomes(p, state) /\ file' = NoCredentials
      /\ credentials' = credentials
  BY <1>1 DEF TruncateFile, Reaches, Becomes, serverVars
<1>5. Brings(processes[p]) /\ Brings(state) /\ ~Shows(state)
  BY <1>2, <1>3 DEF Brings, Shows
<1>6. /\ IsActive(state.token)
      /\ credentials[state.token].agent = state.agent
      /\ \A q \in Processes \ {p} :
           Brings(processes[q]) \/ Shows(processes[q])
             => processes[q].token # state.token
  BY <1>2, <1>3, <1>5 DEF TokensOK, AccountsInv, ProcessesOK, Holds, BelongsTo
<1>7. TokensOK'
  BY <1>3, <1>4, <1>5, <1>6, OneTokenMoves DEF Good, IsActive
<1>8. ASSUME NEW a \in Agents, a = processes[p].agent
      PROVE  CanProve(a)'
  <2>1. ProcessProves(processes[p], a)'
    BY <1>3, <1>4, <1>5, <1>6, <1>8, OthersStay
       DEF ProcessProves, Brings, Proves, IsActive, Never
  <2> QED
    BY <2>1, ProofParts
<1> QED
  BY <1>7, <1>8 DEF Kept, KeepsIdentity

(* The token that is written is in no other hand, so nobody revokes it.    *)
LEMMA WriteFileKept ==
  ASSUME AccountsInv, TokensOK, Good, Remembers, NEW p \in Processes,
         WriteFile(p)
  PROVE  Kept
<1>1. PICK t : t = processes[p].token
  OBVIOUS
<1>2. /\ processes[p].stage = "saving" /\ Brings(processes[p])
      /\ Becomes(p, Idle) /\ credentials' = credentials
      /\ file' = [agent |-> processes[p].agent, token |-> t]
  BY <1>1 DEF WriteFile, IsAt, Exits, serverVars, Brings
<1>3. /\ IsActive(t) /\ credentials[t].agent = processes[p].agent
      /\ \A q \in Processes \ {p} :
           Brings(processes[q]) \/ Shows(processes[q]) => processes[q].token # t
  BY <1>1, <1>2 DEF TokensOK, AccountsInv, ProcessesOK, Holds, BelongsTo
<1>4. ~Brings(Idle) /\ ~Shows(Idle) /\ Idle.stage = "idle"
  BY DEF Brings, Shows, Idle
<1>5. TokensOK'
  BY <1>1, <1>2, <1>4, OneTokenMoves DEF Good
<1>6. file' # NoCredentials
  <2>1. processes[p] \in ProcessState
    BY DEF AccountsInv, ProcessesOK
  <2>2. file' \in [agent : Agents, token : Nat]
    BY <1>1, <1>2, <2>1, InHand
  <2> QED
    BY <2>2, AccountsAssumption
<1>7. ASSUME NEW a \in Agents, a = processes[p].agent
      PROVE  CanProve(a)'
  <2>1. ~ \E q \in Processes : /\ processes'[q].stage = "left"
                               /\ processes'[q].token = t
    BY <1>2, <1>3, <1>4, OthersStay DEF Shows
  <2>2. FileProves(a)'
    BY <1>2, <1>3, <1>6, <1>7, <2>1
       DEF FileProves, Proves, IsActive, WillBeRevoked, IsAt, Never
  <2> QED
    BY <2>2, ProofParts
<1> QED
  BY <1>5, <1>7 DEF Kept, KeepsIdentity

(* The token of the file is not one that somebody is about to bring.       *)
LEMMA StartDeregisterKept ==
  ASSUME AccountsInv, TokensOK, Good, Remembers, NEW p \in Processes,
         NEW at \in Time, StartDeregister(p, at)
  PROVE  Kept
<1>1. PICK state : state = [stage |-> "leaving", token |-> TokenOfFile, at |-> at]
  OBVIOUS
<1>2. /\ Becomes(p, state) /\ file' = file /\ processes[p].stage = "idle"
      /\ file # NoCredentials /\ state.token = file.token
  BY <1>1 DEF StartDeregister, IsAt, TokenOfFile
<1>3. state.token \in DOMAIN credentials
  BY <1>2 DEF AccountsInv, FileOK, BelongsTo
<1>4. /\ ~Brings(state) /\ state.stage = "leaving"
      /\ \A q \in Processes \ {p} :
           Brings(processes[q]) => processes[q].token # state.token
  BY <1>1, <1>2 DEF Brings, TokensOK
<1>5. TokensOK'
  BY <1>2, <1>3, <1>4, OneTokenMoves DEF Good
<1>6. ASSUME NEW a \in Agents, CanProve(a)
      PROVE  CanProve(a)'
  BY <1>2, <1>4, <1>6, ProofParts, OthersProve DEF Good, ProcessProves, Brings
<1> QED
  BY <1>5, <1>6 DEF Kept, KeepsIdentity

(* What a process that deregisters has shown goes with it to the next      *)
(* stage.                                                                  *)
LEMMA ShownTokenMoves ==
  ASSUME AccountsInv, TokensOK, Good, NEW p \in Processes, NEW state,
         Becomes(p, state), file' = file, Shows(processes[p]),
         Shows(state), ~Brings(state), state.token = processes[p].token,
         state.stage = "removing" => credentials'[state.token].revokedAt # Never
  PROVE  TokensOK'
<1>1. /\ state.token \in DOMAIN credentials
      /\ \A q \in Processes \ {p} :
           Brings(processes[q]) => processes[q].token # state.token
  BY DEF TokensOK
<1> QED
  BY <1>1, OneTokenMoves DEF Good

LEMMA AuthenticateKept ==
  ASSUME AccountsInv, TokensOK, Good, Remembers, NEW p \in Processes,
         Authenticate(p)
  PROVE  Kept
<1>1. PICK t : t = processes[p].token
  OBVIOUS
<1>2. processes[p].stage = "leaving" /\ file' = file
  BY DEF Authenticate, IsAt
<1>3. CASE Exits(p)
  BY <1>2, <1>3, NothingShown DEF Brings
<1>4. CASE Becomes(p, [stage |-> "authenticated", token |-> t,
                       agent |-> credentials[t].agent,
                       at |-> processes[p].at])
  <2>1. PICK state : state = [stage |-> "authenticated", token |-> t,
                              agent |-> credentials[t].agent,
                              at |-> processes[p].at]
    OBVIOUS
  <2>2. /\ Becomes(p, state) /\ Shows(state) /\ ~Brings(state)
        /\ state.token = processes[p].token /\ state.stage = "authenticated"
    BY <1>1, <1>4, <2>1 DEF Shows, Brings
  <2>3. TokensOK'
    BY <1>2, <2>2, ShownTokenMoves DEF Shows
  <2>4. ASSUME NEW a \in Agents, CanProve(a)
        PROVE  CanProve(a)'
    BY <1>2, <2>2, <2>4, ProofParts, OthersProve DEF Good, ProcessProves, Brings
  <2> QED
    BY <2>3, <2>4 DEF Kept, KeepsIdentity
<1> QED
  BY <1>1, <1>3, <1>4 DEF Authenticate

(* From here on the token is taken for one that will be revoked, and its   *)
(* agent is no longer registered.                                          *)
LEMMA DeregisterAgentKept ==
  ASSUME AccountsInv, TokensOK, Good, Remembers, NEW p \in Processes,
         DeregisterAgent(p)
  PROVE  Kept
<1>1. PICK state : state = [processes[p] EXCEPT !.stage = "left"]
  OBVIOUS
<1>2. processes[p] \in ProcessState /\ processes[p].stage = "authenticated"
  BY DEF AccountsInv, ProcessesOK, DeregisterAgent, IsAt
<1>3. /\ state.stage = "left" /\ state.token = processes[p].token
      /\ Shows(state) /\ ~Brings(state) /\ Shows(processes[p])
  BY <1>1, <1>2, StageOnly DEF Shows, Brings
<1>4. /\ Becomes(p, state) /\ file' = file
      /\ \/ Deregister(processes[p].agent)
         \/ ~IsRegistered(processes[p].agent)
  BY <1>1 DEF DeregisterAgent, Reaches, Becomes
<1>5. TokensOK'
  BY <1>3, <1>4, ShownTokenMoves
<1>6. ASSUME NEW a \in Agents, IsRegistered(a), CanProve(a), IsRegistered(a)'
      PROVE  CanProve(a)'
  <2>1. processes[p].agent # a
    <3>1. ASSUME Deregister(a)
          PROVE  FALSE
      BY <1>6, <3>1 DEF Deregister, IsRegistered
    <3> QED
      BY <1>4, <1>6, <3>1
  <2>2. credentials[state.token].agent # a
    BY <1>2, <1>3, <2>1 DEF AccountsInv, ProcessesOK, Holds, BelongsTo
  <2>3. FileProves(a) => state.token # file.token
    BY <2>2 DEF FileProves, Proves
  <2>4. ~ProcessProves(processes[p], a)
    BY <1>2 DEF ProcessProves, Brings
  <2> QED
    BY <1>4, <1>6, <2>3, <2>4, ProofParts, OthersProve DEF Good
<1> QED
  BY <1>5, <1>6 DEF Kept, KeepsIdentity

LEMMA RevokeCredentialKept ==
  ASSUME AccountsInv, TokensOK, Good, Remembers, NEW p \in Processes,
         RevokeCredential(p)
  PROVE  Kept
<1>1. PICK t : t = processes[p].token
  OBVIOUS
<1>2. /\ processes[p] \in ProcessState /\ processes[p].stage = "left"
      /\ file' = file
  BY DEF AccountsInv, ProcessesOK, RevokeCredential, IsAt
<1>3. CASE Exits(p)
  BY <1>2, <1>3, NothingShown DEF Brings
<1>4. CASE /\ credentials' = Revoked(t, processes[p].at)
           /\ Reaches(p, "removing")
  <2>1. PICK state : state = [processes[p] EXCEPT !.stage = "removing"]
    OBVIOUS
  <2>2. /\ state.stage = "removing" /\ state.token = processes[p].token
        /\ Shows(state) /\ ~Brings(state) /\ Shows(processes[p])
    BY <1>2, <2>1, StageOnly DEF Shows, Brings
  <2>3. Becomes(p, state)
    BY <1>4, <2>1 DEF Reaches, Becomes
  <2>4. processes[p].at # Never /\ t \in DOMAIN credentials
    BY <1>1, <1>2, InHand, NeverIsNoTime
       DEF AccountsInv, ProcessesOK, Holds, BelongsTo
  <2>5. credentials'[t].revokedAt # Never
    <3>1. CASE IsActive(t)
      <4>1. credentials'[t] = [credentials[t] EXCEPT !.revokedAt = processes[p].at]
        BY <1>4, <2>4, <3>1 DEF Revoked
      <4>2. credentials[t] \in Credential
        BY <2>4 DEF AccountsInv, CredentialsOK
      <4> QED
        BY <2>4, <4>1, <4>2 DEF Credential
    <3>2. CASE ~IsActive(t)
      BY <1>4, <2>4, <3>2 DEF Revoked, IsActive
    <3> QED
      BY <3>1, <3>2
  <2>6. TokensOK'
    BY <1>1, <1>2, <2>2, <2>3, <2>5, ShownTokenMoves
  <2>7. ASSUME NEW a \in Agents, CanProve(a)
        PROVE  CanProve(a)'
    BY <1>2, <2>2, <2>3, <2>7, ProofParts, OthersProve
       DEF Good, ProcessProves, Brings
  <2> QED
    BY <2>6, <2>7 DEF Kept, KeepsIdentity
<1> QED
  BY <1>1, <1>3, <1>4 DEF RevokeCredential

(* The token of who removes the file proves nothing any more.              *)
LEMMA RemoveFileKept ==
  ASSUME AccountsInv, TokensOK, Good, Remembers, NEW p \in Processes,
         RemoveFile(p)
  PROVE  Kept
<1>1. /\ processes[p].stage = "removing" /\ Becomes(p, Idle)
      /\ file' = NoCredentials
  BY DEF RemoveFile, IsAt, Exits
<1>2. ~Brings(Idle) /\ ~Shows(Idle) /\ Idle.stage = "idle"
  BY DEF Brings, Shows, Idle
<1>3. TokensOK'
  BY <1>1, <1>2, OneTokenMoves DEF Good
<1>4. credentials[processes[p].token].revokedAt # Never
  BY <1>1 DEF TokensOK, IsAt
<1>5. ASSUME NEW a \in Agents, CanProve(a), processes[p].token = file.token
      PROVE  CanProve(a)'
  <2>1. ~FileProves(a) /\ ~ProcessProves(processes[p], a)
    BY <1>1, <1>4, <1>5 DEF FileProves, Proves, IsActive, ProcessProves, Brings
  <2> QED
    BY <1>1, <1>5, <2>1, ProofParts, OthersProve DEF Good
<1> QED
  BY <1>3, <1>5 DEF Kept, KeepsIdentity

LEMMA GiveUpKept ==
  ASSUME AccountsInv, TokensOK, Good, Remembers, NEW p \in Processes,
         GiveUp(p)
  PROVE  Kept
<1>1. Becomes(p, Idle) /\ file' = file
  BY DEF GiveUp, Exits
<1>2. ~Brings(Idle) /\ ~Shows(Idle) /\ Idle.stage = "idle"
  BY DEF Brings, Shows, Idle
<1>3. TokensOK'
  BY <1>1, <1>2, OneTokenMoves DEF Good
<1> QED
  BY <1>3 DEF Kept, KeepsIdentity

(* Nobody and nothing that was issued is forgotten.                        *)
LEMMA NothingForgotten ==
  ASSUME AccountsInv, \A t \in DOMAIN credentials : RevokedOnly(t),
         NEW p \in Processes,
         \/ UNCHANGED registryVars
         \/ \E a \in Agents : Register(a) \/ Deregister(a)
  PROVE  Remembers
<1>1. DOMAIN agents \subseteq DOMAIN agents'
  BY DEF registryVars, Register, Deregister
<1>2. ASSUME NEW t \in DOMAIN credentials
      PROVE  t \in DOMAIN credentials' /\ credentials'[t].agent = credentials[t].agent
  <2>1. credentials[t] \in Credential
    BY DEF AccountsInv, CredentialsOK
  <2> QED
    BY <2>1 DEF RevokedOnly, Credential
<1> QED
  BY <1>1, <1>2 DEF Remembers

-----------------------------------------------------------------------------

LEMMA AccountsInitInv == AccountsInit => AccountsInv
<1> SUFFICES ASSUME AccountsInit
             PROVE  AccountsInv
  OBVIOUS
<1>1. CredentialsOK
  BY AccountsAssumption DEF AccountsInit, RegistryInit, CredentialsOK
<1>2. FileOK
  BY DEF AccountsInit, FileOK
<1>3. ProcessesOK
  BY DEF AccountsInit, ProcessesOK, ProcessState, Idle, Holds
<1> QED
  BY <1>1, <1>2, <1>3 DEF AccountsInv

LEMMA AccountsStep ==
  ASSUME AccountsInv, [AccountsNext]_accountsVars
  PROVE  Good
<1>1. CASE UNCHANGED accountsVars
  <2>1. /\ UNCHANGED serverVars /\ file' = file /\ processes' = processes
        /\ credentials' = credentials
    BY <1>1 DEF accountsVars, serverVars, registryVars
  <2>2. FileOK' /\ ProcessesOK'
    BY <2>1 DEF AccountsInv, FileOK, ProcessesOK, Holds, BelongsTo,
                registryVars, serverVars
  <2> QED
    BY <2>1, <2>2, FileMoves
<1>2. ASSUME NEW p \in Processes,
             \/ \E a \in Agents, withToken \in BOOLEAN, at \in Time :
                  StartRegister(p, a, withToken, at)
             \/ ListAgents(p) \/ ProveOwner(p) \/ RegisterAgent(p)
             \/ IssueToken(p) \/ TruncateFile(p) \/ WriteFile(p)
      PROVE  Good
  BY <1>2, StartRegisterGood, ListAgentsGood, ProveOwnerGood,
     RegisterAgentGood, IssueTokenGood, TruncateFileGood, WriteFileGood
<1>3. ASSUME NEW p \in Processes,
             \/ \E at \in Time : StartDeregister(p, at)
             \/ Authenticate(p) \/ DeregisterAgent(p) \/ RevokeCredential(p)
             \/ RemoveFile(p) \/ GiveUp(p)
      PROVE  Good
  BY <1>3, StartDeregisterGood, AuthenticateGood, DeregisterAgentGood,
     RevokeCredentialGood, RemoveFileGood, GiveUpGood
<1> QED
  BY <1>1, <1>2, <1>3 DEF AccountsNext

LEMMA AccountsInvariant == AccountsSpec => []AccountsInv
<1>1. AccountsInv /\ [AccountsNext]_accountsVars => AccountsInv'
  BY AccountsStep DEF Good
<1> QED
  BY <1>1, AccountsInitInv, PTL DEF AccountsSpec

(* However registrations, deregistrations and killed commands overlap, a   *)
(* credential names an agent that is known and is not revoked before it    *)
(* was issued, and nobody ever keeps a token with another agent's name     *)
(* (storage/core.rs:29-81; app.rs:129-225; agent-marketplace.rs:631-684).  *)
THEOREM AccountsTypeCorrect == AccountsSpec => []AccountsTypeOK
<1>1. AccountsInv => AccountsTypeOK
  <2> SUFFICES ASSUME AccountsInv
               PROVE  AccountsTypeOK
    OBVIOUS
  <2>1. \A t \in DOMAIN credentials :
          /\ credentials[t].agent \in DOMAIN agents
          /\ credentials[t].issuedAt <= credentials[t].revokedAt
          /\ credentials[t].revokedAt \in Time \cup {Never}
    BY DEF AccountsInv, CredentialsOK, Credential
  <2>2. \A p \in Processes :
          processes[p].stage \in {"answered", "saving", "authenticated", "left"} =>
            /\ processes[p].token \in DOMAIN credentials
            /\ credentials[processes[p].token].agent = processes[p].agent
    BY DEF AccountsInv, ProcessesOK, Holds, BelongsTo
  <2> QED
    BY <2>1, <2>2
       DEF AccountsInv, CredentialsOK, FileOK, BelongsTo, AccountsTypeOK
<1> QED
  BY <1>1, AccountsInvariant, PTL

(* A credential changes once in its life, when whoever used it to          *)
(* deregister revokes it: late handlers and clocks that were set back      *)
(* cannot give it back its force (storage/core.rs:29-44, 56-81;            *)
(* app.rs:213-225).                                                        *)
THEOREM RevocationsStand == AccountsSpec => RevokedForGood
<1>1. AccountsInv /\ [AccountsNext]_accountsVars
        => [\A t \in DOMAIN credentials : RevokedOnly(t)]_accountsVars
  BY AccountsStep DEF Good
<1>2. (\A t \in DOMAIN credentials : RevokedOnly(t))
        => \A t \in DOMAIN credentials :
             /\ t \in DOMAIN credentials'
             /\ credentials'[t] # credentials[t] =>
                  /\ credentials[t].revokedAt = Never
                  /\ credentials'[t].revokedAt # Never
                  /\ credentials'[t] = [credentials[t] EXCEPT
                                          !.revokedAt = credentials'[t].revokedAt]
                  /\ \E p \in Processes : /\ IsAt(p, "left")
                                          /\ processes[p].token = t
  BY DEF RevokedOnly
<1> QED
  BY <1>1, <1>2, AccountsInvariant, PTL DEF AccountsSpec, RevokedForGood

LEMMA TokensInit == AccountsInit => TokensOK
BY DEF AccountsInit, TokensOK, Brings, Shows, IsAt, Idle

LEMMA AccountsKept ==
  ASSUME AccountsInv, TokensOK, [AccountsNext]_accountsVars
  PROVE  Kept
<1>1. Good
  BY AccountsStep
<1>2. CASE UNCHANGED accountsVars
  <2>1. /\ agents' = agents /\ credentials' = credentials
        /\ file' = file /\ processes' = processes
    BY <1>2 DEF accountsVars, registryVars
  <2>2. TokensOK'
    BY <2>1 DEF TokensOK, IsAt, IsActive, Never
  <2>3. ASSUME NEW a \in Agents
        PROVE  CanProve(a)' = CanProve(a)
    BY <2>1 DEF CanProve, Proves, IsActive, WillBeRevoked, IsAt, Never
  <2> QED
    BY <2>2, <2>3 DEF Kept, KeepsIdentity
<1>3. ASSUME NEW p \in Processes,
             \/ \E a \in Agents, withToken \in BOOLEAN, at \in Time :
                  StartRegister(p, a, withToken, at)
             \/ ListAgents(p) \/ ProveOwner(p) \/ RegisterAgent(p)
             \/ IssueToken(p) \/ TruncateFile(p) \/ WriteFile(p)
      PROVE  Kept
  <2>1. \/ UNCHANGED registryVars
        \/ \E a \in Agents : Register(a)
    <3>1. RegisterAgent(p) => \E a \in Agents : Register(a)
      <4>1. RegisterAgent(p) => processes[p].agent \in Agents
        BY InHand DEF AccountsInv, ProcessesOK, RegisterAgent, IsAt
      <4> QED
        BY <4>1 DEF RegisterAgent
    <3> QED
      BY <1>3, <3>1
         DEF StartRegister, ListAgents, ProveOwner, IssueToken, TruncateFile,
             WriteFile, serverVars
  <2>2. Remembers
    BY <1>1, <2>1, NothingForgotten DEF Good
  <2> QED
    BY <1>1, <1>3, <2>2, StartRegisterKept, ListAgentsKept, ProveOwnerKept,
       RegisterAgentKept, IssueTokenKept, TruncateFileKept, WriteFileKept
<1>4. ASSUME NEW p \in Processes,
             \/ \E at \in Time : StartDeregister(p, at)
             \/ Authenticate(p) \/ DeregisterAgent(p) \/ RevokeCredential(p)
             \/ RemoveFile(p) \/ GiveUp(p)
      PROVE  Kept
  <2>1. \/ UNCHANGED registryVars
        \/ \E a \in Agents : Deregister(a)
    <3>1. DeregisterAgent(p) =>
            UNCHANGED registryVars \/ \E a \in Agents : Deregister(a)
      <4>1. DeregisterAgent(p) => processes[p].agent \in Agents
        BY InHand DEF AccountsInv, ProcessesOK, DeregisterAgent, IsAt
      <4> QED
        BY <4>1 DEF DeregisterAgent
    <3> QED
      BY <1>4, <3>1
         DEF StartDeregister, Authenticate, RevokeCredential, RemoveFile,
             GiveUp, serverVars
  <2>2. Remembers
    BY <1>1, <2>1, NothingForgotten DEF Good
  <2> QED
    BY <1>1, <1>4, <2>2, StartDeregisterKept, AuthenticateKept,
       DeregisterAgentKept, RevokeCredentialKept, RemoveFileKept, GiveUpKept
<1> QED
  BY <1>2, <1>3, <1>4 DEF AccountsNext

(* A registered agent that can prove itself keeps its proof through any    *)
(* overlap of registrations and deregistrations, unless a command is cut   *)
(* short, another agent's registration takes the file, or a deregister     *)
(* command removes a file that was saved since it read it (app.rs:129-225; *)
(* agent-marketplace.rs:60-84, 631-637, 656-684).                          *)
THEOREM IdentitiesAreKept == AccountsSpec => IdentityIsKept
<1>1. AccountsInit => AccountsInv /\ TokensOK
  BY AccountsInitInv, TokensInit
<1>2. AccountsInv /\ TokensOK /\ [AccountsNext]_accountsVars
        => (AccountsInv /\ TokensOK)'
  BY AccountsStep, AccountsKept DEF Good, Kept
<1>3. AccountsInv /\ TokensOK /\ [AccountsNext]_accountsVars
        => [\A a \in Agents : KeepsIdentity(a)]_accountsVars
  BY AccountsKept DEF Kept
<1>4. (\A a \in Agents : KeepsIdentity(a))
        => \A a \in Agents :
             (IsRegistered(a) /\ CanProve(a)) =>
               \/ (IsRegistered(a) => CanProve(a))'
               \/ \E p \in Processes :
                    \/ GiveUp(p)
                    \/ TruncateFile(p) /\ processes[p].agent # a
                    \/ WriteFile(p) /\ processes[p].agent # a
                    \/ RemoveFile(p) /\ processes[p].token # file.token
  BY DEF KeepsIdentity
<1> QED
  BY <1>1, <1>2, <1>3, <1>4, PTL DEF AccountsSpec, IdentityIsKept

===============================================================================
