----------------------- MODULE ChannelAdmissionProofs -----------------------
(***************************************************************************)
(* Proofs about ChannelAdmission, for any number of connects, connections, *)
(* identities and endpoints and any values of the time limits.             *)
(*                                                                         *)
(* The properties follow from one inductive invariant that traces every    *)
(* frame back to the state of the end that sent it.                        *)
(***************************************************************************)
EXTENDS ChannelAdmission, TLAPS

\* Transcript t was made by connection t.sessionID and is still described by
\* that connection's state.
MadeBySession(t) ==
    /\ t.generation = t.sessionID
    /\ t.endpoint = sEndpoint[t.sessionID]
    /\ t.issued <= wall
    /\ t.expires = t.issued + Lifetime
    /\ sState[t.sessionID] \notin {"idle", "unauthenticated"}

\* What a server keeps: its own challenge, and its admission.
ServerInv ==
    /\ \A t \in challenges : MadeBySession(t)
    /\ OneChallengePerConnection
    /\ \A s \in Servers :
         /\ \A t \in sTranscript[s] : t \in challenges /\ t.sessionID = s
         /\ \A t \in sAdmitted[s] : t \in challenges /\ t.sessionID = s
         /\ sAdmitted[s] # {} => sState[s] = "authenticated"
         /\ phase[s] = "idle" => sState[s] = "idle"

\* What a client keeps: the one challenge it took up, if it got that far.
ClientInv ==
    \A c \in Clients :
      /\ cState[c] \in {"idle", "helloSent"} => cTranscript[c] = {}
      /\ \A t \in cTranscript[c] :
           /\ cTranscript[c] = {t}
           /\ t \in challenges
           /\ t.clientNonce = c
           /\ t.identity = cIdentity[c]
           /\ t.endpoint = cEndpoint[c]

\* A proof in transit was signed by the connect whose nonce it covers, which
\* is past the point of signing.
ProofInv ==
    \A p \in proofs :
      LET t == p.signature.over IN
      /\ p.sessionID = t.sessionID /\ p.generation = t.generation
      /\ p.signature.key = t.identity
      /\ t.clientNonce \in Clients
      /\ cTranscript[t.clientNonce] = {t}
      /\ cState[t.clientNonce] \notin {"idle", "helloSent", "signing"}

\* Some connect's proof covers exactly t.
Proven(t) == \E p \in proofs : p.signature = [key |-> t.identity, over |-> t]

\* A server past verification rests on a proof of what it admits.
AdmittedInv ==
    \A s \in Servers :
      /\ sState[s] = "verifying" => \A t \in sTranscript[s] : Proven(t)
      /\ \A t \in sAdmitted[s] : Proven(t) /\ sAdmitted[s] = {t}

\* A command uses the Cell of an admitted connection, and acts under the
\* admitted identity.
CommandInv ==
    \A s \in Servers : \A u \in command[s] :
      \E t \in sAdmitted[s] : u.kind = "act" => u.whom = t.identity

\* An acknowledgement, and a client that took one, rest on an admission.
AcceptInv ==
    /\ \A a \in accepts : sAdmitted[a.sessionID] = {a.digest}
    /\ \A c \in Clients : \A t \in cAdmitted[c] :
         t \in cTranscript[c] /\ sAdmitted[t.sessionID] = {t}

IInv == /\ TypeOK /\ ServerInv /\ ClientInv /\ ProofInv
        /\ AdmittedInv /\ CommandInv /\ AcceptInv

-----------------------------------------------------------------------------
(* Types.                                                                  *)

\* A connection's transcript for a hello that exists is a Transcript.
LEMMA NewTranscriptType ==
    ASSUME TypeOK, NEW s \in Servers, NEW h \in hellos \cup ForeignHellos
    PROVE  NewTranscript(s, h) \in Transcript
  BY ChannelAssumption
  DEF TypeOK, Hello, ForeignHellos, NewTranscript, Transcript, Nonces

\* Every step of a client keeps the types.
LEMMA ClientTypes ==
    ASSUME TypeOK, NEW c \in Clients, ClientNext(c)
    PROVE  TypeOK'
<1> USE ChannelAssumption DEF serverVars, handshakeVars, clocks, frames,
        connectVars, clientVars
<1>1. CASE ClientHello(c)
  BY <1>1 DEF ClientHello, TypeOK, ClientStates, Hello, Nonces
<1>2. CASE BeginChallenge(c)
  BY <1>2 DEF BeginChallenge, TypeOK, ClientStates, ClientClose
<1>3. CASE Accept(c)
  BY <1>3 DEF Accept, TypeOK, ClientStates, ClientClose
<1>4. CASE ClientFail(c) \/ ClientTimeout(c)
  BY <1>4 DEF ClientFail, ClientTimeout, TypeOK, ClientStates, ClientClose
<1>5. ASSUME NEW key \in Keys, FinishChallenge(c, key) PROVE TypeOK'
  <2>1. PICK t \in cTranscript[c] :
          \/ proofs' = proofs
          \/ proofs' = proofs \cup {[sessionID |-> t.sessionID,
                                     generation |-> t.generation,
                                     signature |-> [key |-> key, over |-> t]]}
    BY <1>5 DEF FinishChallenge
  <2>2. t \in Transcript
    BY DEF TypeOK
  <2>3. [sessionID |-> t.sessionID, generation |-> t.generation,
         signature |-> [key |-> key, over |-> t]] \in Proof
    BY <2>2 DEF Proof, Signature, Transcript
  <2>4. proofs' \subseteq Proof
    BY <2>1, <2>3 DEF TypeOK
  <2> QED
    BY <1>5, <2>4 DEF FinishChallenge, TypeOK, ClientStates, ClientClose
<1> QED
  BY <1>1, <1>2, <1>3, <1>4, <1>5 DEF ClientNext

\* Every step of a server keeps the types.
LEMMA ServerTypes ==
    ASSUME TypeOK, NEW s \in Servers, ServerNext(s)
    PROVE  TypeOK'
<1> USE ChannelAssumption DEF handshakeVars, clocks, frames, clientVars,
        connectVars, ServerClose, ServeReturns, ServerStates, Phases
<1>1. CASE ServerStart(s)
  BY <1>1 DEF ServerStart, TypeOK
<1>2. CASE ReceiveHello(s)
  BY <1>2, NewTranscriptType DEF ReceiveHello, TypeOK
<1>3. CASE ReceiveProof(s) \/ ReceiveUnexpected(s)
  BY <1>3 DEF ReceiveProof, ReceiveUnexpected, TypeOK
<1>4. ASSUME NEW ok \in BOOLEAN, FinishProof(s, ok) PROVE TypeOK'
  <2>1. PICK t \in sTranscript[s] :
          \/ accepts' = accepts /\ sAdmitted' = sAdmitted
          \/ /\ accepts' = accepts \cup {[sessionID |-> t.sessionID,
                                         generation |-> s, digest |-> t]}
             /\ sAdmitted' = [sAdmitted EXCEPT ![s] = {t}]
    BY <1>4 DEF FinishProof
  <2>2. t \in Transcript
    BY DEF TypeOK
  <2>3. [sessionID |-> t.sessionID, generation |-> s, digest |-> t] \in Accepted
    BY <2>2 DEF Accepted, Transcript
  <2>4. accepts' \subseteq Accepted /\ sAdmitted' \in [Servers -> SUBSET Transcript]
    BY <2>1, <2>2, <2>3 DEF TypeOK
  <2> QED
    BY <1>4, <2>4 DEF FinishProof, TypeOK
<1>5. CASE ReadTimeout(s) \/ PeerGone(s) \/ RefuseCommand(s)
  BY <1>5 DEF ReadTimeout, PeerGone, RefuseCommand, TypeOK
<1>6. CASE OpenCell(s) \/ Respond(s)
  BY <1>6 DEF OpenCell, Respond, TypeOK
<1>7. ASSUME NEW cmd \in Commands, NEW presented \in AtMostOneKey,
             NEW requester \in AtMostOneKey,
             HandleCommand(s, cmd, presented, requester)
      PROVE  TypeOK'
  <2>1. Uses(cmd, presented, requester) \subseteq Use
    BY DEF Uses, Use, AtMostOneKey
  <2> QED
    BY <1>7, <2>1 DEF HandleCommand, TypeOK
<1> QED
  BY <1>1, <1>2, <1>3, <1>4, <1>5, <1>6, <1>7 DEF ServerNext

\* So does every step of the system.
LEMMA TypeStep == TypeOK /\ [Next]_vars => TypeOK'
<1> SUFFICES ASSUME TypeOK, [Next]_vars PROVE TypeOK'
  OBVIOUS
<1>1. CASE Environment
  BY <1>1 DEF Environment, TickMono, TickWall, TypeOK, frames, clientVars,
     connectVars, serverVars, handshakeVars
<1>2. CASE UNCHANGED vars
  BY <1>2 DEF TypeOK, vars, clocks, frames, clientVars, connectVars,
     serverVars, handshakeVars
<1> QED
  BY <1>1, <1>2, ClientTypes, ServerTypes DEF Next

\* Spec keeps every variable in its type.
THEOREM TypeCorrect == Spec => []TypeOK
<1>1. Init => TypeOK
  BY ChannelAssumption DEF Init, TypeOK, ClientStates, ServerStates, Phases
<1> QED
  BY <1>1, TypeStep, PTL DEF Spec

-----------------------------------------------------------------------------
(* What one side's steps leave alone.                                      *)

\* A client's step touches no connection and sends only hellos and proofs.
LEMMA ClientFrame ==
    ASSUME NEW c \in Clients, ClientNext(c)
    PROVE  UNCHANGED <<mono, wall, challenges, accepts, sEndpoint, sState,
                       sTranscript, sDeadline, sAdmitted, phase, command,
                       cIdentity, cEndpoint, cOffset>>
  BY DEF ClientNext, ClientHello, BeginChallenge, FinishChallenge, Accept,
     ClientFail, ClientTimeout, ClientClose, clocks, frames, serverVars,
     handshakeVars, connectVars

\* A server's step touches no connect and sends only challenges and
\* acknowledgements.
LEMMA ServerFrame ==
    ASSUME NEW s \in Servers, ServerNext(s)
    PROVE  UNCHANGED <<mono, wall, hellos, proofs, sEndpoint, cState,
                       cTranscript, cDeadline, cAdmitted, cIdentity,
                       cEndpoint, cOffset>>
  BY DEF ServerNext, ServerStart, ReceiveHello, ReceiveProof, FinishProof,
     ReceiveUnexpected, ReadTimeout, PeerGone, OpenCell, RefuseCommand,
     Respond, HandleCommand, ServerClose, ServeReturns, clocks, frames,
     clientVars, connectVars, handshakeVars

-----------------------------------------------------------------------------
(* The inductive invariant, conjunct by conjunct.                          *)

\* Challenges stay unique per connection and described by its state.
LEMMA ServerInvStep ==
    ASSUME IInv, [Next]_vars
    PROVE  ServerInv'
<1> USE DEF IInv, ServerInv, MadeBySession, OneChallengePerConnection
<1>1. ASSUME NEW c \in Clients, ClientNext(c) PROVE ServerInv'
  BY <1>1, ClientFrame
<1>2. CASE Environment
  BY <1>2 DEF Environment, TickMono, TickWall, TypeOK, Transcript, frames,
     clientVars, serverVars, handshakeVars
<1>3. ASSUME NEW s \in Servers, ServerNext(s) PROVE ServerInv'
  <2> USE DEF ServerClose, ServeReturns, handshakeVars, frames, clocks
  <2>0. UNCHANGED <<wall, sEndpoint>>
    BY <1>3, ServerFrame
  <2>1. CASE ServerStart(s)
    BY <2>0, <2>1 DEF ServerStart, TypeOK, Transcript
  <2>2. CASE ReceiveHello(s)
    <3>1. PICK h \in hellos \cup ForeignHellos :
            \/ /\ sState' = [sState EXCEPT ![s] = "challengeIssued"]
               /\ sTranscript' = [sTranscript EXCEPT ![s] = {NewTranscript(s, h)}]
               /\ challenges' = challenges \cup {NewTranscript(s, h)}
               /\ UNCHANGED <<sAdmitted, phase>>
            \/ ServerClose(s) /\ UNCHANGED challenges
      BY <2>2 DEF ReceiveHello
    <3>2. NewTranscript(s, h) \in Transcript
      BY NewTranscriptType
    <3> QED
      BY <2>0, <2>2, <3>1, <3>2, ChannelAssumption
      DEF ReceiveHello, NewTranscript, TypeOK, Transcript
  <2>3. CASE ReceiveProof(s) \/ ReceiveUnexpected(s)
    BY <2>0, <2>3 DEF ReceiveProof, ReceiveUnexpected, TypeOK, Transcript
  <2>4. ASSUME NEW ok \in BOOLEAN, FinishProof(s, ok) PROVE ServerInv'
    BY <2>0, <2>4 DEF FinishProof, TypeOK, Transcript
  <2>5. CASE ReadTimeout(s) \/ PeerGone(s) \/ RefuseCommand(s)
    BY <2>0, <2>5 DEF ReadTimeout, PeerGone, RefuseCommand, TypeOK
  <2>6. CASE OpenCell(s) \/ Respond(s)
    BY <2>0, <2>6 DEF OpenCell, Respond, TypeOK
  <2>7. ASSUME NEW cmd, NEW presented, NEW requester,
               HandleCommand(s, cmd, presented, requester)
        PROVE  ServerInv'
    BY <2>0, <2>7 DEF HandleCommand, TypeOK
  <2> QED
    BY <1>3, <2>1, <2>2, <2>3, <2>4, <2>5, <2>6, <2>7 DEF ServerNext
<1>4. CASE UNCHANGED vars
  BY <1>4 DEF vars, clocks, frames, serverVars, handshakeVars
<1> QED
  BY <1>1, <1>2, <1>3, <1>4 DEF Next

\* Challenges are never withdrawn, so what a client took up stays issued.
LEMMA ChallengesGrow ==
    ASSUME [Next]_vars
    PROVE  challenges \subseteq challenges'
<1>1. ASSUME NEW s \in Servers, ServerNext(s)
      PROVE  challenges \subseteq challenges'
  BY <1>1 DEF ServerNext, ServerStart, ReceiveHello, ReceiveProof,
     FinishProof, ReceiveUnexpected, ReadTimeout, PeerGone, OpenCell,
     RefuseCommand, Respond, HandleCommand, ServerClose, ServeReturns, frames
<1> QED
  BY <1>1, ClientFrame DEF Next, Environment, TickMono, TickWall, frames, vars

\* A client keeps the one challenge it took up.
LEMMA ClientInvStep ==
    ASSUME IInv, [Next]_vars
    PROVE  ClientInv'
<1> USE DEF IInv, ClientInv
<1>1. ASSUME NEW c \in Clients, ClientNext(c) PROVE ClientInv'
  <2> USE DEF ClientClose, connectVars
  <2>0. UNCHANGED <<challenges, cIdentity, cEndpoint>>
    BY <1>1, ClientFrame
  <2>1. CASE ClientHello(c)
    BY <2>0, <2>1 DEF ClientHello, TypeOK
  <2>2. CASE BeginChallenge(c)
    BY <2>0, <2>2 DEF BeginChallenge, ChallengeMatches, TypeOK
  <2>3. CASE Accept(c)
    BY <2>0, <2>3 DEF Accept, TypeOK
  <2>4. CASE ClientFail(c) \/ ClientTimeout(c)
    BY <2>0, <2>4 DEF ClientFail, ClientTimeout, TypeOK
  <2>5. ASSUME NEW key \in Keys, FinishChallenge(c, key) PROVE ClientInv'
    BY <2>0, <2>5 DEF FinishChallenge, TypeOK
  <2> QED
    BY <1>1, <2>1, <2>2, <2>3, <2>4, <2>5 DEF ClientNext
<1>2. CASE Environment
  BY <1>2, ChallengesGrow DEF Environment, TickMono, TickWall, clientVars,
     connectVars
<1>3. ASSUME NEW s \in Servers, ServerNext(s) PROVE ClientInv'
  BY <1>3, ServerFrame, ChallengesGrow
<1>4. CASE UNCHANGED vars
  BY <1>4 DEF vars, frames, clientVars, connectVars
<1> QED
  BY <1>1, <1>2, <1>3, <1>4 DEF Next

\* Proofs in transit stay backed by the connect that signed them.
LEMMA ProofInvStep ==
    ASSUME IInv, [Next]_vars
    PROVE  ProofInv'
<1> USE DEF IInv, ProofInv
<1>1. ASSUME NEW c \in Clients, ClientNext(c) PROVE ProofInv'
  <2> USE DEF ClientClose, connectVars, frames
  <2>1. CASE ClientHello(c)
    BY <2>1 DEF ClientHello, TypeOK
  <2>2. CASE BeginChallenge(c)
    BY <2>2 DEF BeginChallenge, TypeOK
  <2>3. CASE Accept(c)
    BY <2>3 DEF Accept, TypeOK
  <2>4. CASE ClientFail(c) \/ ClientTimeout(c)
    BY <2>4 DEF ClientFail, ClientTimeout, TypeOK
  <2>5. ASSUME NEW key \in Keys, FinishChallenge(c, key) PROVE ProofInv'
    BY <2>5 DEF FinishChallenge, VerifySignature, ClientInv, TypeOK
  <2> QED
    BY <1>1, <2>1, <2>2, <2>3, <2>4, <2>5 DEF ClientNext
<1>2. CASE Environment
  BY <1>2 DEF Environment, TickMono, TickWall, frames, clientVars
<1>3. ASSUME NEW s \in Servers, ServerNext(s) PROVE ProofInv'
  BY <1>3, ServerFrame
<1>4. CASE UNCHANGED vars
  BY <1>4 DEF vars, frames, clientVars
<1> QED
  BY <1>1, <1>2, <1>3, <1>4 DEF Next

\* Proofs are never withdrawn.
LEMMA ProvenStays ==
    ASSUME [Next]_vars, NEW t, Proven(t)
    PROVE  Proven(t)'
<1>1. proofs \subseteq proofs'
  <2>1. ASSUME NEW c \in Clients, ClientNext(c) PROVE proofs \subseteq proofs'
    BY <2>1 DEF ClientNext, ClientHello, BeginChallenge, FinishChallenge,
       Accept, ClientFail, ClientTimeout, frames
  <2> QED
    BY <2>1, ServerFrame DEF Next, Environment, TickMono, TickWall, frames, vars
<1> QED
  BY <1>1 DEF Proven

\* What a server's proof check establishes: a client's signature over t.
LEMMA ProofHoldsProves ==
    ASSUME TypeOK, NEW s \in Servers, NEW t \in sTranscript[s],
           NEW p \in proofs \cup ForeignProofs, ProofHolds(s, t, p)
    PROVE  Proven(t)
<1>1. t \in Transcript /\ t.identity # ForeignKey
  BY ChannelAssumption DEF TypeOK, Transcript
<1>2. p \in proofs
  BY <1>1 DEF ProofHolds, VerifySignature, ForeignProofs
<1>3. p.signature \in Signature
  BY <1>2 DEF TypeOK, Proof
<1>4. p.signature = [key |-> t.identity, over |-> t]
  BY <1>3 DEF ProofHolds, VerifySignature, Signature
<1> QED
  BY <1>2, <1>4 DEF Proven

\* What a server verifies and admits stays proven.
LEMMA AdmittedInvStep ==
    ASSUME IInv, [Next]_vars
    PROVE  AdmittedInv'
<1> USE DEF IInv, AdmittedInv
<1>1. ASSUME NEW c \in Clients, ClientNext(c) PROVE AdmittedInv'
  BY <1>1, ClientFrame, ProvenStays
<1>2. CASE Environment
  BY <1>2, ProvenStays DEF Environment, TickMono, TickWall, serverVars,
     handshakeVars
<1>3. ASSUME NEW s \in Servers, ServerNext(s) PROVE AdmittedInv'
  <2> USE ProvenStays DEF ServerClose, ServeReturns, handshakeVars
  <2>1. CASE ServerStart(s)
    BY <2>1 DEF ServerStart, TypeOK
  <2>2. CASE ReceiveHello(s) \/ ReceiveUnexpected(s)
    BY <2>2 DEF ReceiveHello, ReceiveUnexpected, TypeOK
  <2>3. CASE ReceiveProof(s)
    <3>1. CASE sState' = [sState EXCEPT ![s] = "verifying"]
      <4>1. \A t \in sTranscript[s] : t \in challenges /\ t.sessionID = s
        BY DEF ServerInv
      <4>2. \E t \in sTranscript[s] : Proven(t)
        BY <2>3, <3>1, ProofHoldsProves DEF ReceiveProof, TypeOK
      <4>3. \A t \in sTranscript[s] : Proven(t)
        BY <4>1, <4>2 DEF ServerInv, OneChallengePerConnection
      <4> QED
        BY <2>3, <3>1, <4>3 DEF ReceiveProof, TypeOK
    <3>2. CASE ServerClose(s)
      BY <3>2 DEF TypeOK
    <3> QED
      BY <2>3, <3>1, <3>2 DEF ReceiveProof
  <2>4. ASSUME NEW ok \in BOOLEAN, FinishProof(s, ok) PROVE AdmittedInv'
    BY <2>4 DEF FinishProof, TypeOK
  <2>5. CASE ReadTimeout(s) \/ PeerGone(s) \/ RefuseCommand(s)
    BY <2>5 DEF ReadTimeout, PeerGone, RefuseCommand
  <2>6. CASE OpenCell(s) \/ Respond(s)
    BY <2>6 DEF OpenCell, Respond
  <2>7. ASSUME NEW cmd, NEW presented, NEW requester,
               HandleCommand(s, cmd, presented, requester)
        PROVE  AdmittedInv'
    BY <2>7 DEF HandleCommand
  <2> QED
    BY <1>3, <2>1, <2>2, <2>3, <2>4, <2>5, <2>6, <2>7 DEF ServerNext
<1>4. CASE UNCHANGED vars
  BY <1>4, ProvenStays DEF vars, serverVars, handshakeVars
<1> QED
  BY <1>1, <1>2, <1>3, <1>4 DEF Next

\* An admission is made once, on a connection that had none, and never
\* changes.
LEMMA AdmittedStays ==
    ASSUME IInv, [Next]_vars, NEW s \in Servers, sAdmitted[s] # {}
    PROVE  sAdmitted'[s] = sAdmitted[s]
<1>1. sState[s] = "authenticated"
  BY DEF IInv, ServerInv
<1>2. ASSUME NEW r \in Servers, ServerNext(r)
      PROVE  sAdmitted'[s] = sAdmitted[s]
  BY <1>1, <1>2 DEF ServerNext, ServerStart, ReceiveHello, ReceiveProof,
     FinishProof, ReceiveUnexpected, ReadTimeout, PeerGone, OpenCell,
     RefuseCommand, Respond, HandleCommand, ServerClose, ServeReturns,
     handshakeVars, IInv, TypeOK
<1> QED
  BY <1>2, ClientFrame DEF Next, Environment, TickMono, TickWall, serverVars,
     handshakeVars, vars

\* The identity a command is handled under stays the admitted one.
LEMMA CommandInvStep ==
    ASSUME IInv, [Next]_vars
    PROVE  CommandInv'
<1> DEFINE Fine(r) ==
      \/ command'[r] \subseteq command[r]
      \/ \A u \in command'[r] :
           \E t \in sAdmitted[r] : u.kind = "act" => u.whom = t.identity
<1>0. \A s \in Servers : sAdmitted[s] # {} => sAdmitted'[s] = sAdmitted[s]
  BY AdmittedStays
<1>1. ASSUME NEW s \in Servers, ServerNext(s), NEW r \in Servers
      PROVE  Fine(r)
  <2> USE DEF ServerClose, ServeReturns, handshakeVars, IInv, TypeOK
  <2>1. ASSUME NEW cmd, NEW presented, NEW requester,
               HandleCommand(s, cmd, presented, requester)
        PROVE  Fine(r)
    <3>1. /\ command' = [command EXCEPT ![s] = Uses(cmd, presented, requester)]
          /\ CheckIdentity(s, presented, cmd # "response")
      BY <2>1 DEF HandleCommand
    <3>2. ASSUME NEW u \in Uses(cmd, presented, requester)
          PROVE  \E t \in sAdmitted[s] : u.kind = "act" => u.whom = t.identity
      BY <3>1, <3>2 DEF Uses, CheckIdentity, Check
    <3> QED
      BY <3>1, <3>2
  <2>2. CASE ReadTimeout(s) \/ PeerGone(s) \/ RefuseCommand(s) \/ Respond(s)
    BY <2>2 DEF ReadTimeout, PeerGone, RefuseCommand, Respond
  <2>3. CASE ServerStart(s) \/ ReceiveHello(s) \/ ReceiveProof(s)
             \/ ReceiveUnexpected(s) \/ OpenCell(s)
    BY <2>3 DEF ServerStart, ReceiveHello, ReceiveProof, ReceiveUnexpected,
       OpenCell
  <2>4. ASSUME NEW ok \in BOOLEAN, FinishProof(s, ok)
        PROVE  Fine(r)
    BY <2>4 DEF FinishProof
  <2> QED
    BY <1>1, <2>1, <2>2, <2>3, <2>4 DEF ServerNext
<1>2. \A r \in Servers : Fine(r)
  BY <1>1, ClientFrame DEF Next, Environment, TickMono, TickWall, serverVars,
     vars
<1> QED
  BY <1>0, <1>2 DEF IInv, CommandInv

\* Acknowledgements, and the clients that took one, stay backed by the
\* admission they name.
LEMMA AcceptInvStep ==
    ASSUME IInv, [Next]_vars
    PROVE  AcceptInv'
<1> DEFINE Backed(x, t) == sAdmitted[x] = {t} => sAdmitted'[x] = {t}
<1>0. \A x \in Servers, t \in Transcript : Backed(x, t)
  BY AdmittedStays
<1>1. \A a \in accepts' : sAdmitted'[a.sessionID] = {a.digest}
  <2>1. ASSUME NEW s \in Servers, NEW ok \in BOOLEAN, FinishProof(s, ok)
        PROVE  \/ accepts' = accepts
               \/ \E t \in sTranscript[s] :
                    /\ accepts' = accepts \cup {[sessionID |-> s,
                                          generation |-> s, digest |-> t]}
                    /\ sAdmitted'[s] = {t}
    BY <2>1 DEF FinishProof, IInv, TypeOK, ServerInv
  <2>2. ASSUME NEW s \in Servers, ServerNext(s)
        PROVE  \/ accepts' = accepts
               \/ \E ok \in BOOLEAN : FinishProof(s, ok)
    BY <2>2 DEF ServerNext, ServerStart, ReceiveHello, ReceiveProof,
       ReceiveUnexpected, ReadTimeout, PeerGone, OpenCell, RefuseCommand,
       Respond, HandleCommand, ServeReturns, frames
  <2>3. \A a \in accepts : sAdmitted'[a.sessionID] = {a.digest}
    BY <1>0 DEF IInv, AcceptInv, TypeOK, Accepted
  <2>4. \/ accepts' = accepts
        \/ \E s \in Servers, t \in Transcript :
             /\ accepts' = accepts \cup {[sessionID |-> s, generation |-> s,
                                         digest |-> t]}
             /\ sAdmitted'[s] = {t}
    BY <2>1, <2>2, ClientFrame DEF Next, Environment, TickMono, TickWall,
       frames, vars, IInv, TypeOK
  <2> QED
    BY <2>3, <2>4
<1> DEFINE ClientsBacked ==
      \A c \in Clients : \A t \in cAdmitted'[c] :
        t \in cTranscript'[c] /\ sAdmitted'[t.sessionID] = {t}
<1>2. ClientsBacked
  <2>1. ASSUME NEW c \in Clients, NEW t \in cAdmitted[c]
        PROVE  t \in cTranscript[c] /\ sAdmitted'[t.sessionID] = {t}
    BY <1>0 DEF IInv, AcceptInv, TypeOK, Transcript
  <2>2. ASSUME NEW c \in Clients, ClientNext(c)
        PROVE  ClientsBacked
    <3> USE DEF ClientClose, connectVars, IInv, TypeOK
    <3>1. CASE ClientHello(c)
      BY <2>1, <3>1 DEF ClientHello
    <3>2. CASE BeginChallenge(c)
      <4>1. cAdmitted[c] = {}
        BY <2>1, <3>2 DEF BeginChallenge, ClientInv
      <4> QED
        BY <2>1, <3>2, <4>1 DEF BeginChallenge
    <3>3. CASE Accept(c)
      <4>1. PICK a \in accepts, t \in cTranscript[c] :
              \/ /\ a.sessionID = t.sessionID /\ a.digest = t
                 /\ cAdmitted' = [cAdmitted EXCEPT ![c] = {t}]
                 /\ cTranscript' = cTranscript
              \/ cAdmitted' = cAdmitted /\ cTranscript' = cTranscript
        BY <3>3 DEF Accept, AckMatches
      <4>2. sAdmitted' = sAdmitted /\ sAdmitted[a.sessionID] = {a.digest}
        BY <2>2, ClientFrame DEF AcceptInv
      <4> QED
        BY <2>1, <4>1, <4>2
    <3>4. CASE ClientFail(c) \/ ClientTimeout(c)
      BY <2>1, <3>4 DEF ClientFail, ClientTimeout
    <3>5. ASSUME NEW key \in Keys, FinishChallenge(c, key)
          PROVE  ClientsBacked
      BY <2>1, <3>5 DEF FinishChallenge
    <3> QED
      BY <2>2, <3>1, <3>2, <3>3, <3>4, <3>5 DEF ClientNext
  <2> QED
    BY <2>1, <2>2, ServerFrame DEF Next, Environment, TickMono, TickWall,
       clientVars, vars
<1> QED
  BY <1>1, <1>2 DEF AcceptInv

\* The invariant is inductive.
LEMMA Inductive == IInv /\ [Next]_vars => IInv'
  BY TypeStep, ServerInvStep, ClientInvStep, ProofInvStep, AdmittedInvStep,
     CommandInvStep, AcceptInvStep DEF IInv

\* The initial states satisfy it.
LEMMA InitInv == Init => IInv
<1>1. Init => TypeOK
  BY ChannelAssumption DEF Init, TypeOK, ClientStates, ServerStates, Phases
<1>2. Init => ServerInv /\ ClientInv /\ ProofInv /\ AdmittedInv
              /\ CommandInv /\ AcceptInv
  BY DEF Init, ServerInv, ClientInv, ProofInv, AdmittedInv, CommandInv,
     AcceptInv, OneChallengePerConnection
<1> QED
  BY <1>1, <1>2 DEF IInv

\* So every behaviour of the specification keeps it.
LEMMA Invariance == Spec => []IInv
  BY InitInv, Inductive, PTL DEF Spec

-----------------------------------------------------------------------------
(* The properties.                                                         *)

\* A server admits only what a connect holding the key signed for it.
THEOREM AgreementForServers == Spec => []ServerAgreement
<1>1. IInv => ServerAgreement
  <2> SUFFICES ASSUME IInv, NEW s \in Servers, NEW t \in sAdmitted[s]
               PROVE  \E c \in Clients : /\ HasSigned(c, t)
                                          /\ t.clientNonce = c
                                          /\ t.identity = cIdentity[c]
                                          /\ t.endpoint = cEndpoint[c]
                                          /\ t.endpoint = sEndpoint[s]
    BY DEF ServerAgreement
  <2>1. PICK p \in proofs : p.signature = [key |-> t.identity, over |-> t]
    BY DEF IInv, AdmittedInv, Proven
  <2>2. t.clientNonce \in Clients /\ cTranscript[t.clientNonce] = {t}
    BY <2>1 DEF IInv, ProofInv
  <2>3. /\ t.identity = cIdentity[t.clientNonce]
        /\ t.endpoint = cEndpoint[t.clientNonce]
    BY <2>2 DEF IInv, ClientInv
  <2>4. t.endpoint = sEndpoint[s]
    BY DEF IInv, ServerInv, MadeBySession
  <2> QED
    BY <2>1, <2>2, <2>3, <2>4 DEF HasSigned
<1> QED
  BY <1>1, Invariance, PTL

\* A client takes for admitted only what a server at its endpoint admitted.
THEOREM AgreementForClients == Spec => []ClientAgreement
<1>1. IInv => ClientAgreement
  <2> SUFFICES ASSUME IInv, NEW c \in Clients, NEW t \in cAdmitted[c]
               PROVE  \E s \in Servers : /\ sAdmitted[s] = {t}
                                          /\ sEndpoint[s] = cEndpoint[c]
    BY DEF ClientAgreement
  <2>1. t \in Transcript /\ t.sessionID \in Servers
    BY DEF IInv, TypeOK, Transcript
  <2>2. t \in cTranscript[c] /\ sAdmitted[t.sessionID] = {t}
    BY DEF IInv, AcceptInv
  <2>3. sEndpoint[t.sessionID] = cEndpoint[c]
    BY <2>2 DEF IInv, ClientInv, ServerInv, MadeBySession
  <2> QED
    BY <2>1, <2>2, <2>3
<1> QED
  BY <1>1, Invariance, PTL

\* Delivering a proof to a second connection opens nothing there.
THEOREM NoReplay == Spec => []ReplayOpensNothing
<1>1. IInv => ReplayOpensNothing
  <2> SUFFICES ASSUME IInv, NEW s1 \in Servers, NEW s2 \in Servers,
                      NEW t1 \in sAdmitted[s1], NEW t2 \in sAdmitted[s2],
                      t1.clientNonce = t2.clientNonce
               PROVE  s1 = s2
    BY DEF ReplayOpensNothing
  <2>1. cTranscript[t1.clientNonce] = {t1} /\ cTranscript[t2.clientNonce] = {t2}
    <3>1. Proven(t1) /\ Proven(t2)
      BY DEF IInv, AdmittedInv
    <3> QED
      BY <3>1 DEF IInv, Proven, ProofInv
  <2>2. t1 = t2
    BY <2>1
  <2> QED
    BY <2>2 DEF IInv, ServerInv
<1> QED
  BY <1>1, Invariance, PTL

\* No connect ever signs two challenges.
THEOREM OneSignature == Spec => []SignsOneChallenge
<1>1. IInv => SignsOneChallenge
  <2> SUFFICES ASSUME IInv, NEW p1 \in proofs, NEW p2 \in proofs,
                      p1.signature.over.clientNonce
                        = p2.signature.over.clientNonce
               PROVE  p1 = p2
    BY DEF SignsOneChallenge
  <2>1. p1.signature.over = p2.signature.over
    <3>1. /\ cTranscript[p1.signature.over.clientNonce] = {p1.signature.over}
          /\ cTranscript[p2.signature.over.clientNonce] = {p2.signature.over}
      BY DEF IInv, ProofInv
    <3> QED
      BY <3>1
  <2>2. /\ p1.sessionID = p2.sessionID /\ p1.generation = p2.generation
        /\ p1.signature.key = p2.signature.key
    BY <2>1 DEF IInv, ProofInv
  <2>3. p1 \in Proof /\ p2 \in Proof
    BY DEF IInv, TypeOK
  <2>4. p1.signature = p2.signature
    BY <2>1, <2>2, <2>3 DEF Proof, Signature
  <2> QED
    BY <2>2, <2>3, <2>4 DEF Proof
<1> QED
  BY <1>1, Invariance, PTL

\* No connection ever issues two challenges.
THEOREM OneChallenge == Spec => []OneChallengePerConnection
  BY Invariance, PTL DEF IInv, ServerInv

\* A command reaches the Cell only for a connect that signed for the session,
\* and acts on it only under the key of that connect.
THEOREM AuthorisedCommands == Spec => []CommandsAreAuthorised
<1>1. IInv => CommandsAreAuthorised
  <2> SUFFICES ASSUME IInv, NEW s \in Servers, NEW u \in command[s]
               PROVE  \E c \in Clients, t \in challenges :
                        /\ HasSigned(c, t) /\ t.sessionID = s
                        /\ cEndpoint[c] = sEndpoint[s]
                        /\ u.kind = "act" => u.whom = cIdentity[c]
    BY DEF CommandsAreAuthorised
  <2>1. PICK t \in sAdmitted[s] : u.kind = "act" => u.whom = t.identity
    BY DEF IInv, CommandInv
  <2>2. PICK p \in proofs : p.signature = [key |-> t.identity, over |-> t]
    BY DEF IInv, AdmittedInv, Proven
  <2>3. t.clientNonce \in Clients /\ cTranscript[t.clientNonce] = {t}
    BY <2>2 DEF IInv, ProofInv
  <2>4. /\ t.identity = cIdentity[t.clientNonce]
        /\ t.endpoint = cEndpoint[t.clientNonce]
    BY <2>3 DEF IInv, ClientInv
  <2>5. t \in challenges /\ t.sessionID = s /\ t.endpoint = sEndpoint[s]
    BY DEF IInv, ServerInv, MadeBySession
  <2> QED
    BY <2>1, <2>2, <2>3, <2>4, <2>5 DEF HasSigned
<1> QED
  BY <1>1, Invariance, PTL

\* Admission happens before the pre-auth deadline and within the lifetime.
THEOREM FreshAdmission == Spec => AdmissionIsFresh
<1> DEFINE Fresh == \A s \in Servers : \A t \in sAdmitted'[s] \ sAdmitted[s] :
                      mono < sDeadline[s] /\ t.issued <= wall /\ wall < t.expires
<1>1. IInv /\ [Next]_vars => [Fresh]_vars
  <2> SUFFICES ASSUME IInv, [Next]_vars PROVE Fresh
    OBVIOUS
  <2>1. ASSUME NEW r \in Servers, NEW ok \in BOOLEAN, FinishProof(r, ok)
        PROVE  Fresh
    BY <2>1 DEF FinishProof, ServerClose, IInv, TypeOK, ServerInv, MadeBySession
  <2>2. ASSUME NEW r \in Servers, ServerNext(r)
        PROVE  sAdmitted' = sAdmitted \/ \E ok \in BOOLEAN : FinishProof(r, ok)
    BY <2>2 DEF ServerNext, ServerStart, ReceiveHello, ReceiveProof,
       ReceiveUnexpected, ReadTimeout, PeerGone, OpenCell, RefuseCommand,
       Respond, HandleCommand, ServeReturns, ServerClose, handshakeVars
  <2> QED
    BY <2>1, <2>2, ClientFrame DEF Next, Environment, TickMono, TickWall,
       serverVars, handshakeVars, vars
<1> QED
  BY <1>1, Invariance, PTL DEF Spec, AdmissionIsFresh

\* A response leaves only within the lifetime of its channel.
THEOREM TimelyAnswers == Spec => AnswersWithinLifetime
<1> DEFINE Timely == \A s \in Servers :
                       phase[s] = "handling" /\ phase'[s] = "serving"
                         => \E t \in sAdmitted[s] :
                              /\ t.issued <= wall
                              /\ wall < t.issued + Lifetime
<1>1. IInv /\ [Next]_vars => [Timely]_vars
  <2> SUFFICES ASSUME IInv, [Next]_vars PROVE Timely
    OBVIOUS
  <2>1. ASSUME NEW r \in Servers, Respond(r) PROVE Timely
    BY <2>1 DEF Respond, Check, IInv, TypeOK, ServerInv, MadeBySession
  <2>2. ASSUME NEW r \in Servers, NEW ok \in BOOLEAN, FinishProof(r, ok)
        PROVE  Timely
    BY <2>2 DEF FinishProof, ServerClose, IInv, TypeOK
  <2>3. ASSUME NEW r \in Servers, NEW cmd, NEW presented, NEW requester,
               HandleCommand(r, cmd, presented, requester)
        PROVE  Timely
    BY <2>3 DEF HandleCommand, IInv, TypeOK
  <2>4. ASSUME NEW r \in Servers,
               \/ ServerStart(r) \/ ReceiveHello(r) \/ ReceiveProof(r)
               \/ ReceiveUnexpected(r) \/ ReadTimeout(r) \/ PeerGone(r)
               \/ OpenCell(r) \/ RefuseCommand(r)
        PROVE  Timely
    BY <2>4 DEF ServerStart, ReceiveHello, ReceiveProof, ReceiveUnexpected,
       ReadTimeout, PeerGone, OpenCell, RefuseCommand, ServerClose,
       ServeReturns, IInv, TypeOK
  <2> QED
    BY <2>1, <2>2, <2>3, <2>4, ClientFrame DEF Next, ServerNext, Environment,
       TickMono, TickWall, serverVars, vars
<1> QED
  BY <1>1, Invariance, PTL DEF Spec, AnswersWithinLifetime

-----------------------------------------------------------------------------
(* The refinement of ChannelService.                                       *)

\* Only a connection that handles a command acts, and only a connect that is
\* done has a channel.
Orderly ==
    /\ \A s \in Servers : command[s] # {} => phase[s] = "handling"
    /\ \A c \in Clients : cAdmitted[c] # {} => cState[c] = "authenticated"

\* It stays so.
LEMMA OrderlyStep ==
    ASSUME IInv, Orderly, [Next]_vars
    PROVE  Orderly'
<1> USE DEF Orderly
<1>1. ASSUME NEW c \in Clients, ClientNext(c) PROVE Orderly'
  <2>1. UNCHANGED <<command, phase>>
    BY <1>1, ClientFrame
  <2>2. \A d \in Clients : cAdmitted'[d] # {} => cState'[d] = "authenticated"
    BY <1>1 DEF ClientNext, ClientHello, BeginChallenge, Accept, ClientFail,
       ClientTimeout, FinishChallenge, ClientClose, connectVars, IInv, TypeOK
  <2> QED
    BY <2>1, <2>2
<1>2. ASSUME NEW s \in Servers, ServerNext(s) PROVE Orderly'
  <2>1. UNCHANGED <<cAdmitted, cState>>
    BY <1>2, ServerFrame
  <2>2. \A r \in Servers : command'[r] # {} => phase'[r] = "handling"
    BY <1>2 DEF ServerNext, ServerStart, ReceiveHello, ReceiveProof,
       FinishProof, ReceiveUnexpected, ReadTimeout, PeerGone, OpenCell,
       RefuseCommand, Respond, HandleCommand, ServerClose, ServeReturns,
       IInv, TypeOK
  <2> QED
    BY <2>1, <2>2
<1>3. CASE UNCHANGED <<clientVars, serverVars>>
  BY <1>3 DEF clientVars, serverVars
<1> QED
  BY <1>1, <1>2, <1>3 DEF Next, Environment, TickMono, TickWall, vars

\* So it always is.
LEMMA AlwaysOrderly == Spec => []Orderly
<1>1. Init => Orderly
  BY DEF Init, Orderly
<1> QED
  BY <1>1, OrderlyStep, Invariance, PTL DEF Spec

\* The variables that ChannelService sees.
seen == <<cIdentity, cEndpoint, sEndpoint, proofs, sAdmitted, cAdmitted,
          command, phase>>

\* A step that leaves them alone is invisible.
LEMMA Unseen ==
    ASSUME UNCHANGED seen
    PROVE  UNCHANGED Service!vars
  BY DEF seen, Service!vars, Service!given, SignedFor

\* A connection that was not over moves on.
LEMMA MovesOn ==
    ASSUME TypeOK, NEW s \in Servers, NEW to \in Phases,
           phase' = [phase EXCEPT ![s] = to], phase[s] # "ended", to # "ended",
           UNCHANGED <<cIdentity, cEndpoint, sEndpoint, proofs, sAdmitted,
                       cAdmitted, command>>
    PROVE  UNCHANGED Service!vars
<1>1. {r \in Servers : phase'[r] = "ended"} = {r \in Servers : phase[r] = "ended"}
  BY DEF TypeOK
<1> QED
  BY <1>1 DEF Service!vars, Service!given, SignedFor

\* A connection ends.
LEMMA Ends ==
    ASSUME TypeOK, NEW s \in Servers,
           phase' = [phase EXCEPT ![s] = "ended"],
           command' = [command EXCEPT ![s] = {}],
           UNCHANGED <<cIdentity, cEndpoint, sEndpoint, proofs, sAdmitted,
                       cAdmitted>>
    PROVE  Service!End(s)
<1>1. {r \in Servers : phase'[r] = "ended"}
      = {r \in Servers : phase[r] = "ended"} \cup {s}
  BY DEF TypeOK
<1> QED
  BY <1>1 DEF Service!End, Service!given, SignedFor

\* ServerClose ends a connection that handles no command.
LEMMA CloseEnds ==
    ASSUME TypeOK, Orderly, NEW s \in Servers, ServerClose(s),
           phase[s] = "handshake",
           UNCHANGED <<cIdentity, cEndpoint, proofs, cAdmitted, command>>
    PROVE  Service!End(s)
<1>1. command' = [command EXCEPT ![s] = {}]
  BY DEF Orderly, TypeOK
<1> QED
  BY <1>1, Ends DEF ServerClose

\* The connect signs: for the connection whose challenge it took up, which
\* no other connect has signed for.
LEMMA FinishSigns ==
    ASSUME IInv, NEW c \in Clients, NEW k \in Keys, FinishChallenge(c, k)
    PROVE  \/ UNCHANGED Service!vars
           \/ \E s \in Servers : Service!Sign(c, s)
<1>1. PICK t \in cTranscript[c] :
        \/ /\ proofs' = proofs \cup
                {[sessionID |-> t.sessionID, generation |-> t.generation,
                  signature |-> [key |-> k, over |-> t]]}
           /\ UNCHANGED cAdmitted
        \/ UNCHANGED <<proofs, cAdmitted>>
  BY DEF FinishChallenge, ClientClose
<1>2. UNCHANGED <<cIdentity, cEndpoint, sEndpoint, sAdmitted, command, phase>>
  BY ClientFrame DEF ClientNext
<1>3. CASE UNCHANGED <<proofs, cAdmitted>>
  BY <1>2, <1>3, Unseen DEF seen
<1>4. CASE /\ proofs' = proofs \cup
                {[sessionID |-> t.sessionID, generation |-> t.generation,
                  signature |-> [key |-> k, over |-> t]]}
           /\ UNCHANGED cAdmitted
  <2>1. /\ t \in Transcript /\ t \in challenges /\ t.clientNonce = c
        /\ t.endpoint = cEndpoint[c] /\ t.endpoint = sEndpoint[t.sessionID]
        /\ t.sessionID \in Servers
    BY DEF IInv, TypeOK, ClientInv, ServerInv, MadeBySession, Transcript
  <2>2. \A p \in proofs : p.signature.over.clientNonce # c
    BY DEF IInv, ProofInv, FinishChallenge
  <2>3. ASSUME NEW d \in Clients PROVE t.sessionID \notin SignedFor(d)
    <3> SUFFICES ASSUME NEW p \in proofs, p.signature.over.clientNonce = d,
                        p.sessionID = t.sessionID
                 PROVE  FALSE
      BY DEF SignedFor
    <3>1. /\ p.signature.over \in cTranscript[d]
          /\ p.signature.over.sessionID = t.sessionID
      BY DEF IInv, ProofInv
    <3>2. p.signature.over \in challenges
      BY <3>1 DEF IInv, ClientInv
    <3>3. p.signature.over = t
      BY <2>1, <3>1, <3>2 DEF IInv, ServerInv, OneChallengePerConnection
    <3> QED
      BY <2>1, <2>2, <3>3
  <2>4. SignedFor(c) = {}
    BY <2>2 DEF SignedFor
  <2>5. SignedFor(c)' = {t.sessionID}
    <3>1. PICK new : new = [sessionID |-> t.sessionID,
                            generation |-> t.generation,
                            signature |-> [key |-> k, over |-> t]]
      OBVIOUS
    <3>2. new.sessionID = t.sessionID /\ new.signature.over.clientNonce = c
      BY <2>1, <3>1
    <3>3. {q \in proofs' : q.signature.over.clientNonce = c} = {new}
      BY <1>4, <2>2, <3>1, <3>2
    <3> QED
      BY <3>2, <3>3 DEF SignedFor
  <2>6. ASSUME NEW d \in Clients, d # c PROVE SignedFor(d)' = SignedFor(d)
    <3>1. {q \in proofs' : q.signature.over.clientNonce = d}
          = {q \in proofs : q.signature.over.clientNonce = d}
      BY <1>4, <2>1, <2>6
    <3> QED
      BY <3>1 DEF SignedFor
  <2> DEFINE signed == [d \in Clients |-> SignedFor(d)]
  <2>7. signed' = [signed EXCEPT ![c] = {t.sessionID}]
    BY <2>5, <2>6
  <2>8. signed[c] = {} /\ \A d \in Clients : t.sessionID \notin signed[d]
    BY <2>3, <2>4
  <2>9. Service!Sign(c, t.sessionID)
    BY <1>2, <1>4, <2>1, <2>7, <2>8 DEF Service!Sign, Service!given
  <2> QED
    BY <2>1, <2>9
<1> QED
  BY <1>1, <1>3, <1>4

\* The connect takes the connection that admitted it as its channel.
LEMMA AcceptOpens ==
    ASSUME IInv, Orderly, NEW c \in Clients, Accept(c)
    PROVE  \/ UNCHANGED Service!vars
           \/ \E s \in Servers : Service!Open(c, s)
<1>1. PICK a \in accepts, t \in cTranscript[c] :
        \/ /\ a.sessionID = t.sessionID /\ a.digest = t
           /\ cAdmitted' = [cAdmitted EXCEPT ![c] = {t}]
        \/ UNCHANGED cAdmitted
  BY DEF Accept, AckMatches, ClientClose
<1>2. UNCHANGED <<cIdentity, cEndpoint, sEndpoint, proofs, sAdmitted,
                  command, phase>>
  BY ClientFrame DEF ClientNext, Accept, frames
<1>3. CASE UNCHANGED cAdmitted
  BY <1>2, <1>3, Unseen DEF seen
<1>4. CASE /\ a.sessionID = t.sessionID /\ a.digest = t
           /\ cAdmitted' = [cAdmitted EXCEPT ![c] = {t}]
  <2> DEFINE s == t.sessionID
             opened == [d \in Clients |-> {u.sessionID : u \in cAdmitted[d]}]
  <2>1. s \in Servers /\ t.clientNonce = c /\ sAdmitted[s] = {t}
    BY <1>4 DEF IInv, TypeOK, Accepted, ClientInv, AcceptInv
  <2>2. cAdmitted[c] = {}
    BY DEF Orderly, Accept
  <2>3. opened[c] = {}
    BY <2>2
  <2>4. opened' = [opened EXCEPT ![c] = {s}]
    <3>1. \A d \in Clients : {u.sessionID : u \in cAdmitted'[d]}
            = IF d = c THEN {s} ELSE {u.sessionID : u \in cAdmitted[d]}
      BY <1>4 DEF IInv, TypeOK
    <3> QED
      BY <3>1
  <2>5. c \in {u.clientNonce : u \in sAdmitted[s]}
    BY <2>1
  <2> HIDE DEF s
  <2>6. Service!Open(c, s)
    BY <1>2, <2>1, <2>3, <2>4, <2>5 DEF Service!Open, Service!given, SignedFor
  <2> QED
    BY <2>1, <2>6
<1> QED
  BY <1>1, <1>3, <1>4

\* The connection admits the connect that signed its challenge.
LEMMA FinishAdmits ==
    ASSUME IInv, Orderly, NEW s \in Servers, NEW ok \in BOOLEAN,
           FinishProof(s, ok)
    PROVE  \/ Service!End(s)
           \/ \E c \in Clients : Service!Admit(s, c)
<1>1. UNCHANGED <<cIdentity, cEndpoint, sEndpoint, proofs, cAdmitted, command>>
  <2>1. UNCHANGED command
    BY DEF FinishProof
  <2> QED
    BY <2>1, ServerFrame DEF ServerNext
<1>2. phase[s] = "handshake" /\ sState[s] = "verifying" /\ TypeOK
  BY DEF FinishProof, IInv
<1>3. PICK t \in sTranscript[s] :
        \/ ServerClose(s)
        \/ /\ sAdmitted' = [sAdmitted EXCEPT ![s] = {t}]
           /\ phase' = [phase EXCEPT ![s] = "opening"]
  BY DEF FinishProof
<1>4. CASE ServerClose(s)
  BY <1>1, <1>2, <1>4, CloseEnds
<1>5. CASE /\ sAdmitted' = [sAdmitted EXCEPT ![s] = {t}]
           /\ phase' = [phase EXCEPT ![s] = "opening"]
  <2> DEFINE c == t.clientNonce
             admitted == [r \in Servers |-> {u.clientNonce : u \in sAdmitted[r]}]
  <2>1. t.sessionID = s /\ Proven(t)
    BY <1>2 DEF IInv, ServerInv, AdmittedInv
  <2>2. PICK p \in proofs : p.signature = [key |-> t.identity, over |-> t]
    BY <2>1 DEF Proven
  <2>3. p.sessionID = s /\ p.signature.over = t /\ c \in Clients
    BY <2>1, <2>2 DEF IInv, ProofInv
  <2>4. s \in SignedFor(c)
    BY <2>3 DEF SignedFor
  <2>5. sAdmitted[s] = {}
    BY <1>2 DEF IInv, ServerInv
  <2>6. admitted[s] = {}
    BY <2>5
  <2>7. admitted' = [admitted EXCEPT ![s] = {c}]
    <3>1. \A r \in Servers : {u.clientNonce : u \in sAdmitted'[r]}
            = IF r = s THEN {c} ELSE {u.clientNonce : u \in sAdmitted[r]}
      BY <1>2, <1>5 DEF TypeOK
    <3> QED
      BY <3>1
  <2>8. /\ s \notin {r \in Servers : phase[r] = "ended"}
        /\ {r \in Servers : phase'[r] = "ended"}
           = {r \in Servers : phase[r] = "ended"}
    BY <1>2, <1>5 DEF TypeOK
  <2> HIDE DEF c
  <2>9. Service!Admit(s, c)
    <3>1. UNCHANGED [d \in Clients |-> SignedFor(d)]
          /\ UNCHANGED [d \in Clients |-> {u.sessionID : u \in cAdmitted[d]}]
      BY <1>1 DEF SignedFor
    <3>2. s \in [d \in Clients |-> SignedFor(d)][c]
      BY <2>3, <2>4
    <3> QED
      BY <1>1, <2>6, <2>7, <2>8, <3>1, <3>2 DEF Service!Admit, Service!given
  <2> QED
    BY <2>3, <2>9
<1> QED
  BY <1>3, <1>4, <1>5

\* What a command that passes CheckIdentity uses the Cell for is the acting
\* of the connect that was admitted, a question to the Cell, or nothing.
LEMMA CommandActs ==
    ASSUME IInv, Orderly, NEW s \in Servers, NEW cmd \in Commands,
           NEW presented \in AtMostOneKey, NEW requester \in AtMostOneKey,
           HandleCommand(s, cmd, presented, requester)
    PROVE  \/ Service!Answer(s)
           \/ \E c \in Clients : Service!Act(s, c)
           \/ \E k \in Keys : Service!Ask(s, k)
<1> DEFINE uses == Uses(cmd, presented, requester)
<1>1. /\ UNCHANGED <<cIdentity, cEndpoint, sEndpoint, proofs, sAdmitted,
                     cAdmitted>>
      /\ command' = [command EXCEPT ![s] = uses]
      /\ phase' = [phase EXCEPT ![s] = "handling"] /\ phase[s] = "serving"
      /\ sAdmitted[s] # {}
      /\ \A i \in presented : \E t \in sAdmitted[s] : i = t.identity
  BY DEF HandleCommand, CheckIdentity, Check, clientVars, connectVars, frames,
     handshakeVars
<1>2. /\ s \notin {r \in Servers : phase[r] = "ended"}
      /\ {r \in Servers : phase'[r] = "ended"}
         = {r \in Servers : phase[r] = "ended"}
      /\ command[s] = {}
  BY <1>1 DEF IInv, TypeOK, Orderly
<1>3. /\ UNCHANGED [d \in Clients |-> SignedFor(d)]
      /\ UNCHANGED [d \in Clients |-> {u.sessionID : u \in cAdmitted[d]}]
      /\ UNCHANGED [r \in Servers |-> {u.clientNonce : u \in sAdmitted[r]}]
  BY <1>1 DEF SignedFor
<1>4. \/ uses = {}
      \/ \E k \in requester : uses = {[kind |-> "ask", whom |-> k]}
      \/ \E k \in presented : uses = {[kind |-> "act", whom |-> k]}
  <2>1. CASE cmd = "response"
    BY <2>1 DEF Uses
  <2>2. CASE cmd = "admit"
    BY <2>2 DEF Uses, AtMostOneKey
  <2>3. CASE cmd = "other"
    BY <2>3 DEF Uses, AtMostOneKey
  <2> QED
    BY <2>1, <2>2, <2>3 DEF Commands
<1>5. CASE uses = {}
  BY <1>1, <1>2, <1>3, <1>5 DEF Service!Answer, Service!given
<1>6. ASSUME NEW k \in requester, uses = {[kind |-> "ask", whom |-> k]}
      PROVE  \E j \in Keys : Service!Ask(s, j)
  <2>1. k \in Keys
    BY DEF AtMostOneKey
  <2>2. [r \in Servers |-> {u.clientNonce : u \in sAdmitted[r]}][s] # {}
    <3>1. PICK t \in sAdmitted[s] : TRUE
      BY <1>1
    <3>2. t.clientNonce
            \in [r \in Servers |-> {u.clientNonce : u \in sAdmitted[r]}][s]
      BY <3>1
    <3> QED
      BY <3>2
  <2>3. Service!Ask(s, k)
    BY <1>1, <1>2, <1>3, <1>6, <2>2 DEF Service!Ask, Service!given
  <2> QED
    BY <2>1, <2>3
<1>7. ASSUME NEW k \in presented, uses = {[kind |-> "act", whom |-> k]}
      PROVE  \E c \in Clients : Service!Act(s, c)
  <2>1. PICK t \in sAdmitted[s] : k = t.identity
    BY <1>1
  <2>2. PICK p \in proofs : p.signature = [key |-> t.identity, over |-> t]
    BY <2>1 DEF IInv, AdmittedInv, Proven
  <2>3. PICK c \in Clients : c = t.clientNonce /\ t \in cTranscript[c]
    BY <2>2 DEF IInv, ProofInv
  <2>4. k = cIdentity[c]
    BY <2>1, <2>3 DEF IInv, ClientInv
  <2>5. c \in [r \in Servers |-> {u.clientNonce : u \in sAdmitted[r]}][s]
    BY <2>1, <2>3
  <2>6. Service!Act(s, c)
    BY <1>1, <1>2, <1>3, <1>7, <2>4, <2>5 DEF Service!Act, Service!given
  <2> QED
    BY <2>6
<1> QED
  BY <1>4, <1>5, <1>6, <1>7

\* Every step of a client is one of ChannelService, or none.
LEMMA ClientSteps ==
    ASSUME IInv, Orderly, NEW c \in Clients, ClientNext(c)
    PROVE  [Service!Next]_(Service!vars)
<1>1. CASE Accept(c)
  BY <1>1, AcceptOpens DEF Service!Next
<1>2. ASSUME NEW k \in Keys, FinishChallenge(c, k)
      PROVE  [Service!Next]_(Service!vars)
  BY <1>2, FinishSigns DEF Service!Next
<1>3. CASE ClientHello(c) \/ BeginChallenge(c) \/ ClientFail(c)
           \/ ClientTimeout(c)
  <2>1. UNCHANGED <<proofs, cAdmitted>>
    BY <1>3 DEF ClientHello, BeginChallenge, ClientFail, ClientTimeout,
       ClientClose, frames
  <2> QED
    BY <2>1, ClientFrame, Unseen DEF seen
<1> QED
  BY <1>1, <1>2, <1>3 DEF ClientNext

\* Every step of a connection is one of ChannelService, or none.
LEMMA ServerSteps ==
    ASSUME IInv, Orderly, NEW s \in Servers, ServerNext(s)
    PROVE  [Service!Next]_(Service!vars)
<1>1. TypeOK /\ UNCHANGED <<cIdentity, cEndpoint, sEndpoint, proofs, cAdmitted>>
  BY ServerFrame DEF IInv
<1>2. CASE ServerStart(s) \/ OpenCell(s)
  <2>1. UNCHANGED <<sAdmitted, command>>
    BY <1>2 DEF ServerStart, OpenCell, handshakeVars
  <2>2. PICK to \in Phases : to # "ended" /\ phase[s] # "ended"
                             /\ phase' = [phase EXCEPT ![s] = to]
    BY <1>2 DEF ServerStart, OpenCell, Phases
  <2> QED
    BY <1>1, <2>1, <2>2, MovesOn
<1>3. CASE ReceiveHello(s) \/ ReceiveProof(s) \/ ReceiveUnexpected(s)
  <2>1. UNCHANGED command /\ phase[s] = "handshake"
    BY <1>3 DEF ReceiveHello, ReceiveProof, ReceiveUnexpected
  <2>2. ServerClose(s) \/ UNCHANGED <<sAdmitted, phase>>
    BY <1>3 DEF ReceiveHello, ReceiveProof, ReceiveUnexpected
  <2>3. CASE ServerClose(s)
    BY <1>1, <2>1, <2>3, CloseEnds DEF Service!Next
  <2>4. CASE UNCHANGED <<sAdmitted, phase>>
    BY <1>1, <2>1, <2>4, Unseen DEF seen
  <2> QED
    BY <2>2, <2>3, <2>4
<1>4. CASE ReadTimeout(s) \/ PeerGone(s) \/ RefuseCommand(s)
  <2>1. ServeReturns(s)
    BY <1>4 DEF ReadTimeout, PeerGone, RefuseCommand
  <2> QED
    BY <1>1, <2>1, Ends DEF ServeReturns, handshakeVars, Service!Next
<1>5. CASE Respond(s)
  <2>1. /\ UNCHANGED sAdmitted /\ phase[s] = "handling"
        /\ command' = [command EXCEPT ![s] = {}]
        /\ \/ phase' = [phase EXCEPT ![s] = "ended"]
           \/ phase' = [phase EXCEPT ![s] = "serving"]
    BY <1>5 DEF Respond, handshakeVars
  <2>2. CASE phase' = [phase EXCEPT ![s] = "ended"]
    BY <1>1, <2>1, <2>2, Ends DEF Service!Next
  <2>3. CASE phase' = [phase EXCEPT ![s] = "serving"]
    <3>1. {r \in Servers : phase'[r] = "ended"}
          = {r \in Servers : phase[r] = "ended"}
      BY <1>1, <2>1, <2>3 DEF TypeOK
    <3>2. Service!Answer(s)
      BY <1>1, <2>1, <3>1 DEF Service!Answer, Service!given, SignedFor
    <3> QED
      BY <3>2 DEF Service!Next
  <2> QED
    BY <2>1, <2>2, <2>3
<1>6. ASSUME NEW ok \in BOOLEAN, FinishProof(s, ok)
      PROVE  [Service!Next]_(Service!vars)
  BY <1>6, FinishAdmits DEF Service!Next
<1>7. ASSUME NEW cmd \in Commands, NEW presented \in AtMostOneKey,
             NEW requester \in AtMostOneKey,
             HandleCommand(s, cmd, presented, requester)
      PROVE  [Service!Next]_(Service!vars)
  BY <1>7, CommandActs DEF Service!Next
<1> QED
  BY <1>2, <1>3, <1>4, <1>5, <1>6, <1>7 DEF ServerNext

\* The machines of interop/channel.go, as serve and authenticateChannel drive
\* them, implement ChannelService over a transport that replays, reorders and
\* misdelivers frames and carries foreign ones: initial states map to initial
\* states, and every step signs, admits, opens, acts, asks, answers or ends as
\* ChannelService allows, or is invisible to it.
THEOREM ChannelRefinement == Spec => ProvidesChannel
<1>1. Init => Service!Init
  BY DEF Init, Service!Init, SignedFor
<1>2. IInv /\ Orderly /\ [Next]_vars => [Service!Next]_(Service!vars)
  <2> SUFFICES ASSUME IInv, Orderly, [Next]_vars
               PROVE  [Service!Next]_(Service!vars)
    OBVIOUS
  <2>1. CASE Environment \/ UNCHANGED vars
    <3>1. UNCHANGED seen
      BY <2>1 DEF Environment, TickMono, TickWall, vars, seen, frames,
         clientVars, connectVars, serverVars, handshakeVars
    <3> QED
      BY <3>1, Unseen
  <2> QED
    BY <2>1, ClientSteps, ServerSteps DEF Next
<1> QED
  BY <1>1, <1>2, Invariance, AlwaysOrderly, PTL
  DEF Spec, ProvidesChannel, Service!Spec
=============================================================================
