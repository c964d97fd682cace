-------------------------- MODULE ChannelAdmission --------------------------
(***************************************************************************)
(* Bridge channel admission, org.haven.bridge-channel.v1: the two          *)
(* handshake machines of interop/channel.go (ChannelServer, ChannelClient) *)
(* as bridgehead.go (serve) and cloud_bridge.go (authenticateChannel)      *)
(* drive them, and the command loop an admitted connection runs.           *)
(*                                                                         *)
(*   client -> server   hello      identity, clientNonce                   *)
(*   server -> client   challenge  transcript                              *)
(*   client -> server   proof      sessionID, generation, signature        *)
(*   server -> client   accepted   sessionID, generation, digest           *)
(*                                                                         *)
(* The machines take bytes and return bytes "so any transport can use      *)
(* them": here the transport keeps every frame ever sent and may deliver   *)
(* it to any connection, any number of times, in any order, or never.      *)
(*                                                                         *)
(* Random values are fresh: a client's nonce is its own name, a server's   *)
(* generation, session ID and server nonce are its own name.  The digest   *)
(* of a transcript stands for the transcript, a signature for the pair of  *)
(* a key and the transcript it covers.  An optional pointer (pending,      *)
(* transcript, Admitted) is the set of what it points to.                  *)
(***************************************************************************)
EXTENDS Integers, FiniteSets

CONSTANTS
    Clients,            \* outgoing connects, each with its ChannelClient
    Servers,            \* inbound connections, each with its ChannelServer
    Identities,         \* public identities (UUID and key) held by clients
    ForeignKey,         \* a key that none of the clients holds
    Endpoints,          \* origin, route and domain of a bridgehead
    Offsets,            \* client wall clock minus the server's
    PreAuthDeadline,    \* ChannelPreAuthDeadline, monotonic
    ChallengeSeconds,   \* ChannelChallengeSeconds
    Lifetime,           \* ChannelLifetime
    SkewAhead,          \* how far ahead a challenge may be dated (5 s)
    ChallengeSkew,      \* SigningChallengeClockSkew
    MaxMono, MaxWall    \* bounds on the two clocks

ASSUME ChannelAssumption ==
    /\ Offsets \subseteq Int
    /\ ForeignKey \notin Identities
    /\ PreAuthDeadline \in Nat \ {0}
    /\ ChallengeSeconds \in Nat \ {0}
    /\ Lifetime \in Nat \ {0}
    /\ SkewAhead \in Nat
    /\ ChallengeSkew \in Nat
    /\ MaxMono \in Nat /\ MaxWall \in Nat

VARIABLES
    mono, wall,         \* the deadline clock, and the server's signed clock
    hellos, challenges, proofs, accepts,    \* frames ever sent, by kind
    cIdentity, cEndpoint, cOffset,          \* what a connect was made with
    cState, cTranscript, cDeadline, cAdmitted,
    sEndpoint,          \* PublicURL and the path of the request
    sState, sTranscript, sDeadline, sAdmitted,
    phase,              \* where Bridgehead.serve is in its connection
    command             \* what Handle is using the Cell for

clocks == <<mono, wall>>
frames == <<hellos, challenges, proofs, accepts>>
connectVars == <<cIdentity, cEndpoint, cOffset>>
clientVars == <<connectVars, cState, cTranscript, cDeadline,
                cAdmitted>>
handshakeVars == <<sEndpoint, sState, sTranscript, sDeadline, sAdmitted>>
serverVars == <<handshakeVars, phase, command>>
vars == <<clocks, frames, clientVars, serverVars>>

-----------------------------------------------------------------------------
Keys == Identities \cup {ForeignKey}
AtMostOneKey == {{}} \cup {{k} : k \in Keys}
Nonces == Clients \cup {ForeignKey}     \* a foreign peer has a nonce too

\* ChannelTranscript.  Profile and direction are fixed by the code on both
\* sides; the server nonce is drawn together with the session ID.
Transcript == [endpoint : Endpoints, identity : Identities,
               clientNonce : Nonces, sessionID : Servers,
               generation : Servers, issued : Nat, expires : Nat]

Hello == [identity : Identities, clientNonce : Nonces]
Signature == [key : Keys, over : Transcript]
Proof == [sessionID : Servers, generation : Servers, signature : Signature]
Accepted == [sessionID : Servers, generation : Servers, digest : Transcript]

\* VerifySignature over the signing data of transcript t, which binds t's
\* digest, under the key of t's identity.
VerifySignature(sig, t) == sig.key = t.identity /\ sig.over = t

ClientWall(c) == wall + cOffset[c]

ClientStates == {"idle", "helloSent", "signing", "proofSent",
                 "authenticated", "closed"}
ServerStates == {"idle", "unauthenticated", "challengeIssued", "verifying",
                 "authenticated", "closed"}
Phases == {"idle", "handshake", "opening", "serving", "handling", "ended"}

\* A response uses no Cell, an admit names a requester of its own, and all
\* other commands are told apart by nothing here.
Commands == {"response", "admit", "other"}

\* How Handle uses the Cell: acting on it as a requester, or asking it
\* whether a requester may connect.
Use == [kind : {"act", "ask"}, whom : Keys]

TypeOK ==
    /\ mono \in Nat /\ wall \in Nat
    /\ hellos \subseteq Hello
    /\ challenges \subseteq Transcript
    /\ proofs \subseteq Proof
    /\ accepts \subseteq Accepted
    /\ cIdentity \in [Clients -> Identities]
    /\ cEndpoint \in [Clients -> Endpoints]
    /\ cOffset \in [Clients -> Offsets]
    /\ cState \in [Clients -> ClientStates]
    /\ cTranscript \in [Clients -> SUBSET Transcript]
    /\ cDeadline \in [Clients -> Nat]
    /\ cAdmitted \in [Clients -> SUBSET Transcript]
    /\ sEndpoint \in [Servers -> Endpoints]
    /\ sState \in [Servers -> ServerStates]
    /\ sTranscript \in [Servers -> SUBSET Transcript]
    /\ sDeadline \in [Servers -> Nat]
    /\ sAdmitted \in [Servers -> SUBSET Transcript]
    /\ phase \in [Servers -> Phases]
    /\ command \in [Servers -> SUBSET Use]

Init ==
    /\ mono = 0 /\ wall = 0
    /\ hellos = {} /\ challenges = {} /\ proofs = {} /\ accepts = {}
    /\ cIdentity \in [Clients -> Identities]
    /\ cEndpoint \in [Clients -> Endpoints]
    /\ cOffset \in [Clients -> Offsets]
    /\ cState = [c \in Clients |-> "idle"]
    /\ cTranscript = [c \in Clients |-> {}]
    /\ cDeadline = [c \in Clients |-> 0]
    /\ cAdmitted = [c \in Clients |-> {}]
    /\ sEndpoint \in [Servers -> Endpoints]
    /\ sState = [s \in Servers |-> "idle"]
    /\ sTranscript = [s \in Servers |-> {}]
    /\ sDeadline = [s \in Servers |-> 0]
    /\ sAdmitted = [s \in Servers |-> {}]
    /\ phase = [s \in Servers |-> "idle"]
    /\ command = [s \in Servers |-> {}]

-----------------------------------------------------------------------------
(* Client: CloudBridge.authenticateChannel drives one ChannelClient.       *)

\* c.close, and authenticateChannel's error return: the connect is over.  The
\* offered bytes are kept exactly while the state is signing.
ClientClose(c) ==
    /\ cState' = [cState EXCEPT ![c] = "closed"]
    /\ UNCHANGED <<connectVars, cTranscript, cDeadline, cAdmitted>>

\* NewChannelClient starts the deadline, Hello sends the first frame.  The
\* guard on MaxMono lets every deadline that is set also pass.
ClientHello(c) ==
    /\ cState[c] = "idle"
    /\ mono + PreAuthDeadline <= MaxMono
    /\ cState' = [cState EXCEPT ![c] = "helloSent"]
    /\ cDeadline' = [cDeadline EXCEPT ![c] = mono + PreAuthDeadline]
    /\ hellos' = hellos \cup {[identity |-> cIdentity[c],
                               clientNonce |-> c]}
    /\ UNCHANGED <<clocks, challenges, proofs, accepts,
                   connectVars, cTranscript, cAdmitted, serverVars>>

\* ValidateSigningChallenge's time rules, at the client's wall clock.
SigningChallengeCurrent(c, t) ==
    /\ t.issued <= ClientWall(c) + ChallengeSkew
    /\ t.issued + ChallengeSeconds >= ClientWall(c)

\* The conditions of BeginChallenge on the transcript it is offered.
ChallengeMatches(c, t) ==
    /\ t.endpoint = cEndpoint[c]
    /\ t.identity = cIdentity[c]
    /\ t.clientNonce = c
    /\ t.issued <= ClientWall(c) + SkewAhead
    /\ t.issued > ClientWall(c) - ChallengeSeconds
    /\ t.expires > ClientWall(c)
    /\ t.expires - t.issued = Lifetime
    /\ SigningChallengeCurrent(c, t)

\* BeginChallenge: one challenge is consumed, matching or not.
BeginChallenge(c) ==
    /\ cState[c] = "helloSent"
    /\ \E t \in challenges :
         IF mono < cDeadline[c] /\ ChallengeMatches(c, t)
         THEN /\ cState' = [cState EXCEPT ![c] = "signing"]
              /\ cTranscript' = [cTranscript EXCEPT ![c] = {t}]
              /\ UNCHANGED <<connectVars, cDeadline, cAdmitted>>
         ELSE ClientClose(c)
    /\ UNCHANGED <<clocks, frames, serverVars>>

\* The vault signs the offered bytes, which takes time, and FinishChallenge
\* checks deadline, signature and challenge again before the proof leaves.
\* key is the one the vault signed with.
FinishChallenge(c, key) ==
    /\ cState[c] = "signing"
    /\ \E t \in cTranscript[c] :
         LET sig == [key |-> key, over |-> t] IN
         IF /\ mono < cDeadline[c]
            /\ VerifySignature(sig, t)
            /\ SigningChallengeCurrent(c, t)
         THEN /\ cState' = [cState EXCEPT ![c] = "proofSent"]
              /\ proofs' = proofs \cup {[sessionID |-> t.sessionID,
                                         generation |-> t.generation,
                                         signature |-> sig]}
              /\ UNCHANGED <<connectVars, cTranscript, cDeadline, cAdmitted>>
         ELSE ClientClose(c) /\ UNCHANGED proofs
    /\ UNCHANGED <<clocks, hellos, challenges, accepts, serverVars>>

\* Mutant: any acknowledgement for the same identity will do.
AckMatches_AnySession(a, t) == a.digest.identity = t.identity

AckMatches(a, t) ==
    /\ a.sessionID = t.sessionID /\ a.generation = t.generation
    /\ a.digest = t

\* Accept: the acknowledgement must name this session and its transcript.
Accept(c) ==
    /\ cState[c] = "proofSent"
    /\ \E a \in accepts, t \in cTranscript[c] :
         IF /\ mono < cDeadline[c]
            /\ AckMatches(a, t)
            /\ ClientWall(c) < t.expires
         THEN /\ cState' = [cState EXCEPT ![c] = "authenticated"]
              /\ cAdmitted' = [cAdmitted EXCEPT ![c] = {t}]
              /\ UNCHANGED <<connectVars, cTranscript, cDeadline>>
         ELSE ClientClose(c)
    /\ UNCHANGED <<clocks, frames, serverVars>>

\* A frame of another kind or an unreadable one, a lost socket, a failing
\* vault, or the socket deadline: authenticateChannel returns an error.
ClientFail(c) ==
    /\ cState[c] \in {"helloSent", "signing", "proofSent"}
    /\ ClientClose(c)
    /\ UNCHANGED <<clocks, frames, serverVars>>

\* Mutant: the second read has no deadline.
ClientTimeout_FirstReadOnly(c) ==
    cState[c] = "helloSent" /\ mono >= cDeadline[c] /\ ClientFail(c)

\* The same while it reads a reply after the socket deadline has passed.
ClientTimeout(c) ==
    /\ cState[c] \in {"helloSent", "proofSent"}
    /\ mono >= cDeadline[c]
    /\ ClientFail(c)

-----------------------------------------------------------------------------
(* Frames of a peer that does not run ChannelClient: it may claim any      *)
(* identity, and answer a challenge it has seen with a key of its own.     *)

ForeignHellos == {[identity |-> i, clientNonce |-> ForeignKey] :
                    i \in Identities}

ForeignProofs == {[sessionID |-> t.sessionID, generation |-> t.generation,
                   signature |-> [key |-> ForeignKey, over |-> t]] :
                    t \in challenges}

-----------------------------------------------------------------------------
(* Server: Bridgehead.serve drives one ChannelServer.                      *)

\* s.close, after which serve returns its code and closes the socket.
ServerClose(s) ==
    /\ sState' = [sState EXCEPT ![s] = "closed"]
    /\ sTranscript' = [sTranscript EXCEPT ![s] = {}]
    /\ phase' = [phase EXCEPT ![s] = "ended"]
    /\ UNCHANGED <<sEndpoint, sDeadline, sAdmitted>>

\* NewChannelServer, once the WebSocket is accepted.
ServerStart(s) ==
    /\ phase[s] = "idle"
    /\ mono + PreAuthDeadline <= MaxMono
    /\ phase' = [phase EXCEPT ![s] = "handshake"]
    /\ sState' = [sState EXCEPT ![s] = "unauthenticated"]
    /\ sDeadline' = [sDeadline EXCEPT ![s] = mono + PreAuthDeadline]
    /\ UNCHANGED <<clocks, frames, clientVars, sEndpoint,
                   sTranscript, sAdmitted, command>>

NewTranscript(s, h) ==
    [endpoint |-> sEndpoint[s], identity |-> h.identity,
     clientNonce |-> h.clientNonce, sessionID |-> s, generation |-> s,
     issued |-> wall, expires |-> wall + Lifetime]

\* Receive with a hello, in onHello or past the deadline.
ReceiveHello(s) ==
    /\ phase[s] = "handshake" /\ sState[s] = "unauthenticated"
    /\ \E h \in hellos \cup ForeignHellos :
         LET t == NewTranscript(s, h) IN
         IF mono < sDeadline[s]
         THEN /\ sState' = [sState EXCEPT ![s] = "challengeIssued"]
              /\ sTranscript' = [sTranscript EXCEPT ![s] = {t}]
              /\ challenges' = challenges \cup {t}
              /\ UNCHANGED <<sEndpoint, sDeadline, sAdmitted, phase>>
         ELSE ServerClose(s) /\ UNCHANGED challenges
    /\ UNCHANGED <<clocks, hellos, proofs, accepts, clientVars,
                   command>>

\* Mutant: the signature is not checked.
ProofHolds_Unsigned(s, t, p) ==
    /\ wall < t.issued + ChallengeSeconds
    /\ p.sessionID = t.sessionID /\ p.generation = s

\* Mutant: any signature of the claimed key is taken.
ProofHolds_AnySession(s, t, p) ==
    /\ wall < t.issued + ChallengeSeconds
    /\ p.signature.key = t.identity

\* What onProof asks of a proof for the challenge t it has pending.
ProofHolds(s, t, p) ==
    /\ wall < t.issued + ChallengeSeconds
    /\ p.sessionID = t.sessionID /\ p.generation = s
    /\ VerifySignature(p.signature, t)

\* Receive with a proof: the pending challenge is consumed by the first one.
\* In state verifying sTranscript is onProof's local copy.
ReceiveProof(s) ==
    /\ phase[s] = "handshake" /\ sState[s] = "challengeIssued"
    /\ \E p \in proofs \cup ForeignProofs, t \in sTranscript[s] :
         IF mono < sDeadline[s] /\ ProofHolds(s, t, p)
         THEN /\ sState' = [sState EXCEPT ![s] = "verifying"]
              /\ UNCHANGED <<sEndpoint, sTranscript, sDeadline, sAdmitted,
                             phase>>
         ELSE ServerClose(s)
    /\ UNCHANGED <<clocks, frames, clientVars, command>>

\* Mutant: the clocks are not read again after Recheck.
FinishProof_StaleClocks(s, recheckOK) ==
    /\ phase[s] = "handshake" /\ sState[s] = "verifying" /\ recheckOK
    /\ \E t \in sTranscript[s] :
         /\ sState' = [sState EXCEPT ![s] = "authenticated"]
         /\ sAdmitted' = [sAdmitted EXCEPT ![s] = {t}]
         /\ phase' = [phase EXCEPT ![s] = "opening"]
    /\ UNCHANGED <<clocks, frames, clientVars, sEndpoint, sTranscript,
                   sDeadline, command>>

\* The end of onProof: Recheck, the host's policy, has answered.  It took
\* time, so both clocks are read again; then the channel is admitted and the
\* acknowledgement leaves.
FinishProof(s, recheckOK) ==
    /\ phase[s] = "handshake" /\ sState[s] = "verifying"
    /\ \E t \in sTranscript[s] :
         IF /\ recheckOK
            /\ mono < sDeadline[s] /\ wall < t.expires
         THEN /\ sState' = [sState EXCEPT ![s] = "authenticated"]
              /\ sAdmitted' = [sAdmitted EXCEPT ![s] = {t}]
              /\ accepts' = accepts \cup {[sessionID |-> t.sessionID,
                                           generation |-> s, digest |-> t]}
              /\ phase' = [phase EXCEPT ![s] = "opening"]
              /\ UNCHANGED <<sEndpoint, sTranscript, sDeadline>>
         ELSE ServerClose(s) /\ UNCHANGED accepts
    /\ UNCHANGED <<clocks, hellos, challenges, proofs, clientVars,
                   command>>

\* A frame of another kind or an unreadable one before admission.
ReceiveUnexpected(s) ==
    /\ phase[s] = "handshake"
    /\ sState[s] \in {"unauthenticated", "challengeIssued"}
    /\ ServerClose(s)
    /\ UNCHANGED <<clocks, frames, clientVars, command>>

\* serve returns while the handshake's state stays as it is.
ServeReturns(s) ==
    /\ phase' = [phase EXCEPT ![s] = "ended"]
    /\ command' = [command EXCEPT ![s] = {}]
    /\ UNCHANGED <<clocks, frames, clientVars, handshakeVars>>

\* Mutant: the read deadline is dropped once a challenge is out.
ReadTimeout_HelloOnly(s) ==
    /\ phase[s] = "handshake" /\ sState[s] = "unauthenticated"
    /\ mono >= sDeadline[s]
    /\ ServeReturns(s)

\* The read deadline of the pre-admission loop, or a peer that went away.
ReadTimeout(s) ==
    /\ phase[s] = "handshake"
    /\ sState[s] \in {"unauthenticated", "challengeIssued"}
    /\ mono >= sDeadline[s]
    /\ ServeReturns(s)

PeerGone(s) ==
    /\ phase[s] \in {"handshake", "opening", "serving", "handling"}
    /\ sState[s] # "verifying"
    /\ ServeReturns(s)

-----------------------------------------------------------------------------
(* Server: the command loop of an admitted connection.                     *)

\* h.Open finds the Cell, or the connection ends with "unavailable".
OpenCell(s) ==
    /\ phase[s] = "opening"
    /\ phase' = [phase EXCEPT ![s] = "serving"]
    /\ UNCHANGED <<clocks, frames, clientVars, handshakeVars,
                   command>>

\* Mutant: the expiry instant still counts.
Check_Inclusive(s) == \E t \in sAdmitted[s] : wall <= t.expires

\* AdmittedChannel.Check.
Check(s) == \E t \in sAdmitted[s] : wall < t.expires

\* Mutant: any identity may follow once the channel is admitted.
CheckIdentity_Any(s, presented, required) ==
    Check(s) /\ (presented = {} => ~required)

\* CheckIdentity: presented is the command's identity, or nothing; only a
\* response may come without one.
CheckIdentity(s, presented, required) ==
    /\ Check(s)
    /\ presented = {} => ~required
    /\ \A i \in presented : \E t \in sAdmitted[s] : i = t.identity

\* BridgeEndpoint.Handle acts on the Cell as the identity the command
\* carries.  For an admit it asks the Cell about the requester that the
\* payload names, if any: the Cell looks at that requester's contract and
\* changes nothing.
Uses(cmd, presented, requester) ==
    [kind : {"act"}, whom : IF cmd = "other" THEN presented ELSE {}]
    \cup [kind : {"ask"}, whom : IF cmd = "admit" THEN requester ELSE {}]

\* A command that passes goes to Handle.  Nobody compares the requester of an
\* admit with the identity that was admitted.
HandleCommand(s, cmd, presented, requester) ==
    /\ phase[s] = "serving"
    /\ CheckIdentity(s, presented, cmd # "response")
    /\ phase' = [phase EXCEPT ![s] = "handling"]
    /\ command' = [command EXCEPT ![s] = Uses(cmd, presented, requester)]
    /\ UNCHANGED <<clocks, frames, clientVars, handshakeVars>>

\* Any other frame ends the connection: unreadable, part of the handshake,
\* "ready", under another identity, or after expiry.
RefuseCommand(s) == phase[s] = "serving" /\ ServeReturns(s)

\* Handle has taken its time; the channel is checked again before each
\* response leaves.
Respond(s) ==
    /\ phase[s] = "handling"
    /\ phase' = [phase EXCEPT ![s] = IF Check(s) THEN "serving" ELSE "ended"]
    /\ command' = [command EXCEPT ![s] = {}]
    /\ UNCHANGED <<clocks, frames, clientVars, handshakeVars>>

-----------------------------------------------------------------------------
(* Environment.                                                            *)

\* The two clocks advance on their own: the wall clock may be set forward.
TickMono ==
    /\ mono < MaxMono
    /\ mono' = mono + 1
    /\ UNCHANGED <<wall, frames, clientVars, serverVars>>

TickWall ==
    /\ wall < MaxWall
    /\ wall' = wall + 1
    /\ UNCHANGED <<mono, frames, clientVars, serverVars>>

ClientNext(c) ==
    \/ ClientHello(c) \/ BeginChallenge(c) \/ Accept(c)
    \/ ClientFail(c) \/ ClientTimeout(c)
    \/ \E key \in Keys : FinishChallenge(c, key)

ServerNext(s) ==
    \/ ServerStart(s) \/ ReceiveHello(s) \/ ReceiveProof(s)
    \/ ReceiveUnexpected(s) \/ ReadTimeout(s) \/ PeerGone(s)
    \/ OpenCell(s) \/ RefuseCommand(s) \/ Respond(s)
    \/ \E recheckOK \in BOOLEAN : FinishProof(s, recheckOK)
    \/ \E cmd \in Commands, presented, requester \in AtMostOneKey :
         HandleCommand(s, cmd, presented, requester)

Environment == TickMono \/ TickWall

Next ==
    \/ \E c \in Clients : ClientNext(c)
    \/ \E s \in Servers : ServerNext(s)
    \/ Environment

Spec == Init /\ [][Next]_vars

\* Time passes, sockets honour their deadlines, and the vault and the
\* Recheck callback return; peers and frames get no fairness at all.
Fairness ==
    /\ WF_vars(TickMono)
    /\ \A c \in Clients : /\ WF_vars(ClientTimeout(c))
                          /\ WF_vars(\E key \in Keys : FinishChallenge(c, key))
    /\ \A s \in Servers : /\ WF_vars(ReadTimeout(s))
                          /\ WF_vars(\E ok \in BOOLEAN : FinishProof(s, ok))

FairSpec == Spec /\ Fairness

-----------------------------------------------------------------------------
(* Properties.                                                             *)

\* Connect c has signed transcript t with its own key.
HasSigned(c, t) ==
    /\ cTranscript[c] = {t}
    /\ \E p \in proofs : p.signature = [key |-> cIdentity[c], over |-> t]

\* A server admits a channel only for a connect that holds the admitted key,
\* dialled this very endpoint, and signed this very transcript: whatever else
\* the transport delivered, both ends agree on what was agreed.
ServerAgreement ==
    \A s \in Servers : \A t \in sAdmitted[s] :
      \E c \in Clients : /\ HasSigned(c, t)
                          /\ t.clientNonce = c
                          /\ t.identity = cIdentity[c]
                          /\ t.endpoint = cEndpoint[c]
                          /\ t.endpoint = sEndpoint[s]

\* A client that takes its channel for admitted has a server at the endpoint
\* it dialled that admitted the same transcript, and so the same expiry.
ClientAgreement ==
    \A c \in Clients : \A t \in cAdmitted[c] :
      \E s \in Servers : sAdmitted[s] = {t} /\ sEndpoint[s] = cEndpoint[c]

\* One connect opens at most one channel: frames delivered twice, or to a
\* second connection, never admit that one as well.
ReplayOpensNothing ==
    \A s1, s2 \in Servers : \A t1 \in sAdmitted[s1], t2 \in sAdmitted[s2] :
      t1.clientNonce = t2.clientNonce => s1 = s2

\* A connect signs at most one challenge, however many servers answered its
\* hello and in whatever order their challenges arrive.
SignsOneChallenge ==
    \A p1, p2 \in proofs :
      p1.signature.over.clientNonce = p2.signature.over.clientNonce => p1 = p2

\* A connection issues at most one challenge in its life: a misstep is
\* terminal, there is no second try on the same connection.
OneChallengePerConnection ==
    \A t1, t2 \in challenges : t1.sessionID = t2.sessionID => t1 = t2

\* No command reaches the Cell unless a connect dialled this endpoint and
\* signed for this session, and whatever acts on the Cell does so under the
\* key of that connect.  (An admit only asks the Cell, about anyone.)
CommandsAreAuthorised ==
    \A s \in Servers : \A u \in command[s] :
      \E c \in Clients, t \in challenges :
        /\ HasSigned(c, t) /\ t.sessionID = s
        /\ cEndpoint[c] = sEndpoint[s]
        /\ u.kind = "act" => u.whom = cIdentity[c]

\* However long the host's Recheck takes, a channel is admitted before its
\* pre-auth deadline and within its lifetime.
AdmissionIsFresh ==
    [][\A s \in Servers : \A t \in sAdmitted'[s] \ sAdmitted[s] :
         mono < sDeadline[s] /\ t.issued <= wall /\ wall < t.expires]_vars

\* However long Handle takes, a response leaves only within the lifetime of
\* the channel it answers on, counted from the server's challenge.
AnswersWithinLifetime ==
    [][\A s \in Servers :
         phase[s] = "handling" /\ phase'[s] = "serving"
           => \E t \in sAdmitted[s] : /\ t.issued <= wall
                                      /\ wall < t.issued + Lifetime]_vars

\* The connections that connect c has signed for.
SignedFor(c) ==
    {p.sessionID : p \in {q \in proofs : q.signature.over.clientNonce = c}}

Service == INSTANCE ChannelService WITH
    key <- cIdentity, dialled <- cEndpoint, listens <- sEndpoint,
    signed <- [c \in Clients |-> SignedFor(c)],
    admitted <- [s \in Servers |-> {t.clientNonce : t \in sAdmitted[s]}],
    opened <- [c \in Clients |-> {t.sessionID : t \in cAdmitted[c]}],
    using <- command,
    over <- {s \in Servers : phase[s] = "ended"}

\* The machines of both ends, the transport and the command loop together
\* implement ChannelService: replayed, crossed or foreign frames add nothing
\* to what the connects and connections themselves do.
ProvidesChannel == Service!Spec

\* No inbound connection stays half-open: the handshake ends in admission or
\* in the end of the connection even when the peer falls silent.
ServerHandshakeEnds ==
    \A s \in Servers : phase[s] = "handshake" ~> phase[s] # "handshake"

\* No connect waits for ever for a silent server.
ClientHandshakeEnds ==
    \A c \in Clients : cState[c] \in {"helloSent", "signing", "proofSent"}
                         ~> cState[c] \in {"authenticated", "closed"}

=============================================================================
