------------------------- MODULE RegistrationProofs -------------------------
(***************************************************************************)
(* Proofs about Registration, for every number of connections and visitors.*)
(* RegisterMatchesTunnels is preserved only together with HostKnown: a     *)
(* connection keeps the hostname of its hello, so the name remove_server   *)
(* takes out of the register is the one add_server put in.  That the       *)
(* client holds the name's key rests on ChallengesDiffer: a signature that *)
(* verifies was made by the client it was asked of.                        *)
(***************************************************************************)
EXTENDS Registration, FiniteSetTheorems, TLAPS

\* The Boolean part of TypeOK.
LinkOK == link \in [Sockets -> BOOLEAN]

\* The rest of TypeOK.
ShapeOK ==
    /\ servers \in [Hosts -> Sockets \cup {NoSocket}]
    /\ client_count \in Nat
    /\ phase \in [Sockets -> Phase]
    /\ hostname \in [Sockets -> Hosts \cup {NoHost}]
    /\ pubkey \in [Sockets -> Keys \cup {NoKey}]
    /\ holds \in [Sockets -> Keys]
    /\ challenge \in [Sockets -> Nat]
    /\ issued \in Nat
    /\ visit \in [Visitors -> Visit]
    /\ proxy_tx \in [Visitors -> Sockets \cup {NoSocket}]

\* The type invariant is its two parts; the provers treat the flags apart.
LEMMA TypeParts == TypeOK <=> LinkOK /\ ShapeOK
BY DEF TypeOK, LinkOK, ShapeOK

\* The same in the next state.
LEMMA TypePartsNext == TypeOK' <=> LinkOK' /\ ShapeOK'
BY DEF TypeOK, LinkOK, ShapeOK

\* Every step keeps the types of all but the flags.
LEMMA ShapeStep == ShapeOK /\ [Next]_vars => ShapeOK'
<1> SUFFICES ASSUME ShapeOK, [Next]_vars PROVE ShapeOK'
    OBVIOUS
<1> USE DEF ShapeOK, Goto, socketVars, visitVars, vars
<1>1. ASSUME NEW s \in Sockets, SocketNext(s) PROVE ShapeOK'
  <2> USE DEF Phase, Handshake
  <2>1. CASE Accept(s) \/ Identify(s)
        BY <2>1 DEF Accept, Identify
  <2>2. ASSUME NEW h \in Hosts, NEW k \in Keys, Hello(s, h, k) PROVE ShapeOK'
        BY <2>2 DEF Hello
  <2>3. CASE HandshakeEnds(s)
        BY <2>3 DEF HandshakeEnds
  <2>4. CASE Register(s)
        BY <2>4 DEF Register, add_server
  <2>5. CASE AlreadyConnected(s) \/ SendConnected(s) \/ SendConnectedFails(s) \/ TunnelEnds(s)
        BY <2>5 DEF AlreadyConnected, SendConnected, SendConnectedFails, TunnelEnds
  <2>6. CASE IntoDisconnected(s)
        BY <2>6 DEF IntoDisconnected, remove_server
  <2>7. CASE LinkDies(s)
        BY <2>7 DEF LinkDies
  <2>8. CASE Challenge(s)
        BY <2>8 DEF Challenge, random_challenge
  <2>9. ASSUME NEW sig, Authenticate(s, sig) \/ AuthenticateFails(s, sig) PROVE ShapeOK'
        BY <2>9 DEF Authenticate, AuthenticateFails
  <2>10. QED  BY <1>1, <2>1, <2>2, <2>3, <2>4, <2>5, <2>6, <2>7, <2>8, <2>9 DEF SocketNext
<1>2. ASSUME NEW v \in Visitors, VisitorNext(v) PROVE ShapeOK'
  <2> USE DEF Visit
  <2>1. ASSUME NEW h \in Hosts, Lookup(v, h) PROVE ShapeOK'
        BY <2>1 DEF Lookup, get_server
  <2>2. CASE Join(v) \/ JoinFails(v) \/ Leave(v)
        BY <2>2 DEF Join, JoinFails, Leave
  <2>3. CASE add_client(v) \/ remove_client(v)
        BY <2>3 DEF add_client, remove_client
  <2>4. QED  BY <1>2, <2>1, <2>2, <2>3 DEF VisitorNext
<1>3. CASE AllOver \/ UNCHANGED vars
      BY <1>3 DEF AllOver
<1>4. QED  BY <1>1, <1>2, <1>3 DEF Next

\* Every step keeps the flags Boolean: only LinkDies changes one.
LEMMA LinkStep == LinkOK /\ [Next]_vars => LinkOK'
<1> SUFFICES ASSUME LinkOK, [Next]_vars PROVE LinkOK'
    OBVIOUS
<1> USE DEF LinkOK
<1>1. CASE UNCHANGED link
      BY <1>1, Zenon
<1>2. ASSUME NEW s \in Sockets, LinkDies(s) PROVE LinkOK'
      BY <1>2 DEF LinkDies
<1>3. UNCHANGED link \/ \E s \in Sockets : LinkDies(s)
      BY Zenon DEF Next, SocketNext, Accept, Identify, Hello, Challenge, Authenticate,
         AuthenticateFails, HandshakeEnds, Register, AlreadyConnected, SendConnected,
         SendConnectedFails,
         TunnelEnds, IntoDisconnected, VisitorNext, Lookup, Join, JoinFails, add_client,
         Leave, remove_client, AllOver, vars, socketVars
<1>4. QED  BY <1>1, <1>2, <1>3

-----------------------------------------------------------------------------
(* The register.                                                           *)

\* The stages at which a connection has said its hostname.
Named == {"auth", "challenged", "authenticated", "registered", "serving", "removing"}

\* The hostname of a connection is set once, by its hello, and from the
\* authentication on it is the name of the key the client holds.
HostKnown ==
    \A s \in Sockets :
        /\ phase[s] \in {"new", "peek", "hello"} => hostname[s] = NoHost
        /\ phase[s] \in Named => hostname[s] \in Hosts
        /\ phase[s] \in Named \ Handshake => get_hostname(holds[s]) = hostname[s]

\* A challenge is sent to one connection only.
ChallengesDiffer ==
    /\ \A s \in Sockets : challenge[s] <= issued
    /\ \A s \in Sockets : phase[s] = "challenged" => challenge[s] # 0
    /\ \A s, t \in Sockets : challenge[s] # 0 /\ challenge[s] = challenge[t] => s = t

\* The inductive invariant.
RegisterInv == HostKnown /\ ChallengesDiffer /\ RegisterMatchesTunnels

IInv == TypeOK /\ RegisterInv

\* A signature that verifies against the challenge of a connection was made by
\* that connection's client, although any signature may be presented.
LEMMA SignedByHolder ==
    ASSUME ChallengesDiffer, NEW s \in Sockets, phase[s] = "challenged",
           NEW sig \in Signatures, Genuine(s, sig)
    PROVE  get_hostname(holds[s]) = hostname[s]
<1>1. PICK t \in Sockets : challenge[t] # 0 /\ sig = sign(holds[t], challenge[t])
      BY DEF Signatures
<1>2. holds[t] = pubkey[s] /\ challenge[t] = challenge[s]
      BY <1>1 DEF Genuine, verify, sign, create_challenge
<1>3. t = s
      BY <1>1, <1>2 DEF ChallengesDiffer
<1>4. QED  BY <1>2, <1>3 DEF Genuine

\* Every step preserves the invariant of the register.  The interesting ones
\* are Register, AlreadyConnected and IntoDisconnected.
LEMMA RegisterStep == IInv /\ [Next]_vars => RegisterInv'
<1> SUFFICES ASSUME IInv, [Next]_vars PROVE RegisterInv'
    OBVIOUS
<1>0. ShapeOK  BY TypeParts DEF IInv
<1> USE RegistrationAssumption
    DEF RegistrationAssumption, IInv, RegisterInv, HostKnown, RegisterMatchesTunnels, Named,
        ChallengesDiffer, Handshake, ShapeOK, Goto
<1>1. ASSUME NEW s \in Sockets, SocketNext(s) PROVE RegisterInv'
  <2>1. CASE Accept(s) \/ Identify(s)
        BY <1>0, <2>1 DEF Accept, Identify
  <2>2. ASSUME NEW sig \in Signatures, Authenticate(s, sig) \/ AuthenticateFails(s, sig)
        PROVE  RegisterInv'
    <3>1. Authenticate(s, sig) => get_hostname(holds[s]) = hostname[s]
          BY SignedByHolder DEF Authenticate
    <3>2. QED  BY <1>0, <2>2, <3>1 DEF Authenticate, AuthenticateFails
  <2>3. ASSUME NEW h \in Hosts, NEW k \in Keys, Hello(s, h, k) PROVE RegisterInv'
        BY <1>0, <2>3 DEF Hello
  <2>4. CASE HandshakeEnds(s)
        BY <1>0, <2>4 DEF HandshakeEnds
  <2>5. CASE Register(s)
        BY <1>0, <2>5 DEF Register, add_server
  <2>6. CASE AlreadyConnected(s)
        BY <1>0, <2>6 DEF AlreadyConnected
  <2>7. CASE SendConnected(s) \/ SendConnectedFails(s) \/ TunnelEnds(s)
        BY <1>0, <2>7 DEF SendConnected, SendConnectedFails, TunnelEnds
  <2>8. CASE IntoDisconnected(s)
        BY <1>0, <2>8 DEF IntoDisconnected, remove_server
  <2>9. CASE LinkDies(s)
        BY <2>9 DEF LinkDies
  <2>10. CASE Challenge(s)
        BY <1>0, <2>10 DEF Challenge, random_challenge
  <2>11. QED  BY <1>1, <2>1, <2>2, <2>3, <2>4, <2>5, <2>6, <2>7, <2>8, <2>9, <2>10
         DEF SocketNext
<1>2. ASSUME NEW v \in Visitors, VisitorNext(v) PROVE RegisterInv'
      BY <1>2 DEF VisitorNext, Lookup, Join, JoinFails, add_client, Leave, remove_client,
         socketVars
<1>3. CASE AllOver \/ UNCHANGED vars
      BY <1>3 DEF AllOver, vars, socketVars
<1>4. QED  BY <1>1, <1>2, <1>3 DEF Next

\* The invariant holds initially.
LEMMA InitIInv == Init => IInv
<1> SUFFICES ASSUME Init PROVE IInv
    OBVIOUS
<1>1. ShapeOK
      BY DEF Init, ShapeOK, Phase, Visit
<1>2. LinkOK
      BY DEF Init, LinkOK
<1>3. RegisterInv
      BY RegistrationAssumption
      DEF Init, RegisterInv, HostKnown, ChallengesDiffer, RegisterMatchesTunnels, Named, Handshake,
          RegistrationAssumption
<1>4. QED  BY <1>1, <1>2, <1>3, TypeParts DEF IInv

\* Every step preserves the type invariant.
LEMMA TypeStep == TypeOK /\ [Next]_vars => TypeOK'
BY TypeParts, TypePartsNext, ShapeStep, LinkStep

\* The types of the register and of the connections hold for every number of
\* them.
THEOREM TypeCorrect == Spec => []TypeOK
<1>1. Init => TypeOK
      BY InitIInv DEF IInv
<1>2. QED  BY <1>1, TypeStep, PTL DEF Spec

\* The inductive invariant holds.
THEOREM Inductive == Spec => []IInv
<1>1. IInv /\ [Next]_vars => IInv'
      BY TypeStep, RegisterStep DEF IInv
<1>2. QED  BY <1>1, InitIInv, PTL DEF Spec

\* The register names exactly the tunnels between add_server and
\* remove_server, for any number of competing connections.
THEOREM RegisterExact == Spec => []RegisterMatchesTunnels
<1>1. IInv => RegisterMatchesTunnels
      BY DEF IInv, RegisterInv
<1>2. QED  BY <1>1, Inductive, PTL

\* A registered tunnel belongs to a client that holds the hostname's key.
THEOREM KeyHolders == Spec => []OnlyKeyHolderRegistered
<1>1. IInv => OnlyKeyHolderRegistered
      BY DEF IInv, RegisterInv, HostKnown, RegisterMatchesTunnels, OnlyKeyHolderRegistered,
         Named, Handshake
<1>2. QED  BY <1>1, Inductive, PTL

-----------------------------------------------------------------------------
(* The number of players.                                                  *)

\* The visitors between add_client and remove_client.
Counted == {v \in Visitors : visit[v] \in {"playing", "left"}}

\* Every step keeps the count of players balanced.
LEMMA CountStep == TypeOK /\ CountBalanced /\ [Next]_vars => CountBalanced'
<1> SUFFICES ASSUME TypeOK, CountBalanced, [Next]_vars PROVE CountBalanced'
    OBVIOUS
<1>0. ShapeOK  BY TypeParts
<1>1. IsFiniteSet(Counted)
      BY FS_Subset, RegistrationAssumption DEF Counted, RegistrationAssumption
<1>2. /\ client_count = Cardinality(Counted)
      /\ CountBalanced' <=> client_count' = Cardinality(Counted')
      BY DEF CountBalanced, Counted
<1>3. CASE UNCHANGED <<client_count, visit>>
      BY <1>2, <1>3 DEF Counted
<1>4. ASSUME NEW v \in Visitors, VisitorNext(v) PROVE CountBalanced'
  <2>1. CASE add_client(v)
    <3>1. Counted' = Counted \cup {v} /\ v \notin Counted /\ client_count' = client_count + 1
          BY <1>0, <2>1 DEF add_client, Counted, ShapeOK
    <3>2. Cardinality(Counted \cup {v}) = Cardinality(Counted) + 1
          BY <1>1, <3>1, FS_AddElement
    <3>3. QED  BY <1>2, <3>1, <3>2
  <2>2. CASE remove_client(v)
    <3>1. Counted' = Counted \ {v} /\ v \in Counted
          BY <1>0, <2>2 DEF remove_client, Counted, ShapeOK
    <3>2. Cardinality(Counted \ {v}) = Cardinality(Counted) - 1 /\ Cardinality(Counted) # 0
          BY <1>1, <3>1, FS_RemoveElement, FS_EmptySet
    <3>3. client_count' = client_count - 1
          BY <1>2, <2>2, <3>2 DEF remove_client
    <3>4. QED  BY <1>2, <3>1, <3>2, <3>3
  <2>3. ASSUME NEW h \in Hosts, Lookup(v, h) PROVE CountBalanced'
    <3>1. Counted' = Counted /\ client_count' = client_count
          BY <1>0, <2>3 DEF Lookup, Counted, ShapeOK
    <3>2. QED  BY <1>2, <3>1
  <2>4. CASE Join(v) \/ JoinFails(v) \/ Leave(v)
    <3>1. Counted' = Counted /\ client_count' = client_count
          BY <1>0, <2>4 DEF Join, JoinFails, Leave, Counted, ShapeOK
    <3>2. QED  BY <1>2, <3>1
  <2>5. QED  BY <1>4, <2>1, <2>2, <2>3, <2>4 DEF VisitorNext
<1>5. ASSUME NEW s \in Sockets, SocketNext(s) PROVE UNCHANGED <<client_count, visit>>
      BY <1>5, Zenon DEF SocketNext, Accept, Identify, Hello, Challenge, Authenticate,
         AuthenticateFails, HandshakeEnds, Register, AlreadyConnected, SendConnected,
         SendConnectedFails,
         TunnelEnds, IntoDisconnected, LinkDies, visitVars
<1>6. CASE AllOver \/ UNCHANGED vars
      BY <1>3, <1>6, Zenon DEF AllOver, vars, visitVars
<1>7. QED  BY <1>3, <1>4, <1>5, <1>6 DEF Next

\* Register.client_count counts every player between add_client and
\* remove_client, and its saturating subtraction never saturates.
THEOREM CountExact == Spec => []CountBalanced
<1>1. Init => CountBalanced
  <2> SUFFICES ASSUME Init PROVE CountBalanced
      OBVIOUS
  <2>1. {v \in Visitors : visit[v] \in {"playing", "left"}} = {}
        BY DEF Init
  <2>2. QED  BY <2>1, FS_EmptySet DEF Init, CountBalanced
<1>2. QED  BY <1>1, CountStep, TypeCorrect, PTL DEF Spec

-----------------------------------------------------------------------------
(* The register implements HostLock.                                       *)

\* The refinement mapping of ImplementsHostLock: the names a connection asked for.
Wants == [s \in Sockets |-> IF hostname[s] = NoHost THEN {} ELSE {hostname[s]}]

\* The register implements a lock per hostname: a name is taken only when it
\* is free and given back only by the tunnel that holds it.
THEOREM RefinesHostLock == Spec => ImplementsHostLock
<1>1. Init => Lock!Init
      BY DEF Init, Lock!Init
<1>2. IInv /\ [Next]_vars => [Lock!Next]_<<servers, Wants>>
  <2> SUFFICES ASSUME IInv, [Next]_vars PROVE [Lock!Next]_<<servers, Wants>>
      OBVIOUS
  <2>0. ShapeOK  BY TypeParts DEF IInv
  <2>1. CASE UNCHANGED <<servers, hostname>>
        BY <2>1 DEF Wants
  <2>2. ASSUME NEW s \in Sockets, NEW h \in Hosts, NEW k \in Keys, Hello(s, h, k)
        PROVE  Lock!Choose(s, h)
        BY <2>0, <2>2, RegistrationAssumption
        DEF Hello, Goto, Lock!Choose, IInv, RegisterInv, HostKnown, ShapeOK,
            RegistrationAssumption
  <2>3. ASSUME NEW s \in Sockets, Register(s) PROVE Lock!Acquire(s, hostname[s])
        BY <2>0, <2>3, RegistrationAssumption
        DEF Register, add_server, Goto, Lock!Acquire, IInv, RegisterInv, HostKnown, Named,
            ShapeOK, RegistrationAssumption
  <2>4. ASSUME NEW s \in Sockets, IntoDisconnected(s) PROVE Lock!Release(s, hostname[s])
        BY <2>0, <2>4, RegistrationAssumption
        DEF IntoDisconnected, remove_server, Goto, Lock!Release, IInv, RegisterInv, HostKnown,
            RegisterMatchesTunnels, Named, ShapeOK, RegistrationAssumption
  <2>5. ASSUME NEW s \in Sockets, Register(s) \/ IntoDisconnected(s)
        PROVE  hostname[s] \in Hosts
        BY <2>5 DEF Register, IntoDisconnected, Goto, IInv, RegisterInv, HostKnown, Named
  <2>6. \/ UNCHANGED <<servers, hostname>>
        \/ \E s \in Sockets : \E h \in Hosts, k \in Keys : Hello(s, h, k)
        \/ \E s \in Sockets : Register(s) \/ IntoDisconnected(s)
        BY Zenon DEF Next, SocketNext, Accept, Identify, Challenge, Authenticate, AuthenticateFails,
           HandshakeEnds, AlreadyConnected, SendConnected, SendConnectedFails, TunnelEnds,
           LinkDies, VisitorNext, Lookup, Join, JoinFails, add_client, Leave, remove_client,
           AllOver, vars, socketVars
  <2>7. QED  BY <2>1, <2>2, <2>3, <2>4, <2>5, <2>6 DEF Lock!Next
<1>3. QED  BY <1>1, <1>2, Inductive, PTL DEF Spec, ImplementsHostLock, Lock!Spec, Wants
=============================================================================
