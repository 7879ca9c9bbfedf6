--------------------------- MODULE MembershipProofs ---------------------------
(***************************************************************************)
(* Proofs about Membership, for any number of brokers, crashes and broken  *)
(* connections: type correctness, and that no two running brokers answer   *)
(* for one sector when timeouts are punctual.                              *)
(***************************************************************************)
EXTENDS Membership, TLAPS

-----------------------------------------------------------------------------
(***************************************************************************)
(* The walk round the ring.                                                *)
(***************************************************************************)

\* Of two brokers, one comes first on the walk from a third.
LEMMA OneIsNearer ==
  ASSUME NEW s \in Broker, NEW x \in Broker, NEW y \in Broker,
         x # y, x # s, y # s
  PROVE  Nearer(x, y, s) \/ Nearer(y, x, s)
BY MembershipAssumption DEF Nearer, MembershipAssumption

\* A walk from s to y that meets d goes on from d as the walk from d does.
LEMMA WalkOn ==
  ASSUME NEW s \in Broker, NEW d \in Broker, NEW x \in Broker,
         NEW y \in Broker, Nearer(x, y, s), y # s
  PROVE  x = d \/ Nearer(x, d, s) \/ Nearer(x, y, d)
BY MembershipAssumption DEF Nearer, MembershipAssumption

-----------------------------------------------------------------------------
\* Keys, and that none of them stands for nobody.
LEMMA Keys ==
  /\ None \notin Broker /\ Broker \subseteq Key
  /\ \A c \in Broker : Addr(c) \in Key /\ Addr(c) # c
  /\ \A c, d \in Broker : /\ Addr(c) # d
                          /\ Addr(c) = Addr(d) => c = d
<1>1. \A c \in Broker : c \in Nat \ {0}
  BY MembershipAssumption DEF MembershipAssumption
<1>. QED  BY <1>1 DEF None, Key, Addr

-----------------------------------------------------------------------------
(***************************************************************************)
(* Channels.                                                               *)
(***************************************************************************)
MessageBag == UNION {[S -> Nat \ {0}] : S \in SUBSET Message}

Channels == [Broker -> [Broker -> MessageBag]]

\* The channels q after b has sent m to the brokers in S.
Written(q, b, S, m) ==
  [q EXCEPT ![b] = [c \in Broker |-> IF c \in S THEN With(@[c], m) ELSE @[c]]]

\* The channels q after c has read the message m of b.
Read1(q, b, c, m) == [q EXCEPT ![b][c] = Without(@, m)]

LEMMA BagTyped ==
  ASSUME NEW q
  PROVE  q \in MessageBag <=> IsABag(q) /\ BagToSet(q) \subseteq Message
<1>1. ASSUME q \in MessageBag PROVE IsABag(q) /\ BagToSet(q) \subseteq Message
  <2>1. PICK S \in SUBSET Message : q \in [S -> Nat \ {0}]
    BY <1>1 DEF MessageBag
  <2>2. DOMAIN q = S /\ \A e \in S : q[e] \in Nat /\ q[e] > 0
    BY <2>1
  <2>. QED  BY <2>1, <2>2 DEF IsABag, BagToSet
<1>2. ASSUME IsABag(q), BagToSet(q) \subseteq Message PROVE q \in MessageBag
  <2>1. q \in [DOMAIN q -> Nat \ {0}] /\ DOMAIN q \in SUBSET Message
    BY <1>2 DEF IsABag, BagToSet
  <2>. QED  BY <2>1 DEF MessageBag
<1>. QED  BY <1>1, <1>2

LEMMA EmptyTyped == EmptyBag \in MessageBag /\ BagToSet(EmptyBag) = {}
<1>1. IsABag(EmptyBag) /\ BagToSet(EmptyBag) = {}
  BY DEF IsABag, EmptyBag, SetToBag, BagToSet
<1>. QED  BY <1>1, BagTyped

\* What a bag holds once m was added to it.
LEMMA WithTyped ==
  ASSUME NEW q \in MessageBag, NEW m \in Message
  PROVE  With(q, m) \in MessageBag /\ BagToSet(With(q, m)) = BagToSet(q) \cup {m}
<1>1. IsABag(q) /\ BagToSet(q) \subseteq Message
  BY BagTyped
<1>2. IsABag(With(q, m)) /\ BagToSet(With(q, m)) = BagToSet(q) \cup {m}
  BY <1>1 DEF With, IsABag, SetToBag, BagToSet, (+)
<1>3. With(q, m) \in MessageBag
  BY <1>1, <1>2, BagTyped
<1>. QED  BY <1>2, <1>3

\* Nothing is in a bag that was not there before one was taken.
LEMMA WithoutTyped ==
  ASSUME NEW q \in MessageBag, NEW m
  PROVE  Without(q, m) \in MessageBag /\ BagToSet(Without(q, m)) \subseteq BagToSet(q)
<1>1. IsABag(q) /\ BagToSet(q) \subseteq Message
  BY BagTyped
<1>2. IsABag(Without(q, m)) /\ BagToSet(Without(q, m)) \subseteq BagToSet(q)
  BY <1>1 DEF Without, IsABag, SetToBag, BagToSet, (-)
<1>3. Without(q, m) \in MessageBag
  BY <1>1, <1>2, BagTyped
<1>. QED  BY <1>2, <1>3

LEMMA ChannelsTyped ==
  ASSUME NEW q
  PROVE  q \in Channels <=> BagsOfMessages(q)
<1>1. ASSUME q \in Channels PROVE BagsOfMessages(q)
  <2>1. \A b, c \in Broker : q[b][c] \in MessageBag
    BY <1>1 DEF Channels
  <2>2. q = [b \in Broker |-> [c \in Broker |-> q[b][c]]]
    BY <1>1 DEF Channels
  <2>. QED  BY <2>1, <2>2, BagTyped DEF BagsOfMessages
<1>2. ASSUME BagsOfMessages(q) PROVE q \in Channels
  <2>1. \A b, c \in Broker : q[b][c] \in MessageBag
    BY <1>2, BagTyped DEF BagsOfMessages
  <2>2. q = [b \in Broker |-> [c \in Broker |-> q[b][c]]]
    BY <1>2 DEF BagsOfMessages
  <2>. QED  BY <2>1, <2>2 DEF Channels
<1>. QED  BY <1>1, <1>2

\* A message that is written to some is the only change.
LEMMA AddedTo ==
  ASSUME NEW q \in Channels, NEW b \in Broker, NEW m \in Message, NEW S
  PROVE  /\ Written(q, b, S, m) \in Channels
         /\ \A x, y \in Broker : \A e \in BagToSet(Written(q, b, S, m)[x][y]) :
              e \in BagToSet(q[x][y]) \/ (x = b /\ y \in S /\ e = m)
<1>. DEFINE p == Written(q, b, S, m)
<1>1. \A x, y \in Broker : q[x][y] \in MessageBag
  BY DEF Channels
<1>2. \A x, y \in Broker :
        p[x][y] = IF x = b /\ y \in S THEN With(q[x][y], m) ELSE q[x][y]
  BY DEF Channels, Written
<1>3. \A x, y \in Broker : p[x][y] \in MessageBag
  BY <1>1, <1>2, WithTyped
<1>4. p = [x \in Broker |-> [y \in Broker |-> p[x][y]]]
  BY DEF Channels, Written
<1>. HIDE DEF p
<1>5. p \in Channels
  BY <1>3, <1>4 DEF Channels
<1>6. ASSUME NEW x \in Broker, NEW y \in Broker, NEW e \in BagToSet(p[x][y])
      PROVE  e \in BagToSet(q[x][y]) \/ (x = b /\ y \in S /\ e = m)
  BY <1>1, <1>2, WithTyped
<1>. QED  BY <1>5, <1>6 DEF p

\* What is left after a message was read was there before.
LEMMA LeftOver ==
  ASSUME NEW q \in Channels, NEW b \in Broker, NEW c \in Broker, NEW m
  PROVE  /\ Read1(q, b, c, m) \in Channels
         /\ \A x, y \in Broker :
              BagToSet(Read1(q, b, c, m)[x][y]) \subseteq BagToSet(q[x][y])
<1>. DEFINE p == Read1(q, b, c, m)
<1>1. \A x, y \in Broker : q[x][y] \in MessageBag
  BY DEF Channels
<1>2. \A x, y \in Broker :
        p[x][y] = IF x = b /\ y = c THEN Without(q[x][y], m) ELSE q[x][y]
  BY DEF Channels, Read1
<1>3. \A x, y \in Broker :
        p[x][y] \in MessageBag /\ BagToSet(p[x][y]) \subseteq BagToSet(q[x][y])
  BY <1>1, <1>2, WithoutTyped
<1>4. p = [x \in Broker |-> [y \in Broker |-> p[x][y]]]
  BY DEF Channels, Read1
<1>. HIDE DEF p
<1>5. p \in Channels
  BY <1>3, <1>4 DEF Channels
<1>. QED  BY <1>3, <1>5 DEF p

-----------------------------------------------------------------------------
(***************************************************************************)
(* Heirs, and that there is one for a sector.                              *)
(***************************************************************************)

\* A broker that takes over from one that is down is the heir of the sector
\* it knows that one by.
LEMMA TakerIsHeir ==
  ASSUME MeshTypeOK, RingSound,
         NEW b \in Running, NEW d \in mortos[b] \cup verificar[b],
         setores[b][d] # None, TakesOver(b, d)
  PROVE  Heir(b, setores[b][d])
<1>1. b \in Broker /\ d \in Broker /\ d \in Down
  BY DEF MeshTypeOK, RingSound, OnlyDownAreDead, Running
<1>2. b # d /\ d \notin Running
  BY <1>1 DEF Down
<1>3. setores[b][d] = d \/ Heir(d, setores[b][d])
  BY <1>1, <1>2 DEF RingSound, SectorsTrue
<1>4. setores[b][d] \in Down /\ setores[b][d] \in Broker
  BY <1>1, <1>3 DEF Heir, Down
<1>5. ASSUME NEW x \in Running, Nearer(x, b, setores[b][d])
      PROVE  FALSE
  <2>1. x \in Broker /\ x # d /\ b # setores[b][d]
    BY <1>1, <1>2, <1>4 DEF Running, Down
  <2>2. x \in Alive(b)
    <3>1. CASE x = b
      BY <3>1, <1>1 DEF Alive, Ring
    <3>2. CASE x # b
      <4>1. setores[b][x] = x \/ Heir(x, setores[b][x])
        BY <3>2, <2>1 DEF RingSound, SectorsTrue
      <4>2. setores[b][x] \in Broker
        BY <4>1, <2>1 DEF Heir, Down
      <4>3. x \notin mortos[b]
        BY <1>1 DEF RingSound, OnlyDownAreDead, Down
      <4>. QED  BY <4>2, <4>3, <2>1, Keys DEF Alive, Ring
    <3>. QED  BY <3>1, <3>2
  <2>3. ~ Nearer(x, b, d)
    BY <2>2 DEF TakesOver
  <2>4. Nearer(x, d, setores[b][d])
    BY <1>1, <1>4, <1>5, <2>1, <2>3, WalkOn
  <2>5. setores[b][d] # d
    BY <1>5, <2>3
  <2>. QED  BY <1>3, <2>4, <2>5 DEF Heir
<1>. QED  BY <1>4, <1>5 DEF Heir

\* No two running brokers are heirs of one sector.
LEMMA OneHeir ==
  ASSUME NEW s \in Broker, NEW b \in Running, NEW c \in Running,
         Heir(b, s), Heir(c, s)
  PROVE  b = c
<1>1. b \in Broker /\ c \in Broker /\ b # s /\ c # s
  BY DEF Heir, Down, Running
<1>2. ~ Nearer(c, b, s) /\ ~ Nearer(b, c, s)
  BY DEF Heir
<1>. QED  BY <1>1, <1>2, OneIsNearer

\* Whoever answers for a sector owns it or is its heir.
LEMMA SoundIsExclusive == MeshTypeOK /\ RingSound => Exclusive
<1>. SUFFICES ASSUME MeshTypeOK, RingSound, NEW s \in Broker,
                     NEW b \in Running, NEW c \in Running,
                     MayAnswer(b, s), MayAnswer(c, s)
              PROVE  b = c
  BY DEF Exclusive
<1>1. ASSUME NEW x \in Running, MayAnswer(x, s)
      PROVE  s = x \/ Heir(x, s)
  <2>1. ASSUME NEW d \in Owners(x, s) \cap mortos[x], TakesOver(x, d)
        PROVE  Heir(x, s)
    <3>1. setores[x][d] = s /\ s # None
      BY Keys DEF Owners
    <3>. QED  BY <2>1, <3>1, TakerIsHeir
  <2>. QED  BY <1>1, <2>1 DEF MayAnswer
<1>2. ASSUME NEW x \in Running, Heir(x, s) PROVE s \notin Running
  BY <1>2 DEF Heir, Down
<1>3. s = b \/ Heir(b, s)
  BY <1>1
<1>4. s = c \/ Heir(c, s)
  BY <1>1
<1>. QED  BY <1>2, <1>3, <1>4, OneHeir

-----------------------------------------------------------------------------
(***************************************************************************)
(* Steps.                                                                  *)
(***************************************************************************)

\* An heir stays one when brokers go down.
LEMMA HeirStays ==
  ASSUME \A x \in Broker : up'[x] => up[x],
         NEW d, NEW s, Heir(d, s)
  PROVE  Heir(d, s)'
BY DEF Heir, Down, Running

\* So does a message stay credible, when no sender is held for dead.
LEMMA CredibleStays ==
  ASSUME \A x \in Broker : up'[x] => up[x],
         NEW b, NEW c, NEW m, Credible(b, c, m),
         b \in readers'[c] \ mortos'[c]
  PROVE  Credible(b, c, m)'
BY HeirStays DEF Credible

AllCredible(q) ==
  \A x, y \in Broker : \A m \in BagToSet(q[x][y]) : Credible(x, y, m)

\* The connections that are read do not share keys.
LEMMA OwnKeys ==
  ASSUME MeshTypeOK, RingSound, NEW b \in Broker, NEW c \in Broker,
         NEW x \in readers[b], x # c
  PROVE  /\ x \in Broker /\ x # b
         /\ idReal[b][x] \in Key
         /\ idReal[b][x] # c /\ idReal[b][x] # Addr(c)
         /\ vizinhos[b][idReal[b][x]] = x
<1>1. x \in Broker /\ idReal[b][x] \in Key
  BY DEF MeshTypeOK
<1>2. /\ x # b /\ idReal[b][x] \in {x, Addr(x)}
      /\ vizinhos[b][idReal[b][x]] = x
  BY DEF RingSound, ReadIsWritten
<1>. QED  BY <1>1, <1>2, Keys

\* A broker reads a message of another that it does not hold for dead.
LEMMA ProcessedStep ==
  ASSUME MeshTypeOK, RingSound,
         NEW b \in Broker, NEW c \in Broker, b \in readers[c],
         b \notin mortos[c],
         NEW s, s \in {None, b} \/ Heir(b, s),
         NEW q \in Channels, AllCredible(q),
         Processed(c, b, b, s, Rekeyed(c, b, b), q),
         UNCHANGED <<up, readers, verificar, boundVars>>
  PROVE  MeshTypeOK' /\ RingSound'
<1>. DEFINE old == idReal[c][b]
<1>1. /\ b # c /\ up[c] /\ old \in {b, Addr(b)} /\ old \in Key
      /\ vizinhos[c][old] = b /\ b \in Key
  BY Keys DEF RingSound, ReadIsWritten, OnlyDownAreDead, MeshTypeOK
<1>2. s \in Broker \cup {None}
  BY DEF Heir, Down
<1>3. chan' = q
  BY DEF Processed, Revival
<1>4. /\ vizinhos' = [vizinhos EXCEPT ![c] = Rekeyed(c, b, b)]
      /\ idReal' = [idReal EXCEPT ![c][b] = b]
      /\ ultimoHB' = [ultimoHB EXCEPT ![c] = @ \cup {b}]
      /\ setores' = [setores EXCEPT ![c][b] = SectorTold(c, b, s)]
      /\ mortos' = [mortos EXCEPT ![c] = @ \ {b}]
      /\ up' = up /\ readers' = readers /\ verificar' = verificar
      /\ crashes' = crashes /\ breaks' = breaks
  BY DEF Processed, boundVars
<1>5. SectorTold(c, b, s) \in Broker \cup {None}
  BY <1>2 DEF SectorTold, MeshTypeOK
<1>6. /\ Rekeyed(c, b, b) \in [Key -> Broker \cup {None}]
      /\ Rekeyed(c, b, b)[b] = b
      /\ \A k \in Key : k # b /\ k # Addr(b)
                          => Rekeyed(c, b, b)[k] = vizinhos[c][k]
  <2>1. vizinhos[c] \in [Key -> Broker \cup {None}]
    BY DEF MeshTypeOK
  <2>2. CASE old = b
    BY <2>1, <2>2, <1>1 DEF Rekeyed
  <2>3. CASE old # b
    <3>1. Rekeyed(c, b, b) = [vizinhos[c] EXCEPT ![old] = None, ![b] = b]
      BY <2>3 DEF Rekeyed
    <3>. QED  BY <3>1, <2>1, <1>1
  <2>. QED  BY <2>2, <2>3
<1>7. MeshTypeOK'
  <2>1. vizinhos' \in [Broker -> [Key -> Broker \cup {None}]]
    BY <1>4, <1>6 DEF MeshTypeOK
  <2>2. idReal' \in [Broker -> [Broker -> Key]]
    BY <1>4, <1>1 DEF MeshTypeOK
  <2>3. ultimoHB' \in [Broker -> SUBSET Broker]
    BY <1>4 DEF MeshTypeOK
  <2>4. setores' \in [Broker -> [Broker -> Broker \cup {None}]]
    BY <1>4, <1>5 DEF MeshTypeOK
  <2>5. mortos' \in [Broker -> SUBSET Broker]
    BY <1>4 DEF MeshTypeOK
  <2>6. /\ up' \in [Broker -> BOOLEAN] /\ readers' \in [Broker -> SUBSET Broker]
        /\ verificar' \in [Broker -> SUBSET Broker]
        /\ {crashes', breaks'} \subseteq Nat
    BY <1>4 DEF MeshTypeOK
  <2>7. BagsOfMessages(chan')
    BY <1>3, ChannelsTyped
  <2>. QED  BY <2>1, <2>2, <2>3, <2>4, <2>5, <2>6, <2>7 DEF MeshTypeOK
<1>8. mortos' = mortos
  BY <1>4 DEF MeshTypeOK
<1>9. OnlyDownAreDead'
  BY <1>1, <1>4, <1>8 DEF RingSound, OnlyDownAreDead, Down, Running, MeshTypeOK
<1>10. ReadIsWritten'
  <2>. SUFFICES ASSUME NEW x \in Broker, NEW y \in readers[x]
                PROVE  /\ y # x /\ idReal'[x][y] \in {y, Addr(y)}
                       /\ vizinhos'[x][idReal'[x][y]] = y
    BY <1>4 DEF ReadIsWritten
  <2>1. y \in Broker /\ y # x /\ idReal[x][y] \in {y, Addr(y)}
        /\ vizinhos[x][idReal[x][y]] = y
    BY DEF RingSound, ReadIsWritten, MeshTypeOK
  <2>2. CASE x # c
    BY <2>1, <2>2, <1>4 DEF MeshTypeOK
  <2>3. CASE x = c /\ y = b
    <3>1. idReal'[x][y] = b /\ vizinhos'[x] = Rekeyed(c, b, b)
      BY <2>3, <1>4 DEF MeshTypeOK
    <3>. QED  BY <3>1, <2>3, <2>1, <1>6
  <2>4. CASE x = c /\ y # b
    <3>1. idReal'[x][y] = idReal[c][y] /\ vizinhos'[x] = Rekeyed(c, b, b)
      BY <2>4, <2>1, <1>4 DEF MeshTypeOK
    <3>2. idReal[c][y] \in Key /\ idReal[c][y] # b /\ idReal[c][y] # Addr(b)
      BY <2>4, OwnKeys
    <3>. QED  BY <3>1, <3>2, <2>1, <2>4, <1>6
  <2>. QED  BY <2>2, <2>3, <2>4
<1>11. SectorsTrue'
  <2>1. ASSUME NEW x \in Running, NEW y \in Broker, x # y
        PROVE  setores'[x][y] = y \/ Heir(y, setores'[x][y])
    <3>1. x \in Broker /\ (setores[x][y] = y \/ Heir(y, setores[x][y]))
      BY <2>1 DEF RingSound, SectorsTrue, Running
    <3>2. CASE x = c /\ y = b
      <4>1. setores'[x][y] = SectorTold(c, b, s)
        BY <3>2, <1>4 DEF MeshTypeOK
      <4>. QED  BY <4>1, <3>1, <3>2 DEF SectorTold
    <3>3. CASE ~ (x = c /\ y = b)
      <4>1. setores'[x][y] = setores[x][y]
        BY <3>1, <3>3, <1>4 DEF MeshTypeOK
      <4>. QED  BY <4>1, <3>1
    <3>. QED  BY <3>2, <3>3
  <2>2. Running' = Running /\ \A d, z : Heir(d, z)' <=> Heir(d, z)
    BY <1>4 DEF Running, Heir, Down
  <2>3. \A x, y, m : Credible(x, y, m)' <=> Credible(x, y, m)
    BY <2>2, <1>4, <1>8 DEF Credible
  <2>. QED  BY <2>1, <2>2, <2>3, <1>3 DEF SectorsTrue, AllCredible, Unread
<1>. QED  BY <1>7, <1>9, <1>10, <1>11 DEF RingSound

-----------------------------------------------------------------------------
\* What is in flight is credible, also without a message of it.
LEMMA InFlight ==
  ASSUME MeshTypeOK, RingSound
  PROVE  chan \in Channels /\ AllCredible(chan)
BY ChannelsTyped DEF MeshTypeOK, RingSound, SectorsTrue, AllCredible, Unread

LEMMA RemovedCredible ==
  ASSUME MeshTypeOK, RingSound, NEW b \in Broker, NEW c \in Broker, NEW m
  PROVE  Removed(b, c, m) \in Channels /\ AllCredible(Removed(b, c, m))
<1>. DEFINE p == Removed(b, c, m)
<1>1. chan \in Channels /\ AllCredible(chan)
  BY InFlight
<1>2. p = Read1(chan, b, c, m)
  BY DEF Removed, Read1
<1>. HIDE DEF p
<1>3. /\ p \in Channels
      /\ \A x, y \in Broker : BagToSet(p[x][y]) \subseteq BagToSet(chan[x][y])
  BY <1>1, <1>2, LeftOver
<1>4. p \in Channels /\ AllCredible(p)
  BY <1>1, <1>3 DEF AllCredible
<1>. QED  BY <1>4 DEF p

\* Writing its own message, about a sector it is the heir of if any, to
\* brokers that read it, keeps a running broker credible.
LEMMA WrittenCredible ==
  ASSUME MeshTypeOK, RingSound, NEW q \in Channels, AllCredible(q),
         NEW b \in Running, NEW m \in Message, m.id = b,
         m.setor = None \/ Heir(b, m.setor),
         NEW S, \A c \in S : c \in Broker => b \in readers[c]
  PROVE  Written(q, b, S, m) \in Channels /\ AllCredible(Written(q, b, S, m))
<1>. DEFINE p == Written(q, b, S, m)
<1>1. b \in Broker /\ \A c \in Broker : b \notin mortos[c]
  BY DEF RingSound, OnlyDownAreDead, Running, Down
<1>2. /\ p \in Channels
      /\ \A x, y \in Broker : \A e \in BagToSet(p[x][y]) :
           e \in BagToSet(q[x][y]) \/ (x = b /\ y \in S /\ e = m)
  BY <1>1, AddedTo
<1>. HIDE DEF p
<1>4. \A y \in Broker : y \in S => Credible(b, y, m)
  BY <1>1 DEF Credible
<1>5. p \in Channels /\ AllCredible(p)
  BY <1>2, <1>4 DEF AllCredible
<1>. QED  BY <1>5 DEF p

LEMMA BroadcastCredible ==
  ASSUME MeshTypeOK, RingSound, NEW q \in Channels, AllCredible(q),
         NEW b \in Running, NEW m \in Message, m.id = b,
         m.setor = None \/ Heir(b, m.setor)
  PROVE  /\ Broadcast(q, b, vizinhos[b], readers, m) \in Channels
         /\ AllCredible(Broadcast(q, b, vizinhos[b], readers, m))
<1>. DEFINE S == Reached(b, vizinhos[b], readers)
<1>1. \A c \in S : c \in Broker => b \in readers[c]
  BY DEF Reached
<1>2. Broadcast(q, b, vizinhos[b], readers, m) = Written(q, b, S, m)
  BY DEF Broadcast, Written
<1>. HIDE DEF S
<1>3. Written(q, b, S, m) \in Channels /\ AllCredible(Written(q, b, S, m))
  BY <1>1, WrittenCredible
<1>. QED  BY <1>2, <1>3

\* A step that only sends or drops credible messages, or starts nothing.
LEMMA ChanStep ==
  ASSUME MeshTypeOK, RingSound,
         UNCHANGED <<up, readers, viewVars>>,
         verificar' \in [Broker -> SUBSET Broker],
         \A b \in Broker : verificar'[b] \subseteq verificar[b],
         {crashes', breaks'} \subseteq Nat,
         chan' \in Channels, AllCredible(chan')
  PROVE  MeshTypeOK' /\ RingSound'
<1>1. /\ up' = up /\ readers' = readers /\ vizinhos' = vizinhos
      /\ idReal' = idReal /\ ultimoHB' = ultimoHB /\ mortos' = mortos
      /\ setores' = setores
  BY DEF viewVars
<1>2. MeshTypeOK'
  BY <1>1, ChannelsTyped DEF MeshTypeOK
<1>3. OnlyDownAreDead'
  BY <1>1 DEF RingSound, OnlyDownAreDead, Down, Running
<1>4. ReadIsWritten'
  BY <1>1 DEF RingSound, ReadIsWritten
<1>5. Running' = Running /\ \A d, z : Heir(d, z)' <=> Heir(d, z)
  BY <1>1 DEF Running, Heir, Down
<1>6. \A x, y, m : Credible(x, y, m)' <=> Credible(x, y, m)
  BY <1>5, <1>1 DEF Credible
<1>7. SectorsTrue'
  BY <1>1, <1>5, <1>6 DEF RingSound, SectorsTrue, AllCredible, Unread
<1>. QED  BY <1>2, <1>3, <1>4, <1>7 DEF RingSound

-----------------------------------------------------------------------------
(***************************************************************************)
(* The actions.                                                            *)
(***************************************************************************)

LEMMA HeartbeatStep ==
  ASSUME MeshTypeOK, RingSound, NEW b \in Broker, NEW c \in Broker,
         Heartbeat(b, c)
  PROVE  MeshTypeOK' /\ RingSound'
<1>1. up[b] /\ b \in readers[c]
  BY DEF Heartbeat, Heard, Reached
<1>2. b \notin mortos[c]
  BY <1>1 DEF RingSound, OnlyDownAreDead, Down, Running
<1>3. chan \in Channels /\ AllCredible(chan)
  BY InFlight
<1>4. /\ Processed(c, b, b, b, Rekeyed(c, b, b), chan)
      /\ UNCHANGED <<up, readers, verificar, boundVars>>
  BY DEF Heartbeat
<1>. QED  BY <1>1, <1>2, <1>3, <1>4, ProcessedStep

LEMMA ReceiveStep ==
  ASSUME MeshTypeOK, RingSound, NEW b \in Broker, NEW c \in Broker,
         Receive(b, c)
  PROVE  MeshTypeOK' /\ RingSound'
<1>. SUFFICES ASSUME NEW m \in Unread(b, c),
                     Processed(c, b, m.id, m.setor, Rekeyed(c, b, m.id),
                               Removed(b, c, m)),
                     UNCHANGED <<up, readers, verificar, boundVars>>
              PROVE  MeshTypeOK' /\ RingSound'
  BY DEF Receive
<1>1. Credible(b, c, m)
  BY InFlight DEF AllCredible, Unread
<1>2. /\ b \in readers[c] /\ b \notin mortos[c] /\ m.id = b
      /\ m.setor \in {None, b} \/ Heir(b, m.setor)
  BY <1>1 DEF Credible
<1>3. Removed(b, c, m) \in Channels /\ AllCredible(Removed(b, c, m))
  BY RemovedCredible
<1>4. Processed(c, b, b, m.setor, Rekeyed(c, b, b), Removed(b, c, m))
  BY <1>2
<1>. QED  BY <1>2, <1>3, <1>4, ProcessedStep

\* Whoever is held for dead is down: it is silent, and not reconnecting.
LEMMA DetectStep ==
  ASSUME Punctual, MeshTypeOK, RingSound, NEW b \in Broker, NEW c \in Broker,
         Detect(b, c)
  PROVE  MeshTypeOK' /\ RingSound'
<1>1. /\ up[b] /\ c \in ultimoHB[b] /\ b # c
      /\ Silent(b, c) /\ ~ Reconnecting(b, c)
      /\ mortos' = [mortos EXCEPT ![b] = @ \cup {c}]
      /\ verificar' = [verificar EXCEPT ![b] = @ \cup {c}]
      /\ up' = up /\ readers' = readers /\ vizinhos' = vizinhos
      /\ idReal' = idReal /\ ultimoHB' = ultimoHB /\ setores' = setores
      /\ chan' = chan /\ crashes' = crashes /\ breaks' = breaks
  BY DEF Detect, boundVars, RingSound, OnlyDownAreDead
<1>2. ~ up[c]
  <2>. SUFFICES ASSUME up[c] PROVE FALSE
    OBVIOUS
  <2>1. c \in readers[b] /\ b \in readers[c]
    BY <1>1 DEF Reconnecting
  <2>2. idReal[c][b] \in Key /\ vizinhos[c][idReal[c][b]] = b
    BY <2>1 DEF RingSound, ReadIsWritten, MeshTypeOK
  <2>3. b \in Reached(c, vizinhos[c], readers)
    BY <2>1, <2>2, Keys DEF Reached
  <2>. QED  BY <1>1, <2>3 DEF Silent, Heard
<1>3. MeshTypeOK'
  BY <1>1 DEF MeshTypeOK
<1>4. OnlyDownAreDead'
  BY <1>1, <1>2 DEF RingSound, OnlyDownAreDead, Down, Running, MeshTypeOK
<1>5. ReadIsWritten'
  BY <1>1 DEF RingSound, ReadIsWritten
<1>6. Running' = Running /\ \A d, z : Heir(d, z)' <=> Heir(d, z)
  BY <1>1 DEF Running, Heir, Down
<1>7. ASSUME NEW x \in Broker, NEW y \in Broker, NEW m \in BagToSet(chan[x][y])
      PROVE  Credible(x, y, m)'
  <2>1. Credible(x, y, m)
    BY InFlight DEF AllCredible
  <2>2. ~ (x = c /\ y = b)
    <3>. SUFFICES ASSUME x = c, y = b PROVE FALSE
      OBVIOUS
    <3>1. m.id # c
      BY <1>1 DEF Silent, Unread
    <3>. QED  BY <2>1, <3>1 DEF Credible
  <2>3. x \in readers'[y] \ mortos'[y]
    BY <2>1, <2>2, <1>1 DEF Credible, MeshTypeOK
  <2>. QED  BY <2>1, <2>3, <1>1, CredibleStays
<1>8. SectorsTrue'
  BY <1>1, <1>6, <1>7 DEF RingSound, SectorsTrue, Unread
<1>. QED  BY <1>3, <1>4, <1>5, <1>8 DEF RingSound

LEMMA VerificarStep ==
  ASSUME MeshTypeOK, RingSound, NEW b \in Broker, NEW d \in Broker,
         VerificarEAtivarFailover(b, d)
  PROVE  MeshTypeOK' /\ RingSound'
<1>. DEFINE m == Msg("FAILOVER", b, setores[b][d])
<1>1. b \in Running /\ d \in verificar[b]
  BY DEF VerificarEAtivarFailover, RingSound, OnlyDownAreDead, Running
<1>2. chan \in Channels /\ AllCredible(chan)
  BY InFlight
<1>3. chan' \in Channels /\ AllCredible(chan')
  <2>1. CASE setores[b][d] # None /\ TakesOver(b, d)
    <3>1. Heir(b, setores[b][d])
      BY <1>1, <2>1, TakerIsHeir
    <3>2. setores[b][d] \in Broker
      BY <3>1 DEF Heir, Down
    <3>3. m \in Message /\ m.id = b /\ m.setor = setores[b][d]
      BY <3>2 DEF Msg, Message
    <3>4. chan' = Broadcast(chan, b, vizinhos[b], readers, m)
      BY <2>1 DEF VerificarEAtivarFailover
    <3>. HIDE DEF m
    <3>. QED  BY <3>1, <3>3, <3>4, <1>1, <1>2, BroadcastCredible
  <2>2. CASE ~ (setores[b][d] # None /\ TakesOver(b, d))
    BY <2>2, <1>2 DEF VerificarEAtivarFailover
  <2>. QED  BY <2>1, <2>2
<1>4. /\ verificar' = [verificar EXCEPT ![b] = @ \ {d}]
      /\ UNCHANGED <<up, readers, viewVars>>
      /\ crashes' = crashes /\ breaks' = breaks
  BY DEF VerificarEAtivarFailover, boundVars
<1>5. /\ verificar' \in [Broker -> SUBSET Broker]
      /\ \A x \in Broker : verificar'[x] \subseteq verificar[x]
      /\ {crashes', breaks'} \subseteq Nat
  BY <1>4 DEF MeshTypeOK
<1>. QED  BY <1>3, <1>4, <1>5, ChanStep

\* A reader that ends, for whatever reason.
LEMMA ReaderEndsStep ==
  ASSUME MeshTypeOK, RingSound, NEW b \in Broker, NEW c \in readers[b],
         ReaderEnds(b, c), {crashes', breaks'} \subseteq Nat,
         UNCHANGED <<up, ultimoHB, mortos, setores, verificar>>
  PROVE  MeshTypeOK' /\ RingSound'
<1>. DEFINE old == idReal[b][c]
<1>1. /\ c \in Broker /\ c \in Key /\ old \in Key /\ c # b
      /\ old \in {c, Addr(c)} /\ vizinhos[b][old] = c
  BY Keys DEF MeshTypeOK, RingSound, ReadIsWritten
<1>2. /\ readers' = [readers EXCEPT ![b] = @ \ {c}]
      /\ vizinhos' = [vizinhos EXCEPT ![b][old] = None]
      /\ idReal' = [idReal EXCEPT ![b][c] = c]
      /\ chan' = [chan EXCEPT ![c][b] = EmptyBag]
      /\ up' = up /\ ultimoHB' = ultimoHB /\ mortos' = mortos
      /\ setores' = setores /\ verificar' = verificar
  BY <1>1 DEF ReaderEnds, MeshTypeOK
<1>. HIDE DEF old
<1>3. MeshTypeOK'
  <2>1. readers' \in [Broker -> SUBSET Broker]
    BY <1>2 DEF MeshTypeOK
  <2>2. vizinhos' \in [Broker -> [Key -> Broker \cup {None}]]
    BY <1>2, <1>1 DEF MeshTypeOK
  <2>3. idReal' \in [Broker -> [Broker -> Key]]
    BY <1>2, <1>1 DEF MeshTypeOK
  <2>4. BagsOfMessages(chan')
    <3>1. chan' \in Channels
      BY <1>2, <1>1, InFlight, EmptyTyped DEF Channels
    <3>. QED  BY <3>1, ChannelsTyped
  <2>. QED  BY <2>1, <2>2, <2>3, <2>4, <1>2 DEF MeshTypeOK
<1>4. OnlyDownAreDead'
  BY <1>2 DEF RingSound, OnlyDownAreDead, Down, Running, MeshTypeOK
<1>5. ReadIsWritten'
  <2>. SUFFICES ASSUME NEW x \in Broker, NEW y \in readers'[x]
                PROVE  /\ y # x /\ idReal'[x][y] \in {y, Addr(y)}
                       /\ vizinhos'[x][idReal'[x][y]] = y
    BY DEF ReadIsWritten
  <2>1. y \in readers[x] /\ ~ (x = b /\ y = c)
    BY <1>2 DEF MeshTypeOK
  <2>2. /\ y \in Broker /\ y # x /\ idReal[x][y] \in {y, Addr(y)}
        /\ idReal[x][y] \in Key /\ vizinhos[x][idReal[x][y]] = y
    BY <2>1 DEF RingSound, ReadIsWritten, MeshTypeOK
  <2>3. idReal'[x][y] = idReal[x][y]
    BY <2>1, <2>2, <1>2 DEF MeshTypeOK
  <2>4. x = b => idReal[x][y] # old
    BY <2>1, <1>1, OwnKeys
  <2>5. vizinhos'[x][idReal[x][y]] = vizinhos[x][idReal[x][y]]
    BY <2>2, <2>4, <1>2, <1>1 DEF MeshTypeOK
  <2>. QED  BY <2>2, <2>3, <2>5
<1>6. Running' = Running /\ \A d, z : Heir(d, z)' <=> Heir(d, z)
  BY <1>2 DEF Running, Heir, Down
<1>7. ASSUME NEW x \in Broker, NEW y \in Broker,
             NEW m \in BagToSet(chan'[x][y])
      PROVE  Credible(x, y, m)'
  <2>1. ~ (x = c /\ y = b)
    <3>. SUFFICES ASSUME x = c, y = b PROVE FALSE
      OBVIOUS
    <3>1. chan'[x][y] = EmptyBag
      BY <1>1, <1>2, InFlight DEF Channels
    <3>. QED  BY <3>1, <1>7, EmptyTyped
  <2>2. chan'[x][y] = chan[x][y]
    BY <2>1, <1>1, <1>2, InFlight DEF Channels
  <2>3. Credible(x, y, m)
    BY <2>2, <1>7, InFlight DEF AllCredible
  <2>4. x \in readers'[y] \ mortos'[y]
    BY <2>1, <2>3, <1>2 DEF Credible, MeshTypeOK
  <2>. QED  BY <2>3, <2>4, <1>2, CredibleStays
<1>8. SectorsTrue'
  BY <1>2, <1>6, <1>7 DEF RingSound, SectorsTrue, Unread
<1>. QED  BY <1>3, <1>4, <1>5, <1>8 DEF RingSound

LEMMA LinkedStep ==
  ASSUME MeshTypeOK, RingSound, NEW b \in Broker, NEW c \in Broker, b # c,
         Linked(b, c)
  PROVE  MeshTypeOK' /\ RingSound'
<1>1. /\ up[b] /\ up[c] /\ c \notin readers[b] /\ b \notin readers[c]
      /\ b \notin mortos[c]
  BY DEF Linked, RingSound, OnlyDownAreDead, Down, Running
<1>2. /\ readers' = [readers EXCEPT ![b] = @ \cup {c}, ![c] = @ \cup {b}]
      /\ vizinhos' = [vizinhos EXCEPT ![b][Addr(c)] = c,
                                      ![c] = [vizinhos[c] EXCEPT ![b] = b]]
      /\ idReal' = [idReal EXCEPT ![b][c] = Addr(c), ![c][b] = b]
      /\ ultimoHB' = [ultimoHB EXCEPT ![c] = @ \cup {b}]
      /\ setores' = [setores EXCEPT ![c][b] = b]
      /\ mortos' = [mortos EXCEPT ![c] = @ \ {b}]
      /\ chan' = chan /\ up' = up /\ verificar' = verificar
      /\ crashes' = crashes /\ breaks' = breaks
  BY <1>1 DEF Linked, Revival, boundVars
<1>3. /\ Addr(c) \in Key /\ b \in Key /\ vizinhos[b] \in [Key -> Broker \cup {None}]
      /\ vizinhos[c] \in [Key -> Broker \cup {None}]
  BY Keys DEF MeshTypeOK
<1>4. MeshTypeOK'
  <2>1. readers' \in [Broker -> SUBSET Broker]
    BY <1>2 DEF MeshTypeOK
  <2>2. vizinhos' \in [Broker -> [Key -> Broker \cup {None}]]
    BY <1>2, <1>3 DEF MeshTypeOK
  <2>3. idReal' \in [Broker -> [Broker -> Key]]
    BY <1>2, <1>3 DEF MeshTypeOK
  <2>4. setores' \in [Broker -> [Broker -> Broker \cup {None}]]
    BY <1>2 DEF MeshTypeOK
  <2>5. /\ ultimoHB' \in [Broker -> SUBSET Broker]
        /\ mortos' \in [Broker -> SUBSET Broker]
    BY <1>2 DEF MeshTypeOK
  <2>. QED  BY <2>1, <2>2, <2>3, <2>4, <2>5, <1>2 DEF MeshTypeOK
<1>5. mortos' = mortos
  BY <1>1, <1>2 DEF MeshTypeOK
<1>6. OnlyDownAreDead'
  <2>1. ASSUME NEW x \in Broker
        PROVE  x \notin ultimoHB'[x] /\ (up[x] \/ readers'[x] = {})
    BY <1>1, <1>2 DEF RingSound, OnlyDownAreDead, MeshTypeOK
  <2>. QED  BY <2>1, <1>2, <1>5 DEF RingSound, OnlyDownAreDead, Down, Running
<1>7. ReadIsWritten'
  <2>. SUFFICES ASSUME NEW x \in Broker, NEW y \in readers'[x]
                PROVE  /\ y # x /\ idReal'[x][y] \in {y, Addr(y)}
                       /\ vizinhos'[x][idReal'[x][y]] = y
    BY DEF ReadIsWritten
  <2>1. CASE x = b /\ y = c
    <3>1. idReal'[x][y] = Addr(c) /\ vizinhos'[x][Addr(c)] = c
      BY <2>1, <1>2, <1>3 DEF MeshTypeOK
    <3>. QED  BY <3>1, <2>1
  <2>2. CASE x = c /\ y = b
    <3>1. idReal'[x][y] = b /\ vizinhos'[x][b] = b
      BY <2>2, <1>2, <1>3 DEF MeshTypeOK
    <3>. QED  BY <3>1, <2>2
  <2>3. CASE ~ (x = b /\ y = c) /\ ~ (x = c /\ y = b)
    <3>1. y \in readers[x]
      BY <2>3, <1>2 DEF MeshTypeOK
    <3>2. /\ y \in Broker /\ y # x /\ idReal[x][y] \in {y, Addr(y)}
          /\ idReal[x][y] \in Key /\ vizinhos[x][idReal[x][y]] = y
      BY <3>1 DEF RingSound, ReadIsWritten, MeshTypeOK
    <3>3. idReal'[x][y] = idReal[x][y]
      BY <2>3, <3>2, <1>2 DEF MeshTypeOK
    <3>4. x = b => idReal[x][y] # Addr(c)
      BY <2>3, <3>1, OwnKeys
    <3>5. x = c => idReal[x][y] # b
      BY <2>3, <3>1, OwnKeys
    <3>6. vizinhos'[x][idReal[x][y]] = vizinhos[x][idReal[x][y]]
      BY <3>2, <3>4, <3>5, <1>2, <1>3 DEF MeshTypeOK
    <3>. QED  BY <3>2, <3>3, <3>6
  <2>. QED  BY <2>1, <2>2, <2>3
<1>8. Running' = Running /\ \A d, z : Heir(d, z)' <=> Heir(d, z)
  BY <1>2 DEF Running, Heir, Down
<1>9. ASSUME NEW x \in Broker, NEW y \in Broker,
             NEW m \in BagToSet(chan[x][y])
      PROVE  Credible(x, y, m)'
  <2>1. Credible(x, y, m)
    BY <1>9, InFlight DEF AllCredible
  <2>2. x \in readers'[y] \ mortos'[y]
    BY <2>1, <1>2, <1>5 DEF Credible, MeshTypeOK
  <2>. QED  BY <2>1, <2>2, <1>2, CredibleStays
<1>10. ASSUME NEW x \in Running, NEW y \in Broker, x # y
       PROVE  setores'[x][y] = y \/ Heir(y, setores'[x][y])
  <2>1. x \in Broker /\ (setores[x][y] = y \/ Heir(y, setores[x][y]))
    BY <1>10 DEF RingSound, SectorsTrue, Running
  <2>. QED  BY <2>1, <1>2 DEF MeshTypeOK
<1>11. SectorsTrue'
  BY <1>2, <1>8, <1>9, <1>10 DEF SectorsTrue, Unread
<1>. QED  BY <1>4, <1>6, <1>7, <1>11 DEF RingSound

LEMMA CrashStep ==
  ASSUME MeshTypeOK, RingSound, NEW b \in Broker, Crash(b)
  PROVE  MeshTypeOK' /\ RingSound'
<1>1. /\ up' = [up EXCEPT ![b] = FALSE]
      /\ readers' = [readers EXCEPT ![b] = {}]
      /\ vizinhos' = [vizinhos EXCEPT ![b] = [k \in Key |-> None]]
      /\ idReal' = [idReal EXCEPT ![b] = [c \in Broker |-> c]]
      /\ ultimoHB' = [ultimoHB EXCEPT ![b] = {}]
      /\ mortos' = [mortos EXCEPT ![b] = {}]
      /\ setores' = [setores EXCEPT ![b] = [c \in Broker |-> None]]
      /\ verificar' = [verificar EXCEPT ![b] = {}]
      /\ chan' = [c \in Broker |-> [chan[c] EXCEPT ![b] = EmptyBag]]
      /\ crashes' = crashes + 1 /\ breaks' = breaks
  BY DEF Crash
<1>2. MeshTypeOK'
  <2>1. /\ up' \in [Broker -> BOOLEAN]
        /\ readers' \in [Broker -> SUBSET Broker]
        /\ ultimoHB' \in [Broker -> SUBSET Broker]
        /\ mortos' \in [Broker -> SUBSET Broker]
        /\ verificar' \in [Broker -> SUBSET Broker]
    BY <1>1 DEF MeshTypeOK
  <2>2. vizinhos' \in [Broker -> [Key -> Broker \cup {None}]]
    BY <1>1 DEF MeshTypeOK
  <2>3. idReal' \in [Broker -> [Broker -> Key]]
    BY <1>1, Keys DEF MeshTypeOK
  <2>4. setores' \in [Broker -> [Broker -> Broker \cup {None}]]
    BY <1>1 DEF MeshTypeOK
  <2>5. BagsOfMessages(chan')
    <3>1. chan' \in Channels
      BY <1>1, InFlight, EmptyTyped DEF Channels
    <3>. QED  BY <3>1, ChannelsTyped
  <2>6. {crashes', breaks'} \subseteq Nat
    BY <1>1 DEF MeshTypeOK
  <2>. QED  BY <2>1, <2>2, <2>3, <2>4, <2>5, <2>6 DEF MeshTypeOK
<1>3. OnlyDownAreDead'
  <2>1. Down \subseteq Down' /\ \A x \in Broker : x # b => up'[x] = up[x]
    BY <1>1 DEF Down, Running, MeshTypeOK
  <2>2. ASSUME NEW x \in Broker
        PROVE  /\ x \notin ultimoHB'[x]
               /\ mortos'[x] \cup verificar'[x] \subseteq Down'
               /\ \/ up'[x]
                  \/ readers'[x] = {} /\ verificar'[x] = {} /\ mortos'[x] = {}
    <3>1. CASE x = b
      BY <3>1, <1>1 DEF MeshTypeOK
    <3>2. CASE x # b
      BY <3>2, <2>1, <1>1 DEF RingSound, OnlyDownAreDead, MeshTypeOK
    <3>. QED  BY <3>1, <3>2
  <2>. QED  BY <2>2 DEF OnlyDownAreDead
<1>4. ReadIsWritten'
  <2>. SUFFICES ASSUME NEW x \in Broker, NEW y \in readers'[x]
                PROVE  /\ y # x /\ idReal'[x][y] \in {y, Addr(y)}
                       /\ vizinhos'[x][idReal'[x][y]] = y
    BY DEF ReadIsWritten
  <2>1. x # b /\ y \in readers[x]
    BY <1>1 DEF MeshTypeOK
  <2>2. idReal'[x] = idReal[x] /\ vizinhos'[x] = vizinhos[x]
    BY <2>1, <1>1 DEF MeshTypeOK
  <2>. QED  BY <2>1, <2>2 DEF RingSound, ReadIsWritten
<1>5. \A x \in Broker : up'[x] => up[x] /\ x # b
  BY <1>1 DEF MeshTypeOK
<1>6. ASSUME NEW x \in Broker, NEW y \in Broker,
             NEW m \in BagToSet(chan'[x][y])
      PROVE  Credible(x, y, m)'
  <2>1. y # b
    <3>. SUFFICES ASSUME y = b PROVE FALSE
      OBVIOUS
    <3>1. chan'[x][y] = EmptyBag
      BY <1>1, InFlight DEF Channels
    <3>. QED  BY <3>1, <1>6, EmptyTyped
  <2>2. chan'[x][y] = chan[x][y]
    BY <2>1, <1>1, InFlight DEF Channels
  <2>3. Credible(x, y, m)
    BY <2>2, <1>6, InFlight DEF AllCredible
  <2>4. x \in readers'[y] \ mortos'[y]
    BY <2>1, <2>3, <1>1 DEF Credible, MeshTypeOK
  <2>. QED  BY <2>3, <2>4, <1>5, CredibleStays
<1>7. ASSUME NEW x \in Broker, up'[x], NEW y \in Broker, x # y
      PROVE  /\ setores'[x][y] = y \/ Heir(y, setores[x][y])'
             /\ setores'[x] = setores[x]
  <2>1. up[x] /\ x # b
    BY <1>5, <1>7
  <2>2. setores[x][y] = y \/ Heir(y, setores[x][y])
    BY <1>7, <2>1 DEF RingSound, SectorsTrue, Running
  <2>3. setores'[x] = setores[x]
    BY <2>1, <1>1 DEF MeshTypeOK
  <2>. QED  BY <2>2, <2>3, <1>5, HeirStays DEF Heir, Down, Running
<1>8. SectorsTrue'
  BY <1>6, <1>7 DEF SectorsTrue, Running, Unread
<1>. QED  BY <1>2, <1>3, <1>4, <1>8 DEF RingSound

-----------------------------------------------------------------------------
(***************************************************************************)
(* The specification.                                                      *)
(***************************************************************************)

LEMMA MeshInitSound == MeshInit => MeshTypeOK /\ RingSound
<1>. SUFFICES ASSUME MeshInit PROVE MeshTypeOK /\ RingSound
  OBVIOUS
<1>1. MeshTypeOK
  <2>1. vizinhos \in [Broker -> [Key -> Broker \cup {None}]]
    BY DEF MeshInit
  <2>2. idReal \in [Broker -> [Broker -> Key]]
    BY Keys DEF MeshInit
  <2>3. /\ setores \in [Broker -> [Broker -> Broker \cup {None}]]
        /\ BagsOfMessages(chan)
    <3>1. chan \in Channels
      BY EmptyTyped DEF MeshInit, Channels
    <3>. QED  BY <3>1, ChannelsTyped DEF MeshInit
  <2>. QED  BY <2>1, <2>2, <2>3 DEF MeshInit, MeshTypeOK
<1>2. OnlyDownAreDead
  BY DEF MeshInit, OnlyDownAreDead
<1>3. ReadIsWritten
  BY Keys DEF MeshInit, ReadIsWritten
<1>4. SectorsTrue
  <2>1. \A b, c \in Broker : b # c => setores[b][c] = c
    BY DEF MeshInit
  <2>2. \A b, c \in Broker : Unread(b, c) = {}
    BY EmptyTyped DEF MeshInit, Unread
  <2>. QED  BY <2>1, <2>2 DEF SectorsTrue, Running
<1>. QED  BY <1>1, <1>2, <1>3, <1>4 DEF RingSound

\* Every step but those of Detect and Crash.
LEMMA QuietStep ==
  ASSUME MeshTypeOK, RingSound,
         NEW b \in Broker, NEW c \in Broker,
         \/ Heartbeat(b, c) \/ Receive(b, c)
         \/ VerificarEAtivarFailover(b, c) \/ EndOfStream(b, c)
         \/ ReadDeadline(b, c) \/ Break(b, c) \/ LoseWrite(b, c)
         \/ ConectarLider(b) \/ ConectarVizinho(b, c)
  PROVE  MeshTypeOK' /\ RingSound' /\ up' = up
<1>1. CASE Heartbeat(b, c)
  BY <1>1, HeartbeatStep DEF Heartbeat
<1>2. CASE Receive(b, c)
  BY <1>2, ReceiveStep DEF Receive
<1>3. CASE VerificarEAtivarFailover(b, c)
  BY <1>3, VerificarStep DEF VerificarEAtivarFailover
<1>4. CASE EndOfStream(b, c)
  <2>1. /\ c \in readers[b] /\ ReaderEnds(b, c)
        /\ UNCHANGED <<up, ultimoHB, mortos, setores, verificar>>
        /\ {crashes', breaks'} \subseteq Nat
    BY <1>4 DEF EndOfStream, boundVars, MeshTypeOK
  <2>. QED  BY <2>1, ReaderEndsStep
<1>5. CASE ReadDeadline(b, c)
  <2>1. /\ c \in readers[b] /\ ReaderEnds(b, c)
        /\ UNCHANGED <<up, ultimoHB, mortos, setores, verificar>>
        /\ {crashes', breaks'} \subseteq Nat
    BY <1>5 DEF ReadDeadline, boundVars, MeshTypeOK
  <2>. QED  BY <2>1, ReaderEndsStep
<1>6. CASE Break(b, c)
  <2>1. /\ c \in readers[b] /\ ReaderEnds(b, c)
        /\ UNCHANGED <<up, ultimoHB, mortos, setores, verificar>>
        /\ {crashes', breaks'} \subseteq Nat
    BY <1>6 DEF Break, MeshTypeOK
  <2>. QED  BY <2>1, ReaderEndsStep
<1>7. CASE ConectarLider(b)
  <2>1. Seed \in Broker /\ b # Seed /\ Linked(b, Seed) /\ up' = up
    BY <1>7, MembershipAssumption DEF ConectarLider, MembershipAssumption, Linked
  <2>. QED  BY <2>1, LinkedStep
<1>8. CASE ConectarVizinho(b, c)
  <2>1. b # c /\ Linked(b, c) /\ up' = up
    BY <1>8, MembershipAssumption
       DEF ConectarVizinho, Dials, MembershipAssumption, Linked
  <2>. QED  BY <2>1, LinkedStep
<1>9. CASE LoseWrite(b, c)
  <2>1. \E m : chan' = Removed(b, c, m)
    BY <1>9 DEF LoseWrite
  <2>2. chan' \in Channels /\ AllCredible(chan')
    BY <2>1, RemovedCredible
  <2>3. /\ UNCHANGED <<up, readers, viewVars>>
        /\ verificar' \in [Broker -> SUBSET Broker]
        /\ \A x \in Broker : verificar'[x] \subseteq verificar[x]
        /\ {crashes', breaks'} \subseteq Nat /\ up' = up
    BY <1>9 DEF LoseWrite, boundVars, MeshTypeOK
  <2>. QED  BY <2>2, <2>3, ChanStep
<1>. QED  BY <1>1, <1>2, <1>3, <1>4, <1>5, <1>6, <1>7, <1>8, <1>9

LEMMA MeshNextSound ==
  ASSUME Punctual
  PROVE  MeshTypeOK /\ RingSound /\ [MeshNext]_meshVars
           => MeshTypeOK' /\ RingSound'
<1>. SUFFICES ASSUME MeshTypeOK, RingSound, [MeshNext]_meshVars
              PROVE  MeshTypeOK' /\ RingSound'
  OBVIOUS
<1>1. CASE UNCHANGED meshVars
  <2>1. /\ UNCHANGED <<up, readers, viewVars>> /\ chan' = chan
        /\ verificar' \in [Broker -> SUBSET Broker]
        /\ \A x \in Broker : verificar'[x] \subseteq verificar[x]
        /\ {crashes', breaks'} \subseteq Nat
    BY <1>1 DEF meshVars, boundVars, MeshTypeOK
  <2>2. chan' \in Channels /\ AllCredible(chan')
    BY <2>1, InFlight
  <2>. QED  BY <2>1, <2>2, ChanStep
<1>2. CASE \E b, c \in Broker : Detect(b, c)
  BY <1>2, DetectStep
<1>3. CASE \E b \in Broker : Crash(b)
  BY <1>3, CrashStep
<1>4. CASE \E b, c \in Broker :
             \/ Heartbeat(b, c) \/ Receive(b, c)
             \/ VerificarEAtivarFailover(b, c) \/ EndOfStream(b, c)
             \/ ReadDeadline(b, c) \/ Break(b, c) \/ LoseWrite(b, c)
             \/ ConectarLider(b) \/ ConectarVizinho(b, c)
  BY <1>4, QuietStep
<1>. QED  BY <1>1, <1>2, <1>3, <1>4 DEF MeshNext

(***************************************************************************)
(* Whatever the number of brokers, and however many crash or lose a        *)
(* connection, the ring that each broker walks is sound when timeouts are  *)
(* punctual: only brokers that are down are held for dead, and a broker is *)
(* known by its own sector or by one that it is the heir of                *)
(* (responsavelPorSetor, verificarEAtivarFailover).                        *)
(***************************************************************************)
THEOREM MeshSound == ASSUME Punctual PROVE MeshSpec => [](MeshTypeOK /\ RingSound)
<1>1. MeshInit => MeshTypeOK /\ RingSound
  BY MeshInitSound
<1>2. MeshTypeOK /\ RingSound /\ [MeshNext]_meshVars => MeshTypeOK' /\ RingSound'
  BY MeshNextSound
<1>. QED  BY <1>1, <1>2, PTL DEF MeshSpec
=============================================================================
