---------------------------- MODULE ChatProofs ----------------------------
(* Theorems about Chat, for every value of its constants. *)
EXTENDS Chat, SequenceTheorems, TLAPS

(***************************************************************************)
(* What is left of a sequence once its i-th element is taken out.          *)
(***************************************************************************)
LEMMA RemoveAtProperties ==
    ASSUME NEW S, NEW s \in Seq(S), NEW i \in 1..Len(s)
    PROVE  /\ RemoveAt(s, i) \in Seq(S)
           /\ Len(RemoveAt(s, i)) = Len(s) - 1
           /\ \A j \in 1..(Len(s) - 1) :
                RemoveAt(s, i)[j] = IF j < i THEN s[j] ELSE s[j + 1]
<1> DEFINE a == SubSeq(s, 1, i - 1)
           b == SubSeq(s, i + 1, Len(s))
<1>1. Len(s) \in Nat /\ \A j \in 1..Len(s) : s[j] \in S
  BY LenProperties, ElementOfSeq
<1>2. /\ a \in Seq(S)
      /\ Len(a) = i - 1
      /\ \A j \in 1..(i - 1) : a[j] = s[j]
  <2>1. 1 \in Int /\ i - 1 \in Int /\ \A j \in 1..(i - 1) : s[j] \in S
    BY <1>1
  <2>2. /\ a \in Seq(S)
        /\ Len(a) = IF 1 <= i - 1 THEN (i - 1) - 1 + 1 ELSE 0
        /\ \A j \in 1..((i - 1) - 1 + 1) : a[j] = s[1 + j - 1]
    BY <2>1, SubSeqProperties
  <2> HIDE DEF a
  <2> QED BY <1>1, <2>2
<1>3. /\ b \in Seq(S)
      /\ Len(b) = Len(s) - i
      /\ \A j \in 1..(Len(s) - i) : b[j] = s[i + j]
  <2>1. i + 1 \in Int /\ Len(s) \in Int /\ \A j \in (i + 1)..Len(s) : s[j] \in S
    BY <1>1
  <2>2. /\ b \in Seq(S)
        /\ Len(b) = IF i + 1 <= Len(s) THEN Len(s) - (i + 1) + 1 ELSE 0
        /\ \A j \in 1..(Len(s) - (i + 1) + 1) : b[j] = s[(i + 1) + j - 1]
    BY <2>1, SubSeqProperties
  <2> HIDE DEF b
  <2> QED BY <1>1, <2>2
<1> HIDE DEF a, b
<1>4. /\ a \o b \in Seq(S)
      /\ Len(a \o b) = Len(a) + Len(b)
      /\ \A j \in 1..(Len(a) + Len(b)) :
            (a \o b)[j] = IF j <= Len(a) THEN a[j] ELSE b[j - Len(a)]
  BY <1>2, <1>3, ConcatProperties
<1>5. RemoveAt(s, i) = a \o b
  BY DEF RemoveAt, a, b
<1>6. Len(a \o b) = Len(s) - 1
  BY <1>1, <1>2, <1>3, <1>4
<1>7. ASSUME NEW j \in 1..(Len(s) - 1)
      PROVE  (a \o b)[j] = IF j < i THEN s[j] ELSE s[j + 1]
  <2>1. (a \o b)[j] = IF j <= i - 1 THEN a[j] ELSE b[j - (i - 1)]
    BY <1>1, <1>2, <1>3, <1>4
  <2>2. ASSUME j < i
        PROVE  (a \o b)[j] = s[j]
    BY <1>1, <1>2, <2>1, <2>2
  <2>3. ASSUME ~(j < i)
        PROVE  (a \o b)[j] = s[j + 1]
    <3> DEFINE k == j - (i - 1)
    <3>1. k \in 1..(Len(s) - i) /\ i + k = j + 1 /\ ~(j <= i - 1)
      BY <1>1, <2>3
    <3>2. (a \o b)[j] = b[k]
      BY <2>1, <3>1
    <3> HIDE DEF k
    <3>3. b[k] = s[i + k]
      BY <1>3, <3>1
    <3> QED BY <3>1, <3>2, <3>3
  <2> QED BY <2>2, <2>3, Zenon
<1> QED BY <1>4, <1>5, <1>6, <1>7

(***************************************************************************)
(* The part of the types that the invariants below need.                   *)
(***************************************************************************)
Types ==
    /\ nick \in [Ids -> Nicks \cup {Unnamed}]
    /\ nextId \in Nat
    /\ table \in Seq(Fds)
    /\ user \in [Fds -> Lines]
    /\ fdToPlayer \in [Fds -> Ids \cup {Nobody}]
    /\ playerToFd \in [Ids -> Fds \cup {NoFd}]

\* An id is given out once: none that is still to come is in the registry or in a map.
Given ==
    /\ \A p \in Ids : nick[p] # Unnamed => p < nextId
    /\ \A f \in Fds : fdToPlayer[f] # Nobody => fdToPlayer[f] < nextId

LEMMA PlayerFound ==
    ASSUME Types, NEW n, Player(n) # Nobody
    PROVE  Player(n) \in Ids /\ nick[Player(n)] = n /\ n # Unnamed
<1>1. \E p \in Online : nick[p] = n
  BY DEF Player
<1>2. PICK p \in Online : p = Player(n) /\ nick[p] = n
  BY <1>1 DEF Player
<1> QED BY <1>2 DEF Online

LEMMA IdsAreNat == Nobody \notin Ids /\ Ids \subseteq Nat
BY BoundsAreNat DEF Ids, Nobody

LEMMA OpenMember ==
    ASSUME NEW T \in Seq(Fds)
    PROVE  /\ \A f : f \in ToSet(T) <=> \E i \in 1..Len(T) : T[i] = f
           /\ ToSet(T) \subseteq Fds
BY LenProperties, ElementOfSeq DEF ToSet

(***************************************************************************)
(* A mapped connection is open and has sent its name; no descriptor is     *)
(* twice in the table; the connection about to be removed is in no map.    *)
(***************************************************************************)
Mapped ==
    /\ \A i, j \in 1..Len(table) : table[i] = table[j] => i = j
    /\ \A f \in Fds : fdToPlayer[f] # Nobody => user[f] # Unnamed
    /\ pc \in {"tellLeft", "remove"} =>
        /\ Max(todo) \in 1..Len(table)
        /\ fdToPlayer[table[Max(todo)]] = Nobody

IInv == Types /\ Given /\ Mapped /\ SpeaksInTheNameItGave

LEMMA InitIInv == Init => IInv
<1> SUFFICES ASSUME Init PROVE IInv
  OBVIOUS
<1>1. Types /\ Given
  BY EmptySeq, SystemIsALine DEF Init, PlayersInit, Types, Given
<1>2. Len(table) = 0
  BY EmptySeq DEF Init
<1>3. Mapped
  BY <1>2 DEF Init, Mapped
<1> QED BY <1>1, <1>3 DEF IInv, Init, SpeaksInTheNameItGave

(* A visit that changes no mapping and removes nobody. *)
LEMMA VisitKeepsIInv ==
    ASSUME IInv, UNCHANGED <<nick, nextId, table, user, maps>>,
           pc' \notin {"tellLeft", "remove"}
    PROVE  IInv'
BY DEF IInv, Given, Types, Mapped, SpeaksInTheNameItGave, maps, Open

(* Whatever the game thread does to the players, an id is not given to a second  *)
(* one.                                                                          *)
LEMMA PlayersStep ==
    ASSUME Types, Given, PlayersNext
    PROVE  /\ nick' \in [Ids -> Nicks \cup {Unnamed}]
           /\ nextId' \in Nat /\ nextId <= nextId'
           /\ \A p \in Ids : nick'[p] \in {nick[p], Unnamed} \/ (nextId <= p /\ p < nextId')
<1>1. CASE \E n \in Nicks : Enrol(n)
  BY <1>1, IdsAreNat DEF Enrol, Types
<1>2. CASE \E P \in SUBSET Online, Q \in SUBSET {p \in Ids : roomOf[p] # NoRoom} : Go(P, Q)
  BY <1>2 DEF Go, Types
<1>3. CASE \E p \in Ids, r \in Rooms : Enter(p, r)
  BY <1>3 DEF Enter, Types
<1> QED BY <1>1, <1>2, <1>3 DEF PlayersNext

(* What the chat thread knows, a step of the others leaves alone. *)
LEMMA GameKeepsIInv ==
    ASSUME IInv, GameThread
    PROVE  IInv'
<1>1. UNCHANGED <<table, user, maps, pc, todo>>
  BY DEF GameThread
<1>2. /\ nick' \in [Ids -> Nicks \cup {Unnamed}]
      /\ nextId' \in Nat /\ nextId <= nextId' /\ nextId \in Nat
      /\ \A p \in Ids : nick'[p] \in {nick[p], Unnamed} \/ (nextId <= p /\ p < nextId')
  BY PlayersStep DEF IInv, Types, GameThread
<1>3. Types' /\ Mapped'
  BY <1>1, <1>2 DEF IInv, Types, Mapped, maps
<1>4. Given'
  <2>1. ASSUME NEW p \in Ids, nick'[p] # Unnamed
        PROVE  p < nextId'
    <3>1. p \in Nat /\ (nick[p] # Unnamed => p < nextId)
      BY IdsAreNat DEF IInv, Given
    <3>2. nick[p] # Unnamed \/ p < nextId'
      BY <1>2, <2>1
    <3> QED BY <1>2, <3>1, <3>2
  <2>2. ASSUME NEW f \in Fds, fdToPlayer'[f] # Nobody
        PROVE  fdToPlayer'[f] < nextId'
    <3>1. fdToPlayer'[f] = fdToPlayer[f] /\ fdToPlayer[f] \in Ids
      BY <1>1, <2>2 DEF IInv, Types, maps
    <3>2. fdToPlayer[f] < nextId /\ fdToPlayer[f] \in Nat
      BY <2>2, <3>1, IdsAreNat DEF IInv, Given
    <3> QED BY <1>2, <3>1, <3>2
  <2> QED BY <2>1, <2>2 DEF Given
<1>5. ASSUME NEW f \in Fds, fdToPlayer'[f] # Nobody
      PROVE  f \in Open' /\ (user'[f] # System => nick'[fdToPlayer'[f]] \in {Cut[user'[f]], Unnamed})
  <2> DEFINE p == fdToPlayer[f]
  <2>1. p \in Ids /\ p < nextId /\ fdToPlayer'[f] = p /\ user'[f] = user[f] /\ Open' = Open
    BY <1>1, <1>5 DEF IInv, Types, Given, maps, Open
  <2>2. f \in Open /\ (user[f] # System => nick[p] \in {Cut[user[f]], Unnamed})
    BY <1>1, <1>5 DEF IInv, SpeaksInTheNameItGave, maps
  <2> HIDE DEF p
  <2>3. nick'[p] \in {nick[p], Unnamed}
    BY <1>2, <2>1, IdsAreNat
  <2> QED BY <2>1, <2>2, <2>3
<1> QED BY <1>3, <1>4, <1>5 DEF IInv, SpeaksInTheNameItGave

LEMMA AcceptKeepsIInv ==
    ASSUME IInv, Accept, UNCHANGED players
    PROVE  IInv'
<1>1. PICK f \in Fds \ Open :
        table' = Append(table, f) /\ user' = [user EXCEPT ![f] = Unnamed]
  BY DEF Accept
<1>2. UNCHANGED <<nick, nextId, maps>> /\ pc' \in {"poll", "round"}
  BY DEF Accept, players, Visited
<1>3. table \in Seq(Fds) /\ Len(table) \in Nat
  BY LenProperties DEF IInv, Types
<1>4. /\ table' \in Seq(Fds)
      /\ Len(table') = Len(table) + 1
      /\ \A i \in 1..Len(table) : table'[i] = table[i]
      /\ table'[Len(table) + 1] = f
  BY <1>1, <1>3, AppendProperties
<1>5. Open \subseteq Open'
  BY <1>3, <1>4, OpenMember DEF Open
<1>6. fdToPlayer[f] = Nobody
  BY <1>1 DEF IInv, SpeaksInTheNameItGave
<1>7. Types' /\ Given'
  BY <1>1, <1>2, <1>4, SystemIsALine DEF IInv, Given, Types, maps
<1>8. \A i \in 1..Len(table) : table[i] # f
  BY <1>1, <1>3, OpenMember DEF Open
<1>9. Mapped'
  <2>1. ASSUME NEW i \in 1..Len(table'), NEW j \in 1..Len(table'), table'[i] = table'[j]
        PROVE  i = j
    BY <1>3, <1>4, <1>8, <2>1 DEF IInv, Mapped
  <2> QED BY <1>1, <1>2, <1>6, <2>1 DEF IInv, Mapped, Types, maps
<1>10. SpeaksInTheNameItGave'
  BY <1>1, <1>2, <1>5, <1>6 DEF IInv, SpeaksInTheNameItGave, Types, maps
<1> QED BY <1>7, <1>9, <1>10 DEF IInv

(* What a name does to the username and to the maps. *)
LEMMA NameRead ==
    ASSUME IInv, NEW i \in 1..Len(table), NEW k, NEW line \in Lines,
           ReadName(i, k, line), UNCHANGED players
    PROVE  LET f == table[i]
               p == Player(Cut[line])
           IN  /\ f \in Open /\ f \in Fds /\ user[f] \in {Unnamed, System}
               /\ UNCHANGED <<nick, nextId, table>>
               /\ pc' \in {"poll", "round", "tell"}
               /\ user' = [user EXCEPT ![f] = IF @ = Unnamed THEN line ELSE @]
               /\ p = Nobody => UNCHANGED maps
               /\ p # Nobody => /\ fdToPlayer' = [fdToPlayer EXCEPT ![f] = p]
                                /\ playerToFd' = [playerToFd EXCEPT ![p] = f]
<1>1. table[i] \in Open /\ table[i] \in Fds
  BY LenProperties, ElementOfSeq, OpenMember DEF IInv, Types, Open
<1> QED BY <1>1 DEF ReadName, ByTheSystem, NicknameIn, Visited, TellRoom, players

LEMMA NameKeepsIInv ==
    ASSUME IInv, NEW i \in 1..Len(table), NEW k, NEW line \in Lines,
           ReadName(i, k, line), UNCHANGED players
    PROVE  IInv'
<1> DEFINE f == table[i]
           p == Player(Cut[line])
<1>1. /\ f \in Open /\ f \in Fds /\ user[f] \in {Unnamed, System}
      /\ UNCHANGED <<nick, nextId, table>>
      /\ pc' \in {"poll", "round", "tell"}
      /\ user' = [user EXCEPT ![f] = IF @ = Unnamed THEN line ELSE @]
  BY NameRead
<1>2. /\ p = Nobody => UNCHANGED maps
      /\ p # Nobody => /\ fdToPlayer' = [fdToPlayer EXCEPT ![f] = p]
                       /\ playerToFd' = [playerToFd EXCEPT ![p] = f]
  BY NameRead
<1>3. p # Nobody => /\ p \in Ids /\ p < nextId
                    /\ nick[p] = Cut[line] /\ line # Unnamed
  BY PlayerFound, CutIsAPrefix DEF IInv, Given
<1>4. user[f] = Unnamed => fdToPlayer[f] = Nobody
  BY <1>1 DEF IInv, Mapped
<1> HIDE DEF f, p
<1>5. user' \in [Fds -> Lines]
  BY <1>1 DEF IInv, Types
<1>6. CASE p = Nobody
  <2>1. Types' /\ Given'
    BY <1>1, <1>2, <1>5, <1>6 DEF IInv, Given, Types, maps
  <2>2. Mapped'
    BY <1>1, <1>2, <1>4, <1>6 DEF IInv, Types, Mapped, maps
  <2>3. SpeaksInTheNameItGave'
    BY <1>1, <1>2, <1>4, <1>6 DEF IInv, Types, SpeaksInTheNameItGave, maps, Open
  <2> QED BY <2>1, <2>2, <2>3 DEF IInv
<1>7. CASE p # Nobody
  <2>1. Types' /\ Given'
    BY <1>1, <1>2, <1>3, <1>5, <1>7 DEF IInv, Given, Types
  <2>2. Mapped'
    BY <1>1, <1>2, <1>3, <1>7, SystemIsALine DEF IInv, Types, Mapped
  <2>3. SpeaksInTheNameItGave'
    BY <1>1, <1>2, <1>3, <1>7 DEF IInv, Types, SpeaksInTheNameItGave, Open
  <2> QED BY <2>1, <2>2, <2>3 DEF IInv
<1> QED BY <1>6, <1>7

(* What a departure does to the maps. *)
LEMMA HungUp ==
    ASSUME IInv, NEW i \in 1..Len(table), Hangup(i), UNCHANGED players
    PROVE  LET f == table[i]
           IN  /\ f \in Fds
               /\ UNCHANGED <<nick, nextId, table, user, todo>>
               /\ i = Max(todo)
               /\ fdToPlayer' = [g \in Fds |-> IF g = f THEN Nobody ELSE fdToPlayer[g]]
               /\ playerToFd' = [q \in Ids |-> IF q = fdToPlayer[f] THEN NoFd ELSE playerToFd[q]]
<1>1. table[i] \in Fds
  BY ElementOfSeq DEF IInv, Types
<1> QED BY <1>1 DEF Hangup, players, peers, Visiting, ForgottenFds, ForgottenPlayers

LEMMA HangupKeepsIInv ==
    ASSUME IInv, NEW i \in 1..Len(table), Hangup(i), UNCHANGED players
    PROVE  IInv'
<1> DEFINE f == table[i]
<1>1. /\ f \in Fds
      /\ UNCHANGED <<nick, nextId, table, user, todo>>
      /\ i = Max(todo)
      /\ fdToPlayer' = [g \in Fds |-> IF g = f THEN Nobody ELSE fdToPlayer[g]]
      /\ playerToFd' = [q \in Ids |-> IF q = fdToPlayer[f] THEN NoFd ELSE playerToFd[q]]
  BY HungUp
<1> HIDE DEF f
<1>2. Types' /\ Given'
  BY <1>1 DEF IInv, Given, Types
<1>3. fdToPlayer'[f] = Nobody
  BY <1>1
<1>4. Mapped'
  BY <1>1, <1>3 DEF IInv, Mapped, f
<1>5. SpeaksInTheNameItGave'
  BY <1>1 DEF IInv, Types, SpeaksInTheNameItGave, Open
<1> QED BY <1>2, <1>4, <1>5 DEF IInv

LEMMA RemoveKeepsIInv ==
    ASSUME IInv, RemoveUser, UNCHANGED players
    PROVE  IInv'
<1> DEFINE m == Max(todo)
           f == table[m]
<1>1. m \in 1..Len(table) /\ fdToPlayer[f] = Nobody
  BY DEF RemoveUser, IInv, Mapped
<1>2. f \in Fds
  BY <1>1, ElementOfSeq DEF IInv, Types
<1>3. /\ table' = RemoveAt(table, m)
      /\ user' = [user EXCEPT ![f] = Unnamed]
      /\ UNCHANGED <<nick, nextId, maps>>
      /\ pc' = "poll"
  BY DEF RemoveUser, players
<1> HIDE DEF m
<1>4. table \in Seq(Fds) /\ Len(table) \in Nat
  BY LenProperties DEF IInv, Types
<1>5. /\ table' \in Seq(Fds)
      /\ Len(table') = Len(table) - 1
      /\ \A j \in 1..(Len(table) - 1) : table'[j] = IF j < m THEN table[j] ELSE table[j + 1]
  BY <1>1, <1>3, <1>4, RemoveAtProperties
<1>6. Types' /\ Given'
  BY <1>2, <1>3, <1>5, SystemIsALine DEF IInv, Given, Types, maps
<1>7. ASSUME NEW i \in 1..Len(table'), NEW j \in 1..Len(table'), table'[i] = table'[j]
      PROVE  i = j
  <2> DEFINE pos(x) == IF x < m THEN x ELSE x + 1
  <2>1. /\ pos(i) \in 1..Len(table) /\ pos(j) \in 1..Len(table)
        /\ table'[i] = table[pos(i)] /\ table'[j] = table[pos(j)]
    BY <1>1, <1>4, <1>5
  <2>2. pos(i) = pos(j)
    BY <1>7, <2>1 DEF IInv, Mapped
  <2> QED BY <1>1, <1>4, <1>5, <2>2
<1>8. Mapped'
  BY <1>2, <1>3, <1>7, <1>1 DEF IInv, Mapped, Types, maps
<1>9. ASSUME NEW g \in Open, g # f
      PROVE  g \in Open'
  <2>1. PICK i \in 1..Len(table) : table[i] = g
    BY <1>4, OpenMember DEF Open
  <2>2. CASE i < m
    BY <1>1, <1>4, <1>5, <2>1, <2>2, OpenMember DEF Open
  <2>3. CASE i > m
    <3>1. i - 1 \in 1..(Len(table) - 1) /\ table'[i - 1] = g
      BY <1>1, <1>4, <1>5, <2>1, <2>3
    <3> QED BY <1>5, <3>1, OpenMember DEF Open
  <2>4. i # m
    BY <1>9, <2>1
  <2> QED BY <1>1, <1>4, <2>2, <2>3, <2>4
<1>10. SpeaksInTheNameItGave'
  <2> HIDE DEF f
  <2> QED
    BY <1>1, <1>2, <1>3, <1>9
    DEF IInv, SpeaksInTheNameItGave, Types, maps
<1> QED BY <1>6, <1>8, <1>10 DEF IInv

LEMMA NextKeepsIInv ==
    ASSUME IInv, [Next]_vars
    PROVE  IInv'
<1>1. ASSUME UNCHANGED players, Poll \/ NobodyAccepted \/ Tell
      PROVE  IInv'
  BY <1>1, VisitKeepsIInv DEF Poll, NobodyAccepted, Tell, Visited, players, maps
<1>2. ASSUME UNCHANGED players, NEW i \in 1..Len(table), NEW k, ReadMessage(i, k)
      PROVE  IInv'
  BY <1>2, VisitKeepsIInv DEF ReadMessage, TellRoom, Visited, players, maps
<1>3. ASSUME UNCHANGED players, TellLeft
      PROVE  IInv'
  <2>1. pc = "tellLeft" /\ pc' \in {"remove", "getFd"} /\ (pc' = "remove" => UNCHANGED todo)
    BY <1>3 DEF TellLeft
  <2> QED
    BY <1>3, <2>1
    DEF TellLeft, players, maps, IInv, Given, Types, Mapped, SpeaksInTheNameItGave, Open
<1>4. CASE Clients \/ UNCHANGED vars
  BY <1>4
  DEF Clients, Send, Quit, vars, players, maps, IInv, Given, Types, Mapped, SpeaksInTheNameItGave, Open
<1> QED
  BY <1>1, <1>2, <1>3, <1>4, AcceptKeepsIInv, NameKeepsIInv, HangupKeepsIInv,
     RemoveKeepsIInv, GameKeepsIInv
  DEF Next, ChatThread

LEMMA IInvHolds == Spec => []IInv
BY InitIInv, NextKeepsIInv, PTL DEF Spec

(***************************************************************************)
(* A connection speaks for a player of the name it gave, up to a " joined",*)
(* or for one who has left, whichever descriptors and nicknames are used   *)
(* again; what calls itself "System" is excepted.                          *)
(***************************************************************************)
THEOREM NamesGiven == Spec => []SpeaksInTheNameItGave
<1>1. IInv => SpeaksInTheNameItGave
  BY DEF IInv
<1> QED BY <1>1, IInvHolds, PTL

(* What OnlySystemLeadsAstray says of a step. *)
NobodyElseLeads ==
    \A p \in Ids : Astray(p)' =>
        /\ UNCHANGED playerToFd[p]
        /\ \/ Astray(p)
           \/ user[playerToFd[p]] = System /\ fdToPlayer'[playerToFd[p]] # Nobody

LEMMA NameLeads ==
    ASSUME IInv, NEW i \in 1..Len(table), NEW k, NEW line \in Lines,
           ReadName(i, k, line), UNCHANGED players
    PROVE  NobodyElseLeads
<1> DEFINE f == table[i]
           p == Player(Cut[line])
<1>1. f \in Fds /\ user[f] \in {Unnamed, System}
  BY NameRead
<1>2. /\ p = Nobody => UNCHANGED maps
      /\ p # Nobody => /\ fdToPlayer' = [fdToPlayer EXCEPT ![f] = p]
                       /\ playerToFd' = [playerToFd EXCEPT ![p] = f]
  BY NameRead
<1>3. p # Nobody => p \in Ids
  BY PlayerFound DEF IInv
<1>4. user[f] = Unnamed => fdToPlayer[f] = Nobody
  BY <1>1 DEF IInv, Mapped
<1> HIDE DEF f, p
<1>5. CASE p = Nobody
  BY <1>2, <1>5 DEF NobodyElseLeads, Astray, maps
<1>6. CASE p # Nobody
  <2>1. fdToPlayer'[f] = p /\ playerToFd'[p] = f
    BY <1>1, <1>2, <1>3, <1>6 DEF IInv, Types
  <2>2. ASSUME NEW q \in Ids, q # p, Astray(q)'
        PROVE  /\ UNCHANGED playerToFd[q]
               /\ \/ Astray(q)
                  \/ user[playerToFd[q]] = System /\ fdToPlayer'[playerToFd[q]] # Nobody
    <3>1. UNCHANGED playerToFd[q]
      BY <1>2, <1>6, <2>2 DEF IInv, Types
    <3>2. CASE playerToFd[q] = f
      BY <1>1, <1>4, <1>6, <2>1, <2>2, <3>1, <3>2, IdsAreNat DEF Astray
    <3>3. CASE playerToFd[q] # f
      <4>1. playerToFd[q] # NoFd /\ playerToFd[q] \in Fds
        BY <2>2, <3>1 DEF Astray, IInv, Types
      <4>2. fdToPlayer'[playerToFd[q]] = fdToPlayer[playerToFd[q]]
        BY <1>2, <1>6, <3>3, <4>1 DEF IInv, Types
      <4> QED BY <2>2, <3>1, <4>1, <4>2 DEF Astray
    <3> QED BY <3>1, <3>2, <3>3
  <2> QED BY <2>1, <2>2 DEF NobodyElseLeads, Astray
<1> QED BY <1>5, <1>6

LEMMA HangupLeads ==
    ASSUME IInv, NEW i \in 1..Len(table), Hangup(i), UNCHANGED players
    PROVE  NobodyElseLeads
<1> DEFINE f == table[i]
<1>1. /\ f \in Fds
      /\ fdToPlayer' = [g \in Fds |-> IF g = f THEN Nobody ELSE fdToPlayer[g]]
      /\ playerToFd' = [q \in Ids |-> IF q = fdToPlayer[f] THEN NoFd ELSE playerToFd[q]]
  BY HungUp
<1> HIDE DEF f
<1> QED BY <1>1 DEF NobodyElseLeads, Astray, IInv, Types

(***************************************************************************)
(* The messages for a player go to a connection of that player, whichever  *)
(* descriptors and nicknames are used again, unless a client that calls    *)
(* itself "System" has named one player and then another.                  *)
(***************************************************************************)
THEOREM OnlySystemLeads == Spec => OnlySystemLeadsAstray
<1>1. ASSUME IInv, Next
      PROVE  NobodyElseLeads
  <2>1. CASE UNCHANGED maps
    BY <2>1 DEF NobodyElseLeads, Astray, maps
  <2>2. \/ UNCHANGED maps
        \/ /\ UNCHANGED players
           /\ \E i \in 1..Len(table) :
                Hangup(i) \/ \E k \in 1..inbox[table[i]], line \in Lines : ReadName(i, k, line)
    BY <1>1 DEF Next, ChatThread, GameThread, Clients, Poll, Accept, NobodyAccepted,
                ReadMessage, Tell, TellLeft, RemoveUser, Send, Quit
  <2> QED BY <1>1, <2>1, <2>2, HangupLeads, NameLeads
<1>2. IInv /\ [Next]_vars => [NobodyElseLeads]_vars
  BY <1>1
<1> QED BY <1>2, IInvHolds, PTL DEF Spec, OnlySystemLeadsAstray, NobodyElseLeads

=============================================================================
