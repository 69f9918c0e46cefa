-------------------------- MODULE SnapshotsProofs --------------------------
(* Theorems about Snapshots, for every value of its constants. *)
EXTENDS Snapshots, FunctionTheorems, FiniteSetTheorems, TLAPS

USE DEF Empty

(***************************************************************************)
(* There is a free local index for each id.                                *)
(***************************************************************************)
LEMMA InjectionExists ==
    ASSUME NEW N, IsFiniteSet(N), NEW L, IsFiniteSet(L), Cardinality(N) <= Cardinality(L)
    PROVE  \E f \in [N -> L] : \A m, n \in N : f[m] = f[n] => m = n
<1> DEFINE n == Cardinality(N)  l == Cardinality(L)
<1>1. n \in Nat /\ l \in Nat /\ ExistsBijection(1..n, N) /\ ExistsBijection(1..l, L)
    BY FS_CardinalityType
<1>2. PICK h \in Bijection(1..n, N) : TRUE
    BY <1>1 DEF ExistsBijection
<1>3. PICK g \in Bijection(1..l, L) : TRUE
    BY <1>1 DEF ExistsBijection
<1> DEFINE back(x) == CHOOSE k \in 1..n : h[k] = x
<1>4. \A x \in N : back(x) \in 1..n /\ h[back(x)] = x
    BY <1>2 DEF Bijection, Surjection, Injection
<1>5. 1..n \subseteq 1..l
    BY <1>1
<1>6. g \in [1..l -> L] /\ \A i, j \in 1..l : g[i] = g[j] => i = j
    BY <1>3 DEF Bijection, Injection, IsInjective
<1> DEFINE f == [x \in N |-> g[back(x)]]
<1>7. f \in [N -> L]
    BY <1>4, <1>5, <1>6
<1>8. ASSUME NEW x \in N, NEW y \in N, f[x] = f[y]
      PROVE  x = y
  <2>1. back(x) = back(y)
    BY <1>4, <1>5, <1>6, <1>8
  <2> QED
    BY <1>4, <2>1
<1> QED
    BY <1>7, <1>8

-----------------------------------------------------------------------------
(***************************************************************************)
(* The invariant.  All that can be seen of an id, in the game, on its way  *)
(* or at the client, is one entity of one type; the client's map and its   *)
(* registry are each other's inverse; and before the game there are only   *)
(* ships, one for each player at most, on the first indices.               *)
(***************************************************************************)
Seen == {world[i] : i \in Alive} \cup (UNION {flying[k] : k \in Slots}) \cup Screen

OneType == \A a, b \in Seen : a.id = b.id => a = b

Kinds ==
    \A a \in Seen :
        /\ a.type = Ship <=> a.id \in Players
        /\ a.id \notin Players => a.id \in taken

MapSound ==
    /\ \A n \in DOMAIN map : map[n] \in DOMAIN local /\ local[map[n]].id = n
    /\ \A l \in DOMAIN local : local[l].id \in DOMAIN map /\ map[local[l].id] = l

Cleaned == ~playing => map = <<>> /\ local = <<>> /\ shown = Empty

ShipsAboard ==
    /\ \A i \in Ships : world[i].id \in crew
    /\ \A i, j \in Ships : world[i].id = world[j].id => i = j

FirstIndices ==
    /\ Grounded => Alive = Ships /\ next <= Cardinality(Players)
    /\ \A p \in founders : \A i \in ShipOf(p) : i < Cardinality(Players)

SightInv == OneType /\ Kinds
ClientInv == MapSound /\ Cleaned /\ ScreenIsASnapshot
GameInv == ShipsAboard /\ FirstIndices

LEMMA IdsFacts ==
    /\ IsFiniteSet(Ids) /\ Players \subseteq Ids /\ Bodies \subseteq Ids
    /\ Players \cap Bodies = {}
    /\ IsFiniteSet(Players) /\ Cardinality(Players) \in Nat
    /\ Ship \notin BodyTypes
    BY IdsAreFinite, BodiesAreNoPlayers, ShipIsNoBody, FS_Union, FS_CardinalityType DEF Ids

\* A thing is its id and its type.
LEMMA ThingsEqual ==
    ASSUME NEW a \in Things, NEW b \in Things, a.id = b.id, a.type = b.type
    PROVE  a = b
    BY DEF Things

LEMMA SightingsTyped ==
    ASSUME TypeOK
    PROVE  Seen \subseteq Things
    BY DEF TypeOK, GameTypeOK, Seen, Screen, Alive

\* Nothing new to see.
LEMMA FewerSightings ==
    ASSUME SightInv, Seen' \subseteq Seen, taken \subseteq taken'
    PROVE  SightInv'
    BY DEF SightInv, OneType, Kinds

-----------------------------------------------------------------------------
(* updateFromServer *)

LEMMA ApplyIsExact ==
    ASSUME TypeOK, SightInv, ClientInv, NEW k \in Slots, Apply(flying[k])
    PROVE  /\ DOMAIN map' \subseteq Ids /\ map' \in [DOMAIN map' -> Locals]
           /\ DOMAIN local' \subseteq Locals /\ local' \in [DOMAIN local' -> Things]
           /\ shown' = flying[k] /\ Screen' = flying[k]
           /\ MapSound'
<1> DEFINE s == flying[k]
           created == IdsOf(s) \ DOMAIN map
           new  == Fresh(created)
           kept == DOMAIN map \ Gone(s)
           left == DOMAIN local \ {map[n] : n \in Gone(s)}
<1>1. s \subseteq Seen /\ Screen \subseteq Seen /\ s \subseteq Things /\ Screen \subseteq Things
    BY SightingsTyped DEF Seen
<1>2. kept = DOMAIN map \cap IdsOf(s)
    BY DEF Gone
<1>3. created \subseteq Ids /\ DOMAIN map \subseteq Ids /\ DOMAIN local \subseteq Locals
    BY <1>1 DEF IdsOf, Things, TypeOK
<1>4. \E f \in [created -> Locals \ DOMAIN local] : \A m, n \in created : f[m] = f[n] => m = n
  <2>1. map \in Surjection(DOMAIN map, DOMAIN local)
    BY DEF TypeOK, ClientInv, MapSound, Surjection
  <2>2. IsFiniteSet(DOMAIN map) /\ Cardinality(DOMAIN map) <= Cardinality(Ids)
    BY <1>3, IdsFacts, FS_Subset
  <2>3. IsFiniteSet(created) /\ Cardinality(created) <= Cardinality(Ids)
    BY <1>3, IdsFacts, FS_Subset
  <2>4. IsFiniteSet(DOMAIN local) /\ Cardinality(DOMAIN local) <= Cardinality(DOMAIN map)
    BY <2>1, <2>2, FS_Surjection
  <2> DEFINE free == Locals \ DOMAIN local
  <2>5. IsFiniteSet(free)
    BY EnoughLocals, FS_Subset
  <2>6. Cardinality(Locals) = Cardinality(DOMAIN local) + Cardinality(free)
    <3>1. Locals \cap DOMAIN local = DOMAIN local
      BY <1>3
    <3>2. Cardinality(free) = Cardinality(Locals) - Cardinality(DOMAIN local)
      BY <3>1, EnoughLocals, FS_Difference
    <3>3. Cardinality(DOMAIN local) \in Nat /\ Cardinality(Locals) \in Nat
      BY <2>4, EnoughLocals, FS_CardinalityType
    <3> QED
      BY <3>2, <3>3
  <2>7. Cardinality(created) <= Cardinality(free)
    <3>1. /\ Cardinality(Ids) \in Nat /\ Cardinality(Locals) \in Nat
          /\ Cardinality(free) \in Nat /\ Cardinality(created) \in Nat
          /\ Cardinality(DOMAIN local) \in Nat /\ Cardinality(DOMAIN map) \in Nat
      BY IdsFacts, EnoughLocals, <2>2, <2>3, <2>4, <2>5, FS_CardinalityType
    <3> QED
      BY <3>1, <2>2, <2>3, <2>4, <2>6, EnoughLocals
  <2> QED
    BY <2>3, <2>5, <2>7, InjectionExists
<1>5. new \in [created -> Locals \ DOMAIN local] /\ \A m, n \in created : new[m] = new[n] => m = n
    BY <1>4 DEF Fresh
<1>6. left = {map[n] : n \in kept}
    BY DEF ClientInv, MapSound, Gone
<1>7. /\ map' = [n \in kept \cup created |-> IF n \in kept THEN map[n] ELSE new[n]]
      /\ local' = [l \in left \cup {new[n] : n \in created} |->
                     IF l \in left THEN local[l] ELSE Entry(s, CHOOSE n \in created : new[n] = l)]
      /\ shown' = s
    BY DEF Apply
<1> HIDE DEF new
<1>8. \A n \in IdsOf(s) : Entry(s, n) \in s /\ Entry(s, n).id = n
    BY DEF Entry, IdsOf
<1>9. \A n \in created : /\ new[n] \notin left
                         /\ (CHOOSE m \in created : new[m] = new[n]) = n
    BY <1>5
<1>10. \A n \in created : local'[new[n]] = Entry(s, n)
    BY <1>7, <1>9
<1>11. \A l \in left : local'[l] = local[l]
    BY <1>7
<1>12. \A n \in kept : map'[n] = map[n] /\ map[n] \in left /\ local[map[n]].id = n
    BY <1>6, <1>7 DEF ClientInv, MapSound
<1>13. \A n \in created : map'[n] = new[n]
    BY <1>7
<1>14. \A n \in kept : local[map[n]] = Entry(s, n)
  <2> TAKE n \in kept
  <2>1. local[map[n]] \in Seen /\ Entry(s, n) \in Seen
    BY <1>1, <1>2, <1>8, <1>12 DEF Screen
  <2> QED
    BY <2>1, <1>2, <1>8, <1>12 DEF SightInv, OneType
<1>15. DOMAIN map' = IdsOf(s)
    BY <1>2, <1>7
<1>16. \A n \in IdsOf(s) : map'[n] \in DOMAIN local' /\ local'[map'[n]] = Entry(s, n)
  <2>1. DOMAIN local' = left \cup {new[n] : n \in created}
    BY <1>7
  <2>2. ASSUME NEW n \in kept
        PROVE  map'[n] \in DOMAIN local' /\ local'[map'[n]] = Entry(s, n)
    BY <2>1, <1>11, <1>12, <1>14
  <2>3. ASSUME NEW n \in created
        PROVE  map'[n] \in DOMAIN local' /\ local'[map'[n]] = Entry(s, n)
    BY <2>1, <1>10, <1>13
  <2> QED
    BY <2>2, <2>3, <1>2
<1>17. \A l \in DOMAIN local' : \E n \in IdsOf(s) : l = map'[n]
    BY <1>2, <1>6, <1>7, <1>12, <1>13
<1>18. Screen' = s
  <2>1. ASSUME NEW e \in s
        PROVE  Entry(s, e.id) = e
    BY <1>1, <1>8 DEF IdsOf, SightInv, OneType
  <2> QED
    BY <2>1, <1>8, <1>16, <1>17 DEF Screen, IdsOf
<1>19. MapSound'
    BY <1>8, <1>15, <1>16, <1>17 DEF MapSound
<1>20. DOMAIN map' \subseteq Ids /\ map' \in [DOMAIN map' -> Locals]
    BY <1>2, <1>3, <1>5, <1>7, <1>12, <1>13 DEF TypeOK
<1>21. DOMAIN local' \subseteq Locals /\ local' \in [DOMAIN local' -> Things]
  <2>1. DOMAIN local' = left \cup {new[n] : n \in created}
    BY <1>7
  <2>2. \A n \in created : new[n] \in Locals
    BY <1>5
  <2>3. DOMAIN local' \subseteq Locals
    BY <1>3, <2>1, <2>2
  <2>4. ASSUME NEW l \in DOMAIN local'
        PROVE  local'[l] \in Things
    BY <1>1, <1>8, <1>16, <1>17
  <2>5. local' = [l \in DOMAIN local' |-> local'[l]]
    BY <1>7
  <2> QED
    BY <2>3, <2>4, <2>5
<1> QED
    BY <1>7, <1>18, <1>19, <1>20, <1>21

-----------------------------------------------------------------------------
(* The parts of a step *)

LEMMA SpawnFacts ==
    ASSUME TypeOK, NEW t \in Things, NEW I \in SUBSET Alive, Spawn(t, I)
    PROVE  \E i \in Nat :
             /\ i \notin Alive /\ Alive' = (Alive \ I) \cup {i}
             /\ world'[i] = t /\ \A j \in Alive \ I : world'[j] = world[j]
             /\ next' \in Nat /\ Alive' \subseteq 0..(next' - 1)
             /\ world' \in [Alive' -> Things]
             /\ \/ i < next /\ next' = next
                \/ i = next /\ next' = next + 1 /\ Free = {}
<1>1. /\ next \in Nat /\ Alive \subseteq 0..(next - 1)
      /\ \A j \in Alive : world[j] \in Things
    BY DEF TypeOK, GameTypeOK
<1>2. PICK i \in (IF Free = {} THEN {next} ELSE Free) :
        /\ world' = [j \in (Alive \ I) \cup {i} |-> IF j = i THEN t ELSE world[j]]
        /\ next' = IF Free = {} THEN next + 1 ELSE next
    BY DEF Spawn
<1>3. /\ i \in Nat /\ i \notin Alive
      /\ \/ i < next /\ next' = next
         \/ i = next /\ next' = next + 1 /\ Free = {}
    BY <1>1, <1>2 DEF Free
<1>4. Alive' = (Alive \ I) \cup {i}
    BY <1>2 DEF Alive
<1>5. world'[i] = t /\ \A j \in Alive \ I : world'[j] = world[j]
    BY <1>2, <1>3
<1>6. next' \in Nat /\ Alive' \subseteq 0..(next' - 1)
    BY <1>1, <1>3, <1>4
<1>7. world' \in [Alive' -> Things]
    BY <1>1, <1>2, <1>4
<1> QED
    BY <1>3, <1>4, <1>5, <1>6, <1>7

LEMMA WithoutFacts ==
    ASSUME TypeOK, NEW I, world' = Without(I)
    PROVE  /\ Alive' = Alive \ I
           /\ \A j \in Alive' : world'[j] = world[j]
           /\ world' \in [Alive' -> Things]
    BY DEF TypeOK, GameTypeOK, Alive, Without

\* Something new to see.
LEMMA NewSighting ==
    ASSUME TypeOK, SightInv, NEW t \in Things, Seen' \subseteq Seen \cup {t},
           taken \subseteq taken',
           t.type = Ship <=> t.id \in Players,
           t.id \notin Players => t.id \in taken',
           \A a \in Seen : a.id = t.id => a.type = t.type
    PROVE  SightInv'
<1>1. Seen \subseteq Things
    BY SightingsTyped
<1>2. OneType'
  <2> SUFFICES ASSUME NEW a \in Seen \cup {t}, NEW b \in Seen \cup {t}, a.id = b.id
               PROVE  a = b
    BY DEF OneType
  <2> QED
    BY <1>1, ThingsEqual DEF SightInv, OneType
<1>3. Kinds'
    BY DEF SightInv, Kinds
<1> QED
    BY <1>2, <1>3 DEF SightInv

LEMMA ClientStays ==
    ASSUME ClientInv, UNCHANGED client
    PROVE  ClientInv'
    BY DEF ClientInv, client, MapSound, Cleaned, ScreenIsASnapshot, Screen

LEMMA GameStays ==
    ASSUME GameInv, UNCHANGED room
    PROVE  GameInv'
    BY DEF GameInv, room, game, ShipsAboard, FirstIndices, Grounded, Ships, ShipOf, Alive

\* While the room waits, a player can join only if an index below the number of
\* the players is free or comes next.
LEMMA RoomForShip ==
    ASSUME TypeOK, GameInv, Grounded, NEW p \in Players, p \notin crew, Free = {}
    PROVE  next < Cardinality(Players)
<1> DEFINE idx == 0..(next - 1)
           f   == [i \in idx |-> world[i].id]
<1>1. next \in Nat /\ Alive = idx /\ Ships = idx
    BY DEF TypeOK, GameTypeOK, Free, GameInv, FirstIndices, Grounded
<1>2. f \in Injection(idx, Players \ {p})
  <2>1. \A i \in idx : world[i].id \in Players \ {p}
    BY <1>1 DEF GameInv, ShipsAboard, TypeOK, GameTypeOK
  <2>2. \A i, j \in idx : world[i].id = world[j].id => i = j
    BY <1>1 DEF GameInv, ShipsAboard
  <2> QED
    BY <2>1, <2>2 DEF Injection, IsInjective
<1>3. /\ IsFiniteSet(Players \ {p}) /\ Cardinality(Players) \in Nat
      /\ Cardinality(Players \ {p}) = Cardinality(Players) - 1
    BY IdsFacts, FS_RemoveElement
<1>4. Cardinality(idx) <= Cardinality(Players \ {p})
    BY <1>2, <1>3, FS_Injection
<1>5. Cardinality(idx) = next
  <2>1. 0 \in Int /\ next - 1 \in Int
    BY <1>1
  <2>2. Cardinality(idx) = IF 0 > next - 1 THEN 0 ELSE next - 1 - 0 + 1
    BY <2>1, FS_Interval
  <2> QED
    BY <2>2, <1>1
<1> QED
    BY <1>1, <1>3, <1>4, <1>5

-----------------------------------------------------------------------------
(* Type correctness *)

IInv == TypeOK /\ SightInv /\ ClientInv /\ GameInv

LEMMA InitIInv == Init => IInv
<1> SUFFICES ASSUME Init PROVE IInv
    OBVIOUS
<1> USE DEF Init, GameInit
<1>1. Alive = {} /\ Screen = {} /\ Ships = {}
    BY DEF Alive, Screen, Ships
<1>2. Seen = {}
    BY <1>1 DEF Seen
<1>3. TypeOK
  <2>1. world \in [Alive -> Things] /\ map \in [DOMAIN map -> Locals] /\ local \in [DOMAIN local -> Things]
    BY <1>1 DEF Alive
  <2> QED
    BY <1>1, <2>1 DEF TypeOK, GameTypeOK
<1>4. SightInv
    BY <1>2 DEF SightInv, OneType, Kinds
<1>5. ClientInv
    BY <1>1 DEF ClientInv, MapSound, Cleaned, ScreenIsASnapshot
<1>6. GameInv
    BY <1>1, IdsFacts DEF GameInv, ShipsAboard, FirstIndices, Grounded
<1> QED
    BY <1>3, <1>4, <1>5, <1>6 DEF IInv

(***************************************************************************)
(* The game goes on, the client does not hear of it.                       *)
(***************************************************************************)
Around ==
    /\ founders' = {p \in crew' : p \in founders \/ (p \notin crew /\ Grounded)}
    /\ UNCHANGED <<flying, client>>

LEMMA TypeAround ==
    ASSUME TypeOK, Around, GameTypeOK'
    PROVE  TypeOK'
    BY DEF TypeOK, Around, client

LEMMA JoinStep ==
    ASSUME IInv, NEW p \in Players, Join(p), Around
    PROVE  IInv'
<1> DEFINE t == [id |-> p, type |-> Ship]
<1> USE DEF IInv
<1>0. Spawn(t, {}) /\ UNCHANGED taken
    BY DEF Join
<1>1. t \in Things
    BY IdsFacts DEF Things
<1>2. PICK i \in Nat :
        /\ i \notin Alive /\ Alive' = Alive \cup {i}
        /\ world'[i] = t /\ \A j \in Alive : world'[j] = world[j]
        /\ next' \in Nat /\ Alive' \subseteq 0..(next' - 1)
        /\ world' \in [Alive' -> Things]
        /\ \/ i < next /\ next' = next
           \/ i = next /\ next' = next + 1 /\ Free = {}
  <2> HIDE DEF t
  <2>1. \E i \in Nat :
             /\ i \notin Alive /\ Alive' = (Alive \ {}) \cup {i}
             /\ world'[i] = t /\ \A j \in Alive \ {} : world'[j] = world[j]
             /\ next' \in Nat /\ Alive' \subseteq 0..(next' - 1)
             /\ world' \in [Alive' -> Things]
             /\ \/ i < next /\ next' = next
                \/ i = next /\ next' = next + 1 /\ Free = {}
    BY <1>0, <1>1, SpawnFacts
  <2>2. Alive \ {} = Alive
    OBVIOUS
  <2> QED
    BY <2>1, <2>2
<1>3. TypeOK'
  <2>1. GameTypeOK'
    BY <1>2 DEF Join, TypeOK, GameTypeOK
  <2> QED
    BY <2>1, TypeAround
<1>4. SightInv'
  <2>1. Seen' \subseteq Seen \cup {t}
    BY <1>2 DEF Around, client, Seen, Screen
  <2>2. \A a \in Seen : a.id = t.id => a.type = t.type
    BY DEF SightInv, Kinds
  <2> QED
    BY <1>0, <1>1, <2>1, <2>2, NewSighting
<1>5. ClientInv'
    BY ClientStays DEF Around
<1>6. /\ Ships' = Ships \cup {i} /\ i \notin Ships
      /\ \A j \in Ships : world'[j] = world[j]
  <2>1. Ships \subseteq Alive
    BY DEF Ships
  <2>2. \A j \in Alive' : j \in Ships' <=> j = i \/ j \in Ships
    BY <1>2 DEF Ships
  <2>3. Ships' \subseteq Alive'
    BY DEF Ships
  <2> QED
    BY <1>2, <2>1, <2>2, <2>3
<1>7. ShipsAboard'
    BY <1>2, <1>6 DEF Join, GameInv, ShipsAboard
<1>8. FirstIndices'
  <2>1. CASE Grounded
    <3>1. i < Cardinality(Players) /\ next' <= Cardinality(Players) /\ Alive' = Ships'
      BY <1>2, <1>6, <2>1, IdsFacts, RoomForShip
         DEF Join, GameInv, FirstIndices, TypeOK, GameTypeOK, Grounded
    <3>2. \A q \in founders' : \A j \in ShipOf(q)' : j < Cardinality(Players)
      <4> TAKE q \in founders'
      <4> TAKE j \in ShipOf(q)'
      <4>1. CASE j = i
        BY <3>1, <4>1
      <4>2. CASE j # i
        <5>1. j \in Alive /\ Alive \subseteq 0..(next - 1) /\ next \in Nat /\ next <= Cardinality(Players)
          BY <1>2, <2>1, <4>2 DEF ShipOf, Ships, TypeOK, GameTypeOK, GameInv, FirstIndices
        <5> QED
          BY <5>1, IdsFacts
      <4> QED
        BY <4>1, <4>2
    <3> QED
      BY <3>1, <3>2 DEF FirstIndices
  <2>2. CASE ~Grounded
    <3>1. founders' = founders /\ ~Grounded' /\ p \notin founders
      BY <2>2 DEF Join, Around, TypeOK, Grounded
    <3>2. \A q \in founders : ShipOf(q)' = ShipOf(q)
      BY <1>2, <1>6, <3>1 DEF ShipOf
    <3> QED
      BY <2>2, <3>1, <3>2 DEF GameInv, FirstIndices, Grounded
  <2> QED
    BY <2>1, <2>2
<1> QED
    BY <1>3, <1>4, <1>5, <1>7, <1>8 DEF GameInv

LEMMA FewerThings ==
    ASSUME IInv, NEW I, world' = Without(I), UNCHANGED <<next, taken>>, Around
    PROVE  /\ Alive' = Alive \ I /\ Ships' = Ships \ I
           /\ \A j \in Ships' : world'[j] = world[j]
           /\ \A p : ShipOf(p)' = ShipOf(p) \ I
           /\ Alive' \subseteq 0..(next' - 1) /\ world' \in [Alive' -> Things]
           /\ SightInv' /\ ClientInv'
<1>1. /\ Alive' = Alive \ I
      /\ \A j \in Alive' : world'[j] = world[j]
      /\ world' \in [Alive' -> Things]
    BY WithoutFacts DEF IInv
<1>2. Ships' = Ships \ I /\ \A p : ShipOf(p)' = ShipOf(p) \ I
    BY <1>1 DEF Ships, ShipOf
<1>3. Seen' \subseteq Seen
    BY <1>1 DEF Seen, Screen, Around, client
<1>4. SightInv'
    BY <1>3, FewerSightings DEF IInv
<1>5. ClientInv'
    BY ClientStays DEF IInv, Around
<1> QED
    BY <1>1, <1>2, <1>4, <1>5 DEF IInv, TypeOK, GameTypeOK, Ships

LEMMA LeaveStep ==
    ASSUME IInv, NEW p \in Players, Leave(p), Around
    PROVE  IInv'
<1> USE DEF IInv
<1>1. /\ Alive' = Alive \ ShipOf(p) /\ Ships' = Ships \ ShipOf(p)
      /\ \A j \in Ships' : world'[j] = world[j]
      /\ \A q : ShipOf(q)' = ShipOf(q) \ ShipOf(p)
      /\ Alive' \subseteq 0..(next' - 1) /\ world' \in [Alive' -> Things]
      /\ SightInv' /\ ClientInv'
    BY FewerThings DEF Leave
<1>2. stage' \in {stage, "over"} /\ founders' \subseteq founders
    BY DEF Leave, Around
<1>3. TypeOK'
  <2>1. GameTypeOK'
    BY <1>1, <1>2 DEF Leave, TypeOK, GameTypeOK
  <2> QED
    BY <2>1, TypeAround
<1>4. ShipsAboard'
    BY <1>1 DEF Leave, GameInv, ShipsAboard, ShipOf
<1>5. FirstIndices'
    BY <1>1, <1>2 DEF Leave, GameInv, FirstIndices, Grounded
<1> QED
    BY <1>1, <1>3, <1>4, <1>5 DEF GameInv

LEMMA DestroyStep ==
    ASSUME IInv, NEW i \in Alive, Destroy(i), Around
    PROVE  IInv'
<1> USE DEF IInv
<1>1. /\ Alive' = Alive \ {i} /\ Ships' = Ships \ {i}
      /\ \A j \in Ships' : world'[j] = world[j]
      /\ \A q : ShipOf(q)' = ShipOf(q) \ {i}
      /\ Alive' \subseteq 0..(next' - 1) /\ world' \in [Alive' -> Things]
      /\ SightInv' /\ ClientInv'
    BY FewerThings DEF Destroy
<1>2. TypeOK'
  <2>1. GameTypeOK'
    BY <1>1 DEF Destroy, TypeOK, GameTypeOK
  <2> QED
    BY <2>1, TypeAround
<1>3. ShipsAboard'
  <2>1. crew' = crew /\ Ships' \subseteq Ships
    BY <1>1 DEF Destroy
  <2> QED
    BY <1>1, <2>1 DEF GameInv, ShipsAboard
<1>4. founders' \subseteq founders
    BY DEF Destroy, Around
<1>5. FirstIndices'
    BY <1>1, <1>4 DEF Destroy, GameInv, FirstIndices, Grounded
<1> QED
    BY <1>1, <1>2, <1>3, <1>5 DEF GameInv

\* An entity other than a ship comes, and takes the place of those of I.
LEMMA SpawnBodyStep ==
    ASSUME IInv, NEW I \in SUBSET (Alive \ Ships), SpawnBody(I), Around
    PROVE  IInv'
<1> USE DEF IInv
<1>1. PICK n \in Bodies \ taken, type \in BodyTypes :
        Spawn([id |-> n, type |-> type], I) /\ taken' = taken \cup {n}
    BY DEF SpawnBody
<1> DEFINE t == [id |-> n, type |-> type]
<1>2. t \in Things /\ t.type # Ship /\ t.id \notin Players
    BY IdsFacts DEF Things
<1>3. PICK i \in Nat :
        /\ i \notin Alive /\ Alive' = (Alive \ I) \cup {i}
        /\ world'[i] = t /\ \A j \in Alive \ I : world'[j] = world[j]
        /\ next' \in Nat /\ Alive' \subseteq 0..(next' - 1)
        /\ world' \in [Alive' -> Things]
        /\ \/ i < next /\ next' = next
           \/ i = next /\ next' = next + 1 /\ Free = {}
  <2>1. I \in SUBSET Alive /\ Spawn(t, I)
    BY <1>1
  <2> HIDE DEF t
  <2> QED
    BY <1>2, <2>1, SpawnFacts
<1>4. TypeOK'
  <2>1. GameTypeOK'
    BY <1>1, <1>3 DEF SpawnBody, TypeOK, GameTypeOK
  <2> QED
    BY <2>1, TypeAround
<1>5. SightInv'
  <2>1. Seen' \subseteq Seen \cup {t}
    BY <1>3 DEF Around, client, Seen, Screen
  <2>2. \A a \in Seen : a.id # t.id
    BY <1>1, <1>2 DEF SightInv, Kinds
  <2> QED
    BY <1>1, <1>2, <2>1, <2>2, NewSighting
<1>6. ClientInv'
    BY ClientStays DEF Around
<1>7. Ships' = Ships /\ \A j \in Ships : world'[j] = world[j]
    BY <1>2, <1>3 DEF Ships
<1>8. \A q : ShipOf(q)' = ShipOf(q)
    BY <1>7 DEF ShipOf
<1>9. crew' = crew /\ stage' = stage /\ ~Grounded /\ founders' \subseteq founders
    BY DEF SpawnBody, Around
<1>10. GameInv'
    BY <1>7, <1>8, <1>9 DEF GameInv, ShipsAboard, FirstIndices, Grounded
<1> QED
    BY <1>4, <1>5, <1>6, <1>10

\* A step that only the stage, or the client's, shows.
LEMMA NothingMoves ==
    ASSUME IInv, UNCHANGED <<world, next, taken, crew, flying, map, local, shown>>,
           founders' \subseteq founders,
           stage' \in {stage, "playing", "over"}, playing' \in BOOLEAN, playing => playing'
    PROVE  IInv'
<1> USE DEF IInv
<1>1. TypeOK'
    BY DEF TypeOK, GameTypeOK, Alive
<1>2. Seen' \subseteq Seen
    BY DEF Seen, Screen, Alive
<1>3. SightInv'
    BY <1>2, FewerSightings
<1>4. ClientInv'
    BY DEF ClientInv, MapSound, Cleaned, ScreenIsASnapshot, Screen
<1>5. GameInv'
    BY DEF GameInv, ShipsAboard, FirstIndices, Grounded, Ships, ShipOf, Alive
<1> QED
    BY <1>1, <1>3, <1>4, <1>5

LEMMA StageStep ==
    ASSUME IInv, Start \/ Lose \/ ForceEnd, Around
    PROVE  IInv'
<1>1. UNCHANGED <<world, next, taken, crew>> /\ stage' \in {"playing", "over"}
    BY DEF Start, Lose, ForceEnd
<1>2. UNCHANGED <<flying, playing, map, local, shown>> /\ playing \in BOOLEAN
    BY DEF Around, client, IInv, TypeOK
<1>3. founders' \subseteq founders
    BY <1>1 DEF Around
<1> QED
    BY <1>1, <1>2, <1>3, NothingMoves

LEMMA RoomSteps ==
    ASSUME IInv, RoomStep
    PROVE  IInv'
<1>1. GameNext /\ Around
    BY DEF RoomStep, Around
<1>2. ASSUME NEW p \in Players, Join(p) \/ Leave(p)
      PROVE  IInv'
    BY <1>1, <1>2, JoinStep, LeaveStep
<1>3. CASE Start \/ Lose \/ ForceEnd
    BY <1>1, <1>3, StageStep
<1>4. ASSUME NEW I \in Places, SpawnBody(I)
      PROVE  IInv'
    BY <1>1, <1>4, SpawnBodyStep DEF Places
<1>5. ASSUME NEW i \in Alive, Destroy(i)
      PROVE  IInv'
    BY <1>1, <1>5, DestroyStep
<1> QED
    BY <1>1, <1>2, <1>3, <1>4, <1>5 DEF GameNext

-----------------------------------------------------------------------------
\* The steps of the network and of the client.
LEMMA BroadcastStep ==
    ASSUME IInv, NEW k \in Slots, Broadcast(k)
    PROVE  IInv'
<1> USE DEF IInv
<1>1. Snapshot \subseteq {world[i] : i \in Alive} /\ Snapshot \subseteq Things
    BY DEF Snapshot, Cut, TypeOK, GameTypeOK
<1>2. flying' \in [Slots -> SUBSET Things] /\ \A m \in Slots : flying'[m] \subseteq flying[m] \cup Snapshot
    BY <1>1 DEF Broadcast, TypeOK
<1>3. TypeOK'
    BY <1>2 DEF Broadcast, TypeOK, GameTypeOK, room, game, client, Alive
<1>4. Seen' \subseteq Seen
    BY <1>1, <1>2 DEF Broadcast, Seen, Screen, room, game, client, Alive
<1>5. SightInv'
    BY <1>4, FewerSightings DEF Broadcast, room, game
<1> QED
    BY <1>3, <1>5, ClientStays, GameStays DEF Broadcast

LEMMA ApplyStep ==
    ASSUME IInv, NEW k \in Slots, playing, playing' = playing, Apply(flying[k]), UNCHANGED room,
           flying' \in [Slots -> SUBSET Things], \A m \in Slots : flying'[m] \subseteq flying[m]
    PROVE  IInv'
<1> USE DEF IInv
<1>1. /\ DOMAIN map' \subseteq Ids /\ map' \in [DOMAIN map' -> Locals]
      /\ DOMAIN local' \subseteq Locals /\ local' \in [DOMAIN local' -> Things]
      /\ shown' = flying[k] /\ Screen' = flying[k]
      /\ MapSound'
    BY ApplyIsExact
<1>2. TypeOK'
    BY <1>1 DEF TypeOK, GameTypeOK, room, game, Alive
<1>3. Seen' \subseteq Seen
    BY <1>1 DEF Seen, room, game, Alive
<1>4. SightInv'
    BY <1>3, FewerSightings DEF room, game
<1>5. ScreenIsASnapshot'
    BY <1>1 DEF MapSound, ScreenIsASnapshot
<1>6. ClientInv'
    BY <1>1, <1>5 DEF ClientInv, Cleaned
<1> QED
    BY <1>2, <1>4, <1>6, GameStays

LEMMA DeliverStep ==
    ASSUME IInv, NEW k \in Slots, Deliver(k)
    PROVE  IInv'
<1> USE DEF IInv
<1>1. flying' \in [Slots -> SUBSET Things] /\ \A m \in Slots : flying'[m] \subseteq flying[m]
    BY DEF Deliver, TypeOK
<1>2. CASE playing
    BY <1>1, <1>2, ApplyStep DEF Deliver, Handles
<1>3. CASE ~playing
  <2>1. UNCHANGED room /\ UNCHANGED client
    BY <1>3 DEF Deliver, Handles
  <2>2. TypeOK'
    BY <1>1, <2>1 DEF TypeOK, GameTypeOK, room, game, client, Alive
  <2>3. Seen' \subseteq Seen
    BY <1>1, <2>1 DEF Seen, Screen, room, game, client, Alive
  <2>4. SightInv'
    BY <2>1, <2>3, FewerSightings DEF room, game
  <2> QED
    BY <2>1, <2>2, <2>4, ClientStays, GameStays
<1> QED
    BY <1>2, <1>3

LEMMA DeliverCopyStep ==
    ASSUME IInv, NEW k \in Slots, DeliverCopy(k)
    PROVE  IInv'
    BY ApplyStep DEF DeliverCopy, Handles, IInv, TypeOK

LEMMA QuitStep ==
    ASSUME IInv, Quit
    PROVE  IInv'
<1> USE DEF IInv
<1>1. map' = <<>> /\ local' = <<>> /\ shown' = {} /\ playing' = FALSE /\ Screen' = {}
    BY DEF Quit, CleanMap, Screen
<1>2. map' \in [DOMAIN map' -> Locals] /\ DOMAIN map' = {}
    BY <1>1
<1>3. local' \in [DOMAIN local' -> Things] /\ DOMAIN local' = {}
    BY <1>1
<1>4. TypeOK'
    BY <1>1, <1>2, <1>3 DEF Quit, TypeOK, GameTypeOK, room, game, Alive
<1>5. Seen' \subseteq Seen
    BY <1>1 DEF Quit, Seen, room, game, Alive
<1>6. SightInv'
    BY <1>5, FewerSightings DEF Quit, room, game
<1>7. ClientInv'
    BY <1>1, <1>2, <1>3 DEF ClientInv, MapSound, Cleaned, ScreenIsASnapshot
<1> QED
    BY <1>4, <1>6, <1>7, GameStays DEF Quit

LEMMA ChangeRoomStep ==
    ASSUME IInv, ChangeRoom
    PROVE  IInv'
<1> USE DEF IInv
<1>1. Alive' = {} /\ Ships' = {} /\ world' \in [Alive' -> Things]
    BY DEF ChangeRoom, Alive, Ships
<1>2. Screen' = {}
    BY DEF ChangeRoom, client, Screen, ClientInv, Cleaned
<1>3. flying' \in [Slots -> SUBSET Things] /\ \A k \in Slots : flying'[k] = {}
    BY DEF ChangeRoom
<1>4. TypeOK'
    BY <1>1, <1>3 DEF ChangeRoom, TypeOK, GameTypeOK, client
<1>5. Seen' = {}
    BY <1>1, <1>2, <1>3 DEF Seen
<1>6. SightInv'
    BY <1>5 DEF SightInv, OneType, Kinds
<1>7. GameInv'
    BY <1>1, IdsFacts DEF ChangeRoom, GameInv, ShipsAboard, FirstIndices, Grounded
<1> QED
    BY <1>4, <1>6, <1>7, ClientStays DEF ChangeRoom

LEMMA BeginStep ==
    ASSUME IInv, Begin
    PROVE  IInv'
    BY NothingMoves DEF Begin, room, game

LEMMA StutterStep ==
    ASSUME IInv, UNCHANGED vars
    PROVE  IInv'
<1> USE DEF IInv, vars
<1>1. TypeOK'
    BY DEF TypeOK, GameTypeOK, room, game, client, Alive
<1>2. Seen' \subseteq Seen
    BY DEF Seen, Screen, room, game, client, Alive
<1>3. SightInv'
    BY <1>2, FewerSightings DEF room, game
<1> QED
    BY <1>1, <1>3, ClientStays, GameStays

LEMMA Inductive == Spec => []IInv
<1>1. ASSUME IInv, [Next]_vars
      PROVE  IInv'
  <2>1. ASSUME NEW k \in Slots, Broadcast(k) \/ Deliver(k) \/ DeliverCopy(k)
        PROVE  IInv'
    BY <1>1, <2>1, BroadcastStep, DeliverStep, DeliverCopyStep
  <2> QED
    BY <1>1, <2>1, RoomSteps, BeginStep, QuitStep, ChangeRoomStep, StutterStep DEF Next
<1> QED
    BY InitIInv, <1>1, PTL DEF Spec

-----------------------------------------------------------------------------

\* Every variable of the game, the network and the client keeps its type: no
\* network id and no local index is ever out of range.
THEOREM TypeCorrect == Spec => []TypeOK
<1>1. IInv => TypeOK
    BY DEF IInv
<1> QED
    BY <1>1, Inductive, PTL

\* Through losses, delays and copies, the client of updateFromServer shows one of
\* the server's snapshots, whole and nothing else, for any number of players,
\* bodies and datagrams on their way.
THEOREM ScreenExact == Spec => []ScreenIsASnapshot
<1>1. IInv => ScreenIsASnapshot
    BY DEF IInv, ClientInv
<1> QED
    BY <1>1, Inductive, PTL

\* What has few entities before it is not cut.
LEMMA CutKeeps ==
    ASSUME NEW I \in SUBSET Nat, NEW i \in I, i < MaxEntities
    PROVE  i \in Cut(I)
<1> DEFINE before == {j \in I : j < i}
<1>1. i \in Nat /\ MaxEntities \in Nat
    BY CutHoldsCrew
<1>2. IsFiniteSet(0..(i - 1)) /\ Cardinality(0..(i - 1)) = i
  <2>1. 0 \in Int /\ i - 1 \in Int
    BY <1>1
  <2>2. /\ IsFiniteSet(0..(i - 1))
        /\ Cardinality(0..(i - 1)) = IF 0 > i - 1 THEN 0 ELSE i - 1 - 0 + 1
    BY <2>1, FS_Interval
  <2> QED
    BY <1>1, <2>2
<1>3. before \in SUBSET (0..(i - 1))
  <2>1. \A j \in Nat : j < i => j \in 0..(i - 1)
    BY <1>1
  <2>2. \A j \in before : j \in 0..(i - 1)
    BY <2>1
  <2> QED
    BY <2>2
<1>4. IsFiniteSet(before) /\ Cardinality(before) <= i
    BY <1>2, <1>3, FS_Subset
<1>5. Cardinality(before) \in Nat
    BY <1>4, FS_CardinalityType
<1> QED
    BY <1>1, <1>4, <1>5 DEF Cut

\* The ship of a player who was in the room when the game began is in every
\* snapshot of it, if broadcastSnapshots keeps as many entities as there are
\* players: its index is below their number, whatever has been reused since.
THEOREM FoundersShown == Spec => []FoundersAreSent
<1>1. ASSUME IInv
      PROVE  FoundersAreSent
  <2> USE <1>1 DEF IInv
  <2> SUFFICES ASSUME NEW p \in founders, NEW i \in ShipOf(p)
               PROVE  world[i] \in Snapshot
    BY DEF FoundersAreSent
  <2>1. i < Cardinality(Players) /\ i \in Alive
    BY DEF GameInv, FirstIndices, ShipOf, Ships
  <2>2. Alive \in SUBSET Nat
    BY DEF TypeOK, GameTypeOK
  <2>3. i < MaxEntities
    BY <2>1, <2>2, CutHoldsCrew, IdsFacts
  <2>4. i \in Cut(Alive)
    BY <2>1, <2>2, <2>3, CutKeeps
  <2> QED
    BY <2>4 DEF Snapshot
<1> QED
    BY <1>1, Inductive, PTL

=============================================================================
