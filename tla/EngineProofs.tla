---------------------------- MODULE EngineProofs ----------------------------
(* Theorems about Engine, for every value of its constants. *)
EXTENDS Engine, SequenceTheorems, FiniteSetTheorems, TLAPS

(***************************************************************************)
(* The registry: d lists exactly the free ones of n indices, each once.    *)
(***************************************************************************)
Free(en, n, d) ==
    /\ \A k, l \in 1..Len(d) : d[k] = d[l] => k = l
    /\ \A i \in 0..(n - 1) :
        en[i].kind # "nothing" <=> \A k \in 1..Len(d) : d[k] # i

LEMMA FrontProperties ==
    ASSUME NEW S, NEW s \in Seq(S), s # <<>>
    PROVE  /\ Front(s) \in Seq(S)
           /\ Len(Front(s)) = Len(s) - 1
           /\ \A k \in 1..(Len(s) - 1) : Front(s)[k] = s[k]
           /\ Last(s) = s[Len(s)] /\ Last(s) \in S
           /\ Len(s) \in Nat \ {0}
<1>1. Len(s) \in Nat \ {0} /\ \A k \in 1..Len(s) : s[k] \in S
  BY LenProperties, ElementOfSeq, EmptySeq
<1>2. 1 \in Int /\ Len(s) - 1 \in Int /\ \A k \in 1..(Len(s) - 1) : s[k] \in S
  BY <1>1
<1>3. /\ Front(s) \in Seq(S)
      /\ Len(Front(s)) = IF 1 <= Len(s) - 1 THEN (Len(s) - 1) - 1 + 1 ELSE 0
      /\ \A k \in 1..((Len(s) - 1) - 1 + 1) : Front(s)[k] = s[1 + k - 1]
  BY <1>2, SubSeqProperties DEF Front
<1>4. Last(s) = s[Len(s)]
  BY DEF Last
<1>5. \A m \in Nat \ {0} : m - 1 = (IF 1 <= m - 1 THEN (m - 1) - 1 + 1 ELSE 0)
  OBVIOUS
<1>6. ASSUME NEW k \in 1..(Len(s) - 1)
      PROVE  Front(s)[k] = s[k]
  <2>1. k \in 1..((Len(s) - 1) - 1 + 1) /\ 1 + k - 1 = k
    BY <1>1
  <2> QED BY <1>3, <2>1
<1>7. Last(s) \in S
  BY <1>1, <1>4
<1> QED BY <1>1, <1>3, <1>4, <1>5, <1>6, <1>7, Zenon

\* The index killed last is given out again.
LEMMA ReuseKeepsFree ==
    ASSUME NEW n \in Nat, NEW d \in Seq(0..(n - 1)), d # <<>>,
           NEW en, Free(en, n, d),
           NEW en2, en2[Last(d)].kind # "nothing",
           \A i \in 0..(n - 1) : i # Last(d) => en2[i] = en[i]
    PROVE  /\ Last(d) \in 0..(n - 1) /\ Front(d) \in Seq(0..(n - 1))
           /\ en[Last(d)].kind = "nothing"
           /\ Free(en2, n, Front(d))
<1> DEFINE m == Len(d)
           f == Front(d)
           x == Last(d)
<1>1. /\ f \in Seq(0..(n - 1)) /\ Len(f) = m - 1
      /\ \A k \in 1..(m - 1) : f[k] = d[k]
      /\ x = d[m] /\ x \in 0..(n - 1) /\ m \in Nat \ {0}
  BY FrontProperties
<1> HIDE DEF m, f, x
<1>2. \A k, l \in 1..m : d[k] = d[l] => k = l
  BY DEF Free, m
<1>3. \A i \in 0..(n - 1) : en[i].kind # "nothing" <=> \A k \in 1..m : d[k] # i
  BY DEF Free, m
<1>4. \A k \in 1..(m - 1) : f[k] # x
  BY <1>1, <1>2
<1>5. en[x].kind = "nothing"
  BY <1>1, <1>3
<1>6. \A i \in 0..(n - 1) : i # x =>
        ((\A k \in 1..m : d[k] # i) <=> (\A k \in 1..(m - 1) : f[k] # i))
  <2>1. \A k \in 1..m : k = m \/ k \in 1..(m - 1)
    BY <1>1
  <2>2. \A k \in 1..(m - 1) : k \in 1..m
    BY <1>1
  <2> QED BY <1>1, <2>1, <2>2
<1>7. \A k, l \in 1..Len(f) : f[k] = f[l] => k = l
  BY <1>1, <1>2
<1>8. \A i \in 0..(n - 1) : en2[i].kind # "nothing" <=> \A k \in 1..Len(f) : f[k] # i
  <2> SUFFICES ASSUME NEW i \in 0..(n - 1)
               PROVE  en2[i].kind # "nothing" <=> \A k \in 1..(m - 1) : f[k] # i
    BY <1>1
  <2>1. CASE i = x
    BY <1>4, <2>1 DEF x
  <2>2. CASE i # x
    BY <1>3, <1>6, <2>2 DEF x
  <2> QED BY <2>1, <2>2
<1> QED BY <1>1, <1>5, <1>7, <1>8 DEF Free, f, x

\* A new index, when none is free.
LEMMA GrowKeepsFree ==
    ASSUME NEW n \in Nat, NEW en, Free(en, n, <<>>),
           NEW en2, en2[n].kind # "nothing",
           \A i \in 0..(n - 1) : en2[i] = en[i]
    PROVE  Free(en2, n + 1, <<>>)
<1>1. Len(<<>>) = 0
  OBVIOUS
<1>2. \A i \in 0..n : i = n \/ i \in 0..(n - 1)
  OBVIOUS
<1> QED BY <1>1, <1>2 DEF Free

\* An index is freed.
LEMMA KillKeepsFree ==
    ASSUME NEW n \in Nat, NEW d \in Seq(0..(n - 1)),
           NEW en, Free(en, n, d),
           NEW i \in 0..(n - 1), en[i].kind # "nothing",
           NEW en2, en2[i].kind = "nothing",
           \A j \in 0..(n - 1) :
               j # i => (en2[j].kind = "nothing" <=> en[j].kind = "nothing")
    PROVE  Append(d, i) \in Seq(0..(n - 1)) /\ Free(en2, n, Append(d, i))
<1> DEFINE a == Append(d, i)
           m == Len(d)
<1>1. /\ a \in Seq(0..(n - 1)) /\ Len(a) = m + 1 /\ m \in Nat
      /\ \A k \in 1..m : a[k] = d[k]
      /\ a[m + 1] = i
  BY AppendProperties, LenProperties
<1> HIDE DEF a, m
<1>2. \A k \in 1..m : d[k] # i
  BY DEF Free, m
<1>3. \A k, l \in 1..m : d[k] = d[l] => k = l
  BY DEF Free, m
<1>4. \A k \in 1..(m + 1) : k = m + 1 \/ k \in 1..m
  BY <1>1
<1>5. \A k, l \in 1..Len(a) : a[k] = a[l] => k = l
  <2> SUFFICES ASSUME NEW k \in 1..(m + 1), NEW l \in 1..(m + 1), a[k] = a[l]
               PROVE  k = l
    BY <1>1
  <2>1. CASE k \in 1..m /\ l \in 1..m
    BY <1>1, <1>3, <2>1
  <2>2. CASE k = m + 1 /\ l \in 1..m
    BY <1>1, <1>2, <2>2
  <2>3. CASE k \in 1..m /\ l = m + 1
    BY <1>1, <1>2, <2>3
  <2>4. CASE k = m + 1 /\ l = m + 1
    BY <2>4
  <2> QED BY <1>4, <2>1, <2>2, <2>3, <2>4
<1>6. ASSUME NEW j \in 0..(n - 1)
      PROVE  en2[j].kind # "nothing" <=> \A k \in 1..Len(a) : a[k] # j
  <2>1. CASE j = i
    <3>1. m + 1 \in 1..Len(a)
      BY <1>1
    <3> QED BY <1>1, <2>1, <3>1
  <2>2. CASE j # i
    <3>1. en[j].kind # "nothing" <=> \A k \in 1..m : d[k] # j
      BY DEF Free, m
    <3>2. (\A k \in 1..m : d[k] # j) <=> (\A k \in 1..Len(a) : a[k] # j)
      <4>1. \A k \in 1..m : k \in 1..Len(a) /\ a[k] = d[k]
        BY <1>1
      <4>2. \A k \in 1..Len(a) : a[k] = i \/ (k \in 1..m /\ a[k] = d[k])
        BY <1>1, <1>4
      <4> QED BY <2>2, <4>1, <4>2
    <3> QED BY <2>2, <3>1, <3>2
  <2> QED BY <2>1, <2>2
<1> QED BY <1>1, <1>5, <1>6 DEF Free, a

-----------------------------------------------------------------------------
(***************************************************************************)
(* The invariant.  Ids are below the counter of their kind, and not given  *)
(* twice within a kind.                                                    *)
(***************************************************************************)
IdsFresh ==
    /\ OrbBase <= nextOrb /\ BulletBase <= nextBullet /\ EnemyBase <= nextEnemy
    /\ \A i \in Indices :
        /\ Is(i, "orb") => entity[i].net \in OrbBase..(nextOrb - 1)
        /\ Is(i, "bullet") => entity[i].net \in BulletBase..(nextBullet - 1)
        /\ Is(i, "enemy") => entity[i].net \in EnemyBase..(nextEnemy - 1)
    /\ \A i, j \in Indices :
        /\ entity[i].kind = entity[j].kind /\ entity[i].kind \in {"orb", "bullet", "enemy"}
        /\ entity[i].net = entity[j].net
        => i = j

IInv == TypeOK /\ IndexHasOneOwner /\ FleetAgrees /\ IdsFresh

LEMMA ThingsByKind ==
    ASSUME NEW e \in Things
    PROVE  /\ e.kind = "ship" <=> e \in Ships
           /\ e.kind = "enemy" <=> e \in Enemies
           /\ e.kind = "bullet" <=> e \in Bullets
           /\ e.kind = "orb" <=> e \in Orbs
           /\ e.kind = "nothing" <=> e = Nothing
<1>1. \A x \in Ships : x.kind = "ship"
  BY DEF Ships
<1>2. \A x \in Enemies : x.kind = "enemy"
  BY DEF Enemies
<1>3. \A x \in Bullets : x.kind = "bullet"
  BY DEF Bullets
<1>4. \A x \in Orbs : x.kind = "orb"
  BY DEF Orbs
<1>5. Nothing.kind = "nothing"
  BY DEF Nothing
<1>6. /\ "ship" # "enemy" /\ "ship" # "bullet" /\ "ship" # "orb" /\ "ship" # "nothing"
      /\ "enemy" # "bullet" /\ "enemy" # "orb" /\ "enemy" # "nothing"
      /\ "bullet" # "orb" /\ "bullet" # "nothing" /\ "orb" # "nothing"
  OBVIOUS
<1> QED BY <1>1, <1>2, <1>3, <1>4, <1>5, <1>6, Zenon DEF Things

LEMMA OwnerIsFree ==
    ASSUME TypeOK
    PROVE  IndexHasOneOwner <=> Free(entity, next, dead)
BY DEF TypeOK, IndexHasOneOwner, Free, Alive, Is, Indices

(***************************************************************************)
(* What a spawn and a kill do to the registry.                             *)
(***************************************************************************)
LEMMA SpawnedRegistry ==
    ASSUME IInv, NEW e \in Things, e.kind # "nothing",
           NEW n, n = SpawnIndex.index,
           NEW m, m = IF dead = <<>> THEN next + 1 ELSE next
    PROVE  /\ m \in Nat
           /\ 0..(m - 1) = Indices \cup {n}
           /\ n \in Indices => Is(n, "nothing")
           /\ With(e) \in [0..(m - 1) -> Things]
           /\ With(e)[n] = e
           /\ \A i \in Indices : i # n => With(e)[i] = entity[i]
           /\ SpawnIndex.left \in Seq(0..(m - 1))
           /\ Free(With(e), m, SpawnIndex.left)
<1> USE DEF Indices
<1>0. next \in Nat /\ entity \in [0..(next - 1) -> Things] /\ dead \in Seq(0..(next - 1))
  BY DEF IInv, TypeOK
<1>1. Free(entity, next, dead)
  BY OwnerIsFree DEF IInv
<1>2. With(e) = [i \in 0..(next - 1) \cup {n} |-> IF i = n THEN e ELSE entity[i]]
  BY DEF With
<1>3. CASE dead = <<>>
  <2>1. n = next /\ SpawnIndex.left = <<>> /\ m = next + 1
    BY <1>3 DEF SpawnIndex
  <2>2. 0..(m - 1) = 0..(next - 1) \cup {n} /\ m \in Nat /\ n \notin 0..(next - 1)
    BY <1>0, <2>1
  <2>3. /\ With(e) \in [0..(m - 1) -> Things]
        /\ With(e)[n] = e
        /\ \A i \in 0..(next - 1) : With(e)[i] = entity[i]
    BY <1>0, <1>2, <2>2
  <2>4. Free(With(e), m, <<>>)
    BY <1>0, <1>1, <1>3, <2>1, <2>3, GrowKeepsFree
  <2>5. <<>> \in Seq(0..(m - 1))
    BY EmptySeq
  <2> QED BY <2>1, <2>2, <2>3, <2>4, <2>5
<1>4. CASE dead # <<>>
  <2>1. n = Last(dead) /\ SpawnIndex.left = Front(dead) /\ m = next
    BY <1>4 DEF SpawnIndex
  <2>2. Last(dead) \in 0..(next - 1)
    BY <1>0, <1>4, FrontProperties
  <2>3. /\ With(e) \in [0..(next - 1) -> Things]
        /\ With(e)[n] = e
        /\ \A i \in 0..(next - 1) : i # n => With(e)[i] = entity[i]
    BY <1>0, <1>2, <2>1, <2>2
  <2>4. /\ Front(dead) \in Seq(0..(next - 1))
        /\ entity[Last(dead)].kind = "nothing"
        /\ Free(With(e), next, Front(dead))
    <3> DEFINE w == With(e)
    <3>1. w[Last(dead)].kind # "nothing"
      BY <2>1, <2>3
    <3>2. \A i \in 0..(next - 1) : i # Last(dead) => w[i] = entity[i]
      BY <2>1, <2>3
    <3> HIDE DEF w
    <3>3. /\ Front(dead) \in Seq(0..(next - 1))
          /\ entity[Last(dead)].kind = "nothing"
          /\ Free(w, next, Front(dead))
      BY <1>0, <1>1, <1>4, <3>1, <3>2, ReuseKeepsFree
    <3> QED BY <3>3 DEF w
  <2> QED BY <1>0, <2>1, <2>2, <2>3, <2>4 DEF Is
<1> QED BY <1>3, <1>4

LEMMA Spawned ==
    ASSUME IInv, NEW e \in Things, e.kind # "nothing", Spawn(e),
           NEW n, n = SpawnIndex.index
    PROVE  /\ next' \in Nat /\ Indices' = Indices \cup {n}
           /\ n \in Indices => Is(n, "nothing")
           /\ entity' \in [Indices' -> Things]
           /\ entity'[n] = e
           /\ \A i \in Indices : i # n => entity'[i] = entity[i]
           /\ dead' \in Seq(Indices')
           /\ Free(entity', next', dead')
<1>1. /\ next' = IF dead = <<>> THEN next + 1 ELSE next
      /\ entity' = With(e) /\ dead' = SpawnIndex.left
  BY DEF Spawn
<1>2. Indices' = 0..(next' - 1)
  BY DEF Indices
<1> QED BY <1>1, <1>2, SpawnedRegistry

LEMMA Killed ==
    ASSUME IInv, NEW i \in Indices, ~Is(i, "nothing"), Kill(i)
    PROVE  /\ next' = next /\ Indices' = Indices
           /\ entity' \in [Indices -> Things]
           /\ entity'[i] = Nothing
           /\ \A j \in Indices : j # i => entity'[j] = entity[j]
           /\ dead' \in Seq(Indices)
           /\ Free(entity', next, dead')
<1>0. next \in Nat /\ entity \in [Indices -> Things] /\ dead \in Seq(Indices)
  BY DEF IInv, TypeOK
<1>1. /\ next' = next /\ Indices' = Indices
      /\ entity' = [entity EXCEPT ![i] = Nothing]
      /\ dead' = Append(dead, i)
  BY DEF Kill, Indices
<1>2. Nothing \in Things /\ Nothing.kind = "nothing"
  BY DEF Things, Nothing
<1>3. /\ entity' \in [Indices -> Things]
      /\ entity'[i] = Nothing
      /\ \A j \in Indices : j # i => entity'[j] = entity[j]
  BY <1>0, <1>1, <1>2
<1>4. Free(entity, next, dead)
  BY OwnerIsFree DEF IInv
<1>5. Append(dead, i) \in Seq(Indices) /\ Free(entity', next, Append(dead, i))
  BY <1>0, <1>2, <1>3, <1>4, KillKeepsFree DEF Indices, Is
<1> QED BY <1>1, <1>3, <1>5

-----------------------------------------------------------------------------
(***************************************************************************)
(* What the other invariants need of a step: no ship comes, goes or        *)
(* changes its id; nothing has a new id but the entity n, from its counter.*)
(***************************************************************************)
LEMMA FleetKept ==
    ASSUME FleetAgrees, UNCHANGED <<ships, crew>>,
           Indices \subseteq Indices',
           \A i \in Indices' : entity'[i].kind = "ship" <=> i \in Indices /\ Is(i, "ship"),
           \A i \in Indices : Is(i, "ship") => entity'[i].net = entity[i].net
    PROVE  FleetAgrees'
<1>1. fleet' = {i \in Indices' : Is(i, "ship")'}
  BY DEF FleetAgrees, ships, Is
<1>2. fleet' = {shipOf'[p] : p \in DOMAIN shipOf'}
  BY DEF FleetAgrees, ships
<1>3. ASSUME NEW p \in DOMAIN shipOf'
      PROVE  p \in crew' /\ entity'[shipOf'[p]].net = p
  <2>1. p \in DOMAIN shipOf /\ shipOf'[p] = shipOf[p]
    BY DEF ships
  <2>2. shipOf[p] \in fleet
    BY <2>1 DEF FleetAgrees
  <2>3. shipOf[p] \in Indices /\ Is(shipOf[p], "ship")
    BY <2>2 DEF FleetAgrees
  <2> QED BY <2>1, <2>3 DEF FleetAgrees
<1> QED BY <1>1, <1>2, <1>3 DEF FleetAgrees

IdKept(i) ==
    entity'[i].kind \in {"orb", "bullet", "enemy"} =>
        i \in Indices /\ entity'[i].kind = entity[i].kind /\ entity'[i].net = entity[i].net

IdGiven(i) ==
    \/ entity'[i].kind = "orb" /\ entity'[i].net = nextOrb /\ nextOrb' = nextOrb + 1
    \/ entity'[i].kind = "bullet" /\ entity'[i].net = nextBullet /\ nextBullet' = nextBullet + 1
    \/ entity'[i].kind = "enemy" /\ entity'[i].net = nextEnemy /\ nextEnemy' = nextEnemy + 1

LEMMA IdsKept ==
    ASSUME TypeOK, IdsFresh, NEW n,
           nextOrb' \in {nextOrb, nextOrb + 1},
           nextBullet' \in {nextBullet, nextBullet + 1},
           nextEnemy' \in {nextEnemy, nextEnemy + 1},
           \A i \in Indices' : IdKept(i) \/ (i = n /\ IdGiven(i))
    PROVE  IdsFresh'
<1>0. /\ nextOrb \in Nat /\ nextBullet \in Nat /\ nextEnemy \in Nat
      /\ OrbBase \in Nat /\ BulletBase \in Nat /\ EnemyBase \in Nat
  BY BasesAreNat DEF TypeOK
<1>1. OrbBase <= nextOrb' /\ BulletBase <= nextBullet' /\ EnemyBase <= nextEnemy'
  BY <1>0 DEF IdsFresh
<1>2. ASSUME NEW i \in Indices'
      PROVE  /\ entity'[i].kind = "orb" => entity'[i].net \in OrbBase..(nextOrb' - 1)
             /\ entity'[i].kind = "bullet" => entity'[i].net \in BulletBase..(nextBullet' - 1)
             /\ entity'[i].kind = "enemy" => entity'[i].net \in EnemyBase..(nextEnemy' - 1)
  <2>1. CASE IdKept(i)
    BY <1>0, <2>1 DEF IdKept, IdsFresh, Is
  <2>2. CASE i = n /\ IdGiven(i)
    BY <1>0, <2>2 DEF IdGiven, IdsFresh
  <2> QED BY <2>1, <2>2
<1>3. ASSUME NEW i \in Indices', NEW j \in Indices',
             entity'[i].kind = entity'[j].kind,
             entity'[i].kind \in {"orb", "bullet", "enemy"},
             entity'[i].net = entity'[j].net
      PROVE  i = j
  <2>1. CASE IdKept(i) /\ IdKept(j)
    BY <1>3, <2>1 DEF IdKept, IdsFresh
  <2>2. CASE IdKept(i) /\ j = n /\ IdGiven(j)
    BY <1>0, <1>3, <2>2 DEF IdKept, IdGiven, IdsFresh, Is
  <2>3. CASE i = n /\ IdGiven(i) /\ IdKept(j)
    BY <1>0, <1>3, <2>3 DEF IdKept, IdGiven, IdsFresh, Is
  <2>4. CASE i = n /\ j = n
    BY <2>4
  <2> QED BY <2>1, <2>2, <2>3, <2>4
<1> QED BY <1>1, <1>2, <1>3 DEF IdsFresh, Is

-----------------------------------------------------------------------------
LEMMA InitIInv == Init => IInv
<1> SUFFICES ASSUME Init PROVE IInv
  OBVIOUS
<1>1. Indices = {}
  BY DEF Init, Indices
<1>2. /\ <<>> \in Seq({}) /\ Len(<<>>) = 0 /\ <<>> \in [{} -> Things]
      /\ DOMAIN <<>> = {}
  <2>1. <<>> \in Seq(Things) /\ <<>> \in Seq({}) /\ Len(<<>>) = 0
    BY EmptySeq
  <2>2. <<>> \in [1..0 -> Things] /\ 1..0 = {}
    BY <2>1, LenProperties
  <2> QED BY <2>1, <2>2
<1>3. TypeOK
  BY <1>1, <1>2, BasesAreNat DEF Init, TypeOK
<1>4. IndexHasOneOwner
  BY <1>1, <1>2 DEF Init, IndexHasOneOwner
<1>5. FleetAgrees
  BY <1>1, <1>2 DEF Init, FleetAgrees
<1>6. IdsFresh
  BY <1>1, BasesAreNat DEF Init, IdsFresh
<1> QED BY <1>3, <1>4, <1>5, <1>6 DEF IInv

\* A step that touches neither the registry, nor the ships, nor a counter.
LEMMA NothingDone ==
    ASSUME IInv, UNCHANGED <<registry, ships, counters, crew>>,
           state' \in {"WAITING", "STARTING", "PLAYING", "GAME_OVER", "FINISHED"},
           at' \in {"idle", "shoot", "screen", "kill", "collide"},
           cursor' \in Int \X Int
    PROVE  IInv'
<1> USE DEF IInv, registry, ships, counters, Indices
<1>1. TypeOK'
  BY DEF TypeOK
<1>2. IndexHasOneOwner'
  BY DEF IndexHasOneOwner, Alive, Is
<1>3. FleetAgrees'
  BY DEF FleetAgrees, Is
<1>4. IdsFresh'
  BY DEF IdsFresh, Is
<1> QED BY <1>1, <1>2, <1>3, <1>4

\* A spawn, with what goes with it for the counters and the control.
LEMMA SpawnStep ==
    ASSUME IInv, NEW e \in Things, e.kind \in {"orb", "bullet", "enemy"}, Spawn(e),
           UNCHANGED <<ships, crew>>,
           nextOrb' \in {nextOrb, nextOrb + 1},
           nextBullet' \in {nextBullet, nextBullet + 1},
           nextEnemy' \in {nextEnemy, nextEnemy + 1},
           \/ e.kind = "orb" /\ e.net = nextOrb /\ nextOrb' = nextOrb + 1
           \/ e.kind = "bullet" /\ e.net = nextBullet /\ nextBullet' = nextBullet + 1
           \/ e.kind = "enemy" /\ e.net = nextEnemy /\ nextEnemy' = nextEnemy + 1,
           state' = state,
           at' \in {"idle", "shoot", "screen", "kill", "collide"},
           cursor' \in Int \X Int
    PROVE  IInv'
<1> DEFINE n == SpawnIndex.index
<1>1. /\ next' \in Nat /\ Indices' = Indices \cup {n}
      /\ n \in Indices => Is(n, "nothing")
      /\ entity' \in [Indices' -> Things]
      /\ entity'[n] = e
      /\ \A i \in Indices : i # n => entity'[i] = entity[i]
      /\ dead' \in Seq(Indices')
      /\ Free(entity', next', dead')
  BY Spawned
<1> HIDE DEF n
<1>2. TypeOK'
  BY <1>1 DEF IInv, TypeOK, ships
<1>3. IndexHasOneOwner'
  BY <1>1, <1>2 DEF IndexHasOneOwner, Free, Alive, Is, Indices
<1>4. FleetAgrees'
  <2>1. \A i \in Indices' : entity'[i].kind = "ship" <=> i \in Indices /\ Is(i, "ship")
    BY <1>1 DEF Is
  <2>2. \A i \in Indices : Is(i, "ship") => entity'[i].net = entity[i].net
    BY <1>1 DEF Is
  <2> QED BY <1>1, <2>1, <2>2, FleetKept DEF IInv
<1>5. IdsFresh'
  <2>1. IdGiven(n)
    BY <1>1 DEF IdGiven
  <2>2. \A i \in Indices' : i # n => IdKept(i)
    BY <1>1 DEF IdKept
  <2> QED BY <2>1, <2>2, IdsKept DEF IInv
<1> QED BY <1>2, <1>3, <1>4, <1>5 DEF IInv

\* The end of something that is not a ship; others may be hurt or paid.
LEMMA RemovalStep ==
    ASSUME IInv, NEW i \in Indices, ~Is(i, "nothing"), ~Is(i, "ship"),
           next' = next,
           entity' \in [Indices -> Things],
           entity'[i] = Nothing,
           \A j \in Indices : j # i =>
               /\ entity'[j].kind = entity[j].kind
               /\ ~Is(j, "nothing") => entity'[j].net = entity[j].net,
           dead' = Append(dead, i),
           UNCHANGED <<ships, counters, crew, state>>,
           at' \in {"idle", "shoot", "screen", "kill", "collide"},
           cursor' \in Int \X Int
    PROVE  IInv'
<1>1. Indices' = Indices /\ next \in Nat /\ dead \in Seq(Indices)
  BY DEF IInv, TypeOK, Indices
<1>2. dead' \in Seq(Indices) /\ Free(entity', next, dead')
  <2>1. Free(entity, next, dead)
    BY OwnerIsFree DEF IInv
  <2> DEFINE en2 == entity'
  <2>2. en2[i].kind = "nothing" /\ entity[i].kind # "nothing"
    BY DEF Nothing, Is
  <2>3. \A j \in Indices : j # i => (en2[j].kind = "nothing" <=> entity[j].kind = "nothing")
    OBVIOUS
  <2> HIDE DEF en2
  <2>4. Append(dead, i) \in Seq(Indices) /\ Free(en2, next, Append(dead, i))
    BY <1>1, <2>1, <2>2, <2>3, KillKeepsFree DEF Indices
  <2> QED BY <2>4 DEF en2
<1>3. TypeOK'
  BY <1>1, <1>2 DEF IInv, TypeOK, ships, counters
<1>4. IndexHasOneOwner'
  BY <1>1, <1>2, <1>3 DEF IndexHasOneOwner, Free, Alive, Is, Indices
<1>5. FleetAgrees'
  <2>1. \A j \in Indices' : entity'[j].kind = "ship" <=> j \in Indices /\ Is(j, "ship")
    BY <1>1 DEF Is, Nothing
  <2>2. \A j \in Indices : Is(j, "ship") => entity'[j].net = entity[j].net
    BY <1>1 DEF Is
  <2> QED BY <1>1, <2>1, <2>2, FleetKept DEF IInv
<1>6. IdsFresh'
  <2>1. \A j \in Indices' : IdKept(j)
    BY <1>1 DEF IdKept, Nothing, Is
  <2> QED BY <2>1, IdsKept DEF IInv, counters
<1> QED BY <1>3, <1>4, <1>5, <1>6 DEF IInv

\* The end of the ship of player p.
LEMMA ShipStep ==
    ASSUME IInv, NEW p \in DOMAIN shipOf, NEW i, i = shipOf[p], Kill(i),
           fleet' = fleet \ {i},
           shipOf' = [q \in DOMAIN shipOf \ {p} |-> shipOf[q]],
           UNCHANGED counters,
           crew' \subseteq crew, crew \ {p} \subseteq crew',
           state' \in {"WAITING", "STARTING", "PLAYING", "GAME_OVER", "FINISHED"},
           at' \in {"idle", "shoot", "screen", "kill", "collide"},
           cursor' \in Int \X Int
    PROVE  IInv'
<1>0. i \in Indices /\ Is(i, "ship")
  BY DEF IInv, FleetAgrees
<1>1. /\ next' = next /\ Indices' = Indices
      /\ entity' \in [Indices -> Things]
      /\ entity'[i] = Nothing
      /\ \A j \in Indices : j # i => entity'[j] = entity[j]
      /\ dead' \in Seq(Indices)
      /\ Free(entity', next, dead')
  BY <1>0, Killed DEF Is
<1>2. \A q \in DOMAIN shipOf : q # p => shipOf[q] # i
  BY DEF IInv, FleetAgrees
<1>3. TypeOK'
  BY <1>1 DEF IInv, TypeOK, counters
<1>4. IndexHasOneOwner'
  BY <1>1, <1>3 DEF IndexHasOneOwner, Free, Alive, Is, Indices
<1>5. FleetAgrees'
  <2>1. fleet = {j \in Indices : Is(j, "ship")} /\ fleet = {shipOf[q] : q \in DOMAIN shipOf}
    BY DEF IInv, FleetAgrees
  <2>2. fleet' = {j \in Indices' : Is(j, "ship")'}
    BY <1>1, <2>1 DEF Is, Nothing
  <2>3. fleet' = {shipOf'[q] : q \in DOMAIN shipOf'}
    BY <1>2, <2>1
  <2>4. \A q \in DOMAIN shipOf' : q \in crew' /\ entity'[shipOf'[q]].net = q
    BY <1>1, <1>2 DEF IInv, FleetAgrees, TypeOK
  <2> QED BY <2>2, <2>3, <2>4 DEF FleetAgrees
<1>6. IdsFresh'
  <2>1. \A j \in Indices' : IdKept(j)
    BY <1>1 DEF IdKept, Nothing
  <2> QED BY <2>1, IdsKept DEF IInv, counters
<1> QED BY <1>3, <1>4, <1>5, <1>6 DEF IInv

LEMMA WoundedIsThing ==
    ASSUME TypeOK, NEW i \in Indices, Is(i, "ship") \/ Is(i, "enemy"), NEW d \in Damages
    PROVE  /\ Wounded(i, d) \in Things
           /\ Wounded(i, d).kind = entity[i].kind
           /\ Wounded(i, d).net = entity[i].net
<1>1. entity[i] \in Things
  BY DEF TypeOK
<1>2. d \in Nat /\ ShipHp \in Nat /\ EnemyHp \in Nat
  BY HealthIsNat
<1>3. \A h \in Nat : \A x \in 0..h : Less(x, d) \in 0..h
  BY <1>2 DEF Less
<1>4. CASE Is(i, "ship")
  <2>1. entity[i] \in Ships
    BY <1>1, <1>4, ThingsByKind DEF Is
  <2>2. Wounded(i, d) \in Ships
    BY <1>2, <1>3, <2>1 DEF Wounded, Ships
  <2> QED BY <2>1, <2>2 DEF Things, Wounded, Ships
<1>5. CASE Is(i, "enemy")
  <2>1. entity[i] \in Enemies
    BY <1>1, <1>5, ThingsByKind DEF Is
  <2>2. Wounded(i, d) \in Enemies
    BY <1>2, <1>3, <2>1 DEF Wounded, Enemies
  <2> QED BY <2>1, <2>2 DEF Things, Wounded, Enemies
<1> QED BY <1>4, <1>5

-----------------------------------------------------------------------------
(* One lemma for each action that is more than one of the steps above. *)

LEMMA JoinStep == ASSUME IInv, NEW p \in Players, Join(p) PROVE IInv'
<1> DEFINE e == Ship(p)
           n == SpawnIndex.index
<1>0. /\ crew' = crew \cup {p} /\ UNCHANGED counters /\ UNCHANGED loop
      /\ state' \in {"STARTING", state}
  BY DEF Join
<1>1. CASE p \in DOMAIN shipOf
  <2>1. UNCHANGED <<registry, ships>>
    BY <1>1 DEF Join
  <2>2. TypeOK'
    BY <1>0, <2>1 DEF IInv, TypeOK, registry, ships, counters, loop, Indices
  <2>3. IndexHasOneOwner'
    BY <2>1 DEF IInv, IndexHasOneOwner, registry, Indices, Alive, Is
  <2>4. FleetAgrees'
    BY <1>0, <2>1 DEF IInv, FleetAgrees, registry, ships, Indices, Is
  <2>5. IdsFresh'
    BY <1>0, <2>1 DEF IInv, IdsFresh, registry, counters, Indices, Is
  <2> QED BY <2>2, <2>3, <2>4, <2>5 DEF IInv
<1>2. CASE p \notin DOMAIN shipOf
  <2>0. /\ Spawn(e) /\ fleet' = fleet \cup {n}
        /\ shipOf' = [q \in DOMAIN shipOf \cup {p} |-> IF q = p THEN n ELSE shipOf[q]]
    BY <1>2 DEF Join
  <2>1. e \in Things /\ e.kind = "ship" /\ e.net = p
    BY HealthIsNat DEF Ship, Things, Ships
  <2>2. /\ next' \in Nat /\ Indices' = Indices \cup {n}
        /\ n \in Indices => Is(n, "nothing")
        /\ entity' \in [Indices' -> Things]
        /\ entity'[n] = e
        /\ \A i \in Indices : i # n => entity'[i] = entity[i]
        /\ dead' \in Seq(Indices')
        /\ Free(entity', next', dead')
    <3> HIDE DEF e
    <3> QED BY <2>0, <2>1, Spawned
  <2> HIDE DEF e, n
  <2>3. TypeOK'
    BY <1>0, <2>0, <2>2 DEF IInv, TypeOK, counters, loop
  <2>4. IndexHasOneOwner'
    BY <2>2, <2>3 DEF IndexHasOneOwner, Free, Alive, Is, Indices
  <2>5. FleetAgrees'
    <3>1. /\ fleet = {i \in Indices : Is(i, "ship")}
          /\ fleet = {shipOf[q] : q \in DOMAIN shipOf}
          /\ \A q \in DOMAIN shipOf : q \in crew /\ entity[shipOf[q]].net = q
      BY DEF IInv, FleetAgrees
    <3>2. fleet' = {i \in Indices' : Is(i, "ship")'}
      BY <2>0, <2>1, <2>2, <3>1 DEF Is
    <3>3. fleet' = {shipOf'[q] : q \in DOMAIN shipOf'}
      <4>1. \A q \in DOMAIN shipOf : q # p /\ shipOf'[q] = shipOf[q]
        BY <1>2, <2>0
      <4>2. DOMAIN shipOf' = DOMAIN shipOf \cup {p} /\ shipOf'[p] = n
        BY <2>0
      <4> QED BY <2>0, <3>1, <4>1, <4>2
    <3>4. ASSUME NEW q \in DOMAIN shipOf'
          PROVE  q \in crew' /\ entity'[shipOf'[q]].net = q
      <4>1. CASE q = p
        BY <1>0, <2>0, <2>1, <2>2, <4>1
      <4>2. CASE q # p
        <5>1. q \in DOMAIN shipOf /\ shipOf'[q] = shipOf[q] /\ shipOf[q] \in fleet
          BY <2>0, <3>1, <4>2
        <5>2. shipOf[q] \in Indices /\ shipOf[q] # n
          BY <2>2, <3>1, <5>1 DEF Is
        <5> QED BY <1>0, <2>2, <3>1, <5>1, <5>2
      <4> QED BY <4>1, <4>2
    <3> QED BY <3>2, <3>3, <3>4 DEF FleetAgrees
  <2>6. IdsFresh'
    <3>1. \A i \in Indices' : IdKept(i)
      BY <2>1, <2>2 DEF IdKept
    <3> QED BY <1>0, <3>1, IdsKept DEF IInv, counters
  <2> QED BY <2>3, <2>4, <2>5, <2>6 DEF IInv
<1> QED BY <1>1, <1>2

LEMMA LeaveStep == ASSUME IInv, NEW p \in Players, Leave(p) PROVE IInv'
<1>0. /\ crew' = crew \ {p} /\ UNCHANGED counters /\ UNCHANGED loop
      /\ state' \in {"GAME_OVER", state}
  BY DEF Leave
<1>00. /\ state' \in {"WAITING", "STARTING", "PLAYING", "GAME_OVER", "FINISHED"}
       /\ at' \in {"idle", "shoot", "screen", "kill", "collide"}
       /\ cursor' \in Int \X Int
  BY <1>0 DEF IInv, TypeOK, loop
<1>1. CASE p \in DOMAIN shipOf
  <2>1. /\ Kill(shipOf[p]) /\ fleet' = fleet \ {shipOf[p]}
        /\ shipOf' = [q \in DOMAIN shipOf \ {p} |-> shipOf[q]]
    BY <1>1 DEF Leave
  <2> QED BY <1>0, <1>00, <1>1, <2>1, ShipStep
<1>2. CASE p \notin DOMAIN shipOf
  <2>1. UNCHANGED <<registry, ships>>
    BY <1>2 DEF Leave
  <2>2. TypeOK'
    BY <1>0, <1>00, <2>1 DEF IInv, TypeOK, registry, ships, counters, loop, Indices
  <2>3. IndexHasOneOwner'
    BY <2>1 DEF IInv, IndexHasOneOwner, registry, Indices, Alive, Is
  <2>4. FleetAgrees'
    BY <1>0, <1>2, <2>1 DEF IInv, FleetAgrees, registry, ships, Indices, Is
  <2>5. IdsFresh'
    BY <1>0, <2>1 DEF IInv, IdsFresh, registry, counters, Indices, Is
  <2> QED BY <2>2, <2>3, <2>4, <2>5 DEF IInv
<1> QED BY <1>1, <1>2

LEMMA StartUpdateStep == ASSUME IInv, StartUpdate PROVE IInv'
<1>0. /\ UNCHANGED <<ships, nextOrb, nextBullet, crew, state>>
      /\ at' = "shoot" /\ cursor' = <<-1, -1>>
  BY DEF StartUpdate, Go
<1>00. state \in {"WAITING", "STARTING", "PLAYING", "GAME_OVER", "FINISHED"}
       /\ cursor' \in Int \X Int
  BY <1>0 DEF IInv, TypeOK
<1>1. CASE UNCHANGED <<registry, nextEnemy>>
  BY <1>0, <1>00, <1>1, NothingDone DEF counters
<1>2. CASE Spawn(Enemy(nextEnemy)) /\ nextEnemy' = nextEnemy + 1
  <2> DEFINE e == Enemy(nextEnemy)
  <2>1. e \in Things /\ e.kind = "enemy" /\ e.net = nextEnemy
    BY HealthIsNat DEF Enemy, Things, Enemies, IInv, TypeOK
  <2>2. Spawn(e)
    BY <1>2
  <2> HIDE DEF e
  <2> QED BY <1>0, <1>00, <1>2, <2>1, <2>2, SpawnStep
<1> QED BY <1>1, <1>2 DEF StartUpdate

LEMMA ShootStep ==
    ASSUME IInv, NEW i \in Indices, NEW d \in Damages, Shoot(i, d) PROVE IInv'
<1> DEFINE e == Bullet(nextBullet, entity[i].net, d)
<1>1. /\ UNCHANGED <<ships, nextOrb, nextEnemy, crew, state, at>>
      /\ nextBullet' = nextBullet + 1 /\ cursor' = <<i, -1>> /\ Spawn(e) /\ Is(i, "ship")
  BY DEF Shoot, BulletId
<1>2. /\ state \in {"WAITING", "STARTING", "PLAYING", "GAME_OVER", "FINISHED"}
      /\ at \in {"idle", "shoot", "screen", "kill", "collide"}
      /\ cursor' \in Int \X Int
  BY <1>1 DEF IInv, TypeOK, Indices
<1>3. entity[i] \in Ships
  BY <1>1, ThingsByKind DEF IInv, TypeOK, Is
<1>4. e \in Things /\ e.kind = "bullet" /\ e.net = nextBullet
  BY <1>3 DEF Bullet, Things, Bullets, Ships, IInv, TypeOK
<1> HIDE DEF e
<1> QED BY <1>1, <1>2, <1>4, SpawnStep

\* A bullet that leaves the screen, an orb that is collected.
LEMMA KillStep ==
    ASSUME IInv, NEW i \in Indices, ~Is(i, "nothing"), ~Is(i, "ship"),
           entity' = [entity EXCEPT ![i] = Nothing], dead' = Append(dead, i), next' = next,
           UNCHANGED <<ships, counters, crew, state>>,
           at' = at, cursor' \in Int \X Int
    PROVE  IInv'
<1>1. entity \in [Indices -> Things] /\ Nothing \in Things
  BY DEF IInv, TypeOK, Things
<1>2. /\ entity' \in [Indices -> Things] /\ entity'[i] = Nothing
      /\ \A j \in Indices : j # i => entity'[j] = entity[j]
  BY <1>1
<1>3. at' \in {"idle", "shoot", "screen", "kill", "collide"}
  BY DEF IInv, TypeOK
<1> QED BY <1>2, <1>3, RemovalStep

LEMMA KillEnemyStep == ASSUME IInv, NEW i \in Indices, KillEnemy(i) PROVE IInv'
<1> DEFINE e == Orb(nextOrb)
           n == SpawnIndex.index
           m == IF dead = <<>> THEN next + 1 ELSE next
           w == With(e)
           d == SpawnIndex.left
<1>0. /\ Is(i, "enemy")
      /\ entity' = [w EXCEPT ![i] = Nothing] /\ next' = m /\ dead' = Append(d, i)
      /\ nextOrb' = nextOrb + 1
      /\ UNCHANGED <<ships, nextBullet, nextEnemy, crew, state, loop>>
  BY DEF KillEnemy
<1>1. e \in Things /\ e.kind = "orb" /\ e.net = nextOrb
  BY DEF Orb, Things, Orbs, IInv, TypeOK
<1>2. /\ m \in Nat /\ 0..(m - 1) = Indices \cup {n}
      /\ n \in Indices => Is(n, "nothing")
      /\ w \in [0..(m - 1) -> Things]
      /\ w[n] = e
      /\ \A j \in Indices : j # n => w[j] = entity[j]
      /\ d \in Seq(0..(m - 1))
      /\ Free(w, m, d)
  <2> HIDE DEF e
  <2> QED BY <1>1, SpawnedRegistry
<1> HIDE DEF e, n, m, w, d
<1>3. i # n /\ i \in 0..(m - 1) /\ w[i] = entity[i]
  BY <1>0, <1>2 DEF Is
<1>4. /\ entity' \in [0..(m - 1) -> Things] /\ entity'[i] = Nothing /\ entity'[n] = e
      /\ \A j \in 0..(m - 1) : j # i => entity'[j] = w[j]
      /\ \A j \in Indices : j # i /\ j # n => entity'[j] = entity[j]
  BY <1>0, <1>2, <1>3 DEF Things
<1>5. dead' \in Seq(0..(m - 1)) /\ Free(entity', m, dead')
  <2> DEFINE en2 == entity'
  <2>1. w[i].kind # "nothing" /\ en2[i].kind = "nothing"
    BY <1>0, <1>3, <1>4 DEF Is, Nothing
  <2>2. \A j \in 0..(m - 1) : j # i => (en2[j].kind = "nothing" <=> w[j].kind = "nothing")
    BY <1>4
  <2> HIDE DEF en2
  <2>3. Append(d, i) \in Seq(0..(m - 1)) /\ Free(en2, m, Append(d, i))
    BY <1>2, <1>3, <2>1, <2>2, KillKeepsFree
  <2> QED BY <1>0, <2>3 DEF en2
<1>6. Indices' = 0..(m - 1)
  BY <1>0 DEF Indices
<1>7. TypeOK'
  BY <1>0, <1>2, <1>4, <1>5, <1>6 DEF IInv, TypeOK, ships, loop
<1>8. IndexHasOneOwner'
  BY <1>0, <1>5, <1>6, <1>7 DEF IndexHasOneOwner, Free, Alive, Is, Indices
<1>9. FleetAgrees'
  <2>1. \A j \in Indices' : entity'[j].kind = "ship" <=> j \in Indices /\ Is(j, "ship")
    BY <1>0, <1>1, <1>2, <1>4, <1>6 DEF Is, Nothing
  <2>2. \A j \in Indices : Is(j, "ship") => entity'[j].net = entity[j].net
    BY <1>0, <1>2, <1>4 DEF Is
  <2> QED BY <1>0, <1>2, <1>6, <2>1, <2>2, FleetKept DEF IInv
<1>10. IdsFresh'
  <2>1. IdGiven(n)
    BY <1>0, <1>1, <1>4 DEF IdGiven
  <2>2. \A j \in Indices' : j # n => IdKept(j)
    BY <1>2, <1>4, <1>6 DEF IdKept, Nothing
  <2> QED BY <1>0, <2>1, <2>2, IdsKept DEF IInv
<1> QED BY <1>7, <1>8, <1>9, <1>10 DEF IInv

LEMMA KillShipStep == ASSUME IInv, NEW i \in Indices, KillShip(i) PROVE IInv'
<1>0. /\ Is(i, "ship") /\ Kill(i) /\ fleet' = fleet \ {i}
      /\ shipOf' = [p \in {q \in DOMAIN shipOf : shipOf[q] # i} |-> shipOf[p]]
      /\ UNCHANGED <<counters, crew, state, loop>>
  BY DEF KillShip, FleetAfter
<1>1. PICK p \in DOMAIN shipOf : shipOf[p] = i
  BY <1>0 DEF IInv, FleetAgrees
<1>2. {q \in DOMAIN shipOf : shipOf[q] # i} = DOMAIN shipOf \ {p}
  BY <1>1 DEF IInv, FleetAgrees
<1>3. /\ state' \in {"WAITING", "STARTING", "PLAYING", "GAME_OVER", "FINISHED"}
      /\ at' \in {"idle", "shoot", "screen", "kill", "collide"}
      /\ cursor' \in Int \X Int
  BY <1>0 DEF IInv, TypeOK, loop
<1> QED BY <1>0, <1>1, <1>2, <1>3, ShipStep

\* The pairs of the collisions are indices, and the control stays in the loop.
LEMMA MeetTypes ==
    ASSUME IInv, NEW i \in Indices, NEW j \in Indices, Meet(i, j)
    PROVE  /\ UNCHANGED <<next, counters, crew, state>> /\ i # j
           /\ state' \in {"WAITING", "STARTING", "PLAYING", "GAME_OVER", "FINISHED"}
           /\ at' = at /\ at' \in {"idle", "shoot", "screen", "kill", "collide"}
           /\ cursor' \in Int \X Int
BY DEF Meet, IInv, TypeOK, Indices

LEMMA PaidIsThing ==
    ASSUME NEW f \in [Indices -> Things], NEW S
    PROVE  /\ WithPoint(S, f) \in [Indices -> Things]
           /\ \A i \in Indices :
                /\ WithPoint(S, f)[i].kind = f[i].kind
                /\ f[i].kind # "nothing" => WithPoint(S, f)[i].net = f[i].net
                /\ f[i].kind # "ship" => WithPoint(S, f)[i] = f[i]
<1>1. ASSUME NEW i \in Indices, f[i].kind = "ship"
      PROVE  /\ [f[i] EXCEPT !.score = @ + 1] \in Things
             /\ [f[i] EXCEPT !.score = @ + 1].kind = "ship"
             /\ [f[i] EXCEPT !.score = @ + 1].net = f[i].net
  <2>1. f[i] \in Ships
    BY <1>1, ThingsByKind
  <2>2. [f[i] EXCEPT !.score = @ + 1] \in Ships
    BY <2>1 DEF Ships
  <2> QED BY <2>1, <2>2 DEF Things, Ships
<1> QED BY <1>1 DEF WithPoint

\* A hit: the bullet is gone, the others keep their kind and their id.
HitShows(b) ==
    /\ Is(b, "bullet")
    /\ entity' \in [Indices -> Things] /\ entity'[b] = Nothing
    /\ \A j \in Indices : j # b =>
          /\ entity'[j].kind = entity[j].kind
          /\ ~Is(j, "nothing") => entity'[j].net = entity[j].net

LEMMA HitScoredShows ==
    ASSUME IInv, NEW b \in Indices, NEW e \in Indices, HitScored(b, e) PROVE HitShows(b)
<1> DEFINE shot == Wounded(e, entity[b].damage)
           paid == IF shot.hp <= 0 THEN Scorer(entity[b].owner) ELSE {}
           f == [entity EXCEPT ![b] = Nothing, ![e] = shot]
<1>0. /\ Meet(b, e) /\ Is(b, "bullet") /\ Is(e, "enemy")
      /\ entity' = WithPoint(paid, f) /\ dead' = Append(dead, b) /\ UNCHANGED ships
  BY DEF HitScored
<1>1. entity[b].damage \in Damages
  <2>1. entity[b] \in Bullets
    BY <1>0, ThingsByKind DEF IInv, TypeOK, Is
  <2> QED BY <2>1 DEF Bullets
<1>2. shot \in Things /\ shot.kind = "enemy" /\ shot.net = entity[e].net
  BY <1>0, <1>1, WoundedIsThing DEF IInv, Is
<1> HIDE DEF shot, paid
<1>3. entity \in [Indices -> Things] /\ Nothing \in Things /\ b # e
  BY <1>0, MeetTypes DEF IInv, TypeOK, Things
<1>4. /\ f \in [Indices -> Things] /\ f[b] = Nothing /\ f[e] = shot
      /\ \A j \in Indices : j # b /\ j # e => f[j] = entity[j]
  BY <1>2, <1>3
<1> HIDE DEF f
<1>5. /\ entity' \in [Indices -> Things] /\ entity'[b] = Nothing
      /\ \A j \in Indices : j # b =>
            /\ entity'[j].kind = entity[j].kind
            /\ ~Is(j, "nothing") => entity'[j].net = entity[j].net
  BY <1>0, <1>2, <1>4, PaidIsThing DEF Is, Nothing
<1> QED BY <1>0, <1>5 DEF HitShows

LEMMA HitScoredStep ==
    ASSUME IInv, NEW b \in Indices, NEW e \in Indices, HitScored(b, e) PROVE IInv'
BY HitScoredShows, MeetTypes, RemovalStep DEF HitScored, HitShows, Is

LEMMA HitUnscoredShows ==
    ASSUME IInv, NEW e \in Indices, NEW b \in Indices, HitUnscored(e, b) PROVE HitShows(b)
<1> DEFINE shot == Wounded(e, entity[b].damage)
<1>0. /\ Meet(e, b) /\ Is(b, "bullet") /\ Is(e, "enemy")
      /\ entity' = [entity EXCEPT ![e] = shot, ![b] = Nothing]
      /\ dead' = Append(dead, b) /\ UNCHANGED ships
  BY DEF HitUnscored
<1>1. entity[b].damage \in Damages
  <2>1. entity[b] \in Bullets
    BY <1>0, ThingsByKind DEF IInv, TypeOK, Is
  <2> QED BY <2>1 DEF Bullets
<1>2. shot \in Things /\ shot.kind = "enemy" /\ shot.net = entity[e].net
  BY <1>0, <1>1, WoundedIsThing DEF IInv, Is
<1> HIDE DEF shot
<1>3. entity \in [Indices -> Things] /\ Nothing \in Things /\ b # e
  BY <1>0, MeetTypes DEF IInv, TypeOK, Things
<1>4. /\ entity' \in [Indices -> Things] /\ entity'[b] = Nothing
      /\ \A j \in Indices : j # b =>
            /\ entity'[j].kind = entity[j].kind
            /\ ~Is(j, "nothing") => entity'[j].net = entity[j].net
  BY <1>0, <1>2, <1>3 DEF Is
<1> QED BY <1>0, <1>4 DEF HitShows

LEMMA HitUnscoredStep ==
    ASSUME IInv, NEW e \in Indices, NEW b \in Indices, HitUnscored(e, b) PROVE IInv'
BY HitUnscoredShows, MeetTypes, RemovalStep DEF HitUnscored, HitShows, Is

LEMMA RamShows ==
    ASSUME IInv, NEW i \in Indices, NEW j \in Indices, Ram(i, j)
    PROVE  /\ entity' \in [Indices -> Things]
           /\ \A k \in Indices : entity'[k].kind = entity[k].kind /\ entity'[k].net = entity[k].net
<1>0. /\ Meet(i, j) /\ UNCHANGED <<dead, ships>>
      /\ Is(i, "ship") \/ Is(i, "enemy")
      /\ Is(j, "ship") \/ Is(j, "enemy")
  BY DEF Ram
<1>1. PICK n \in Damages, m \in Damages :
        entity' = [entity EXCEPT ![i] = Wounded(i, n), ![j] = Wounded(j, m)]
  BY DEF Ram
<1>2. /\ Wounded(i, n) \in Things /\ Wounded(i, n).kind = entity[i].kind
      /\ Wounded(i, n).net = entity[i].net
      /\ Wounded(j, m) \in Things /\ Wounded(j, m).kind = entity[j].kind
      /\ Wounded(j, m).net = entity[j].net
  BY <1>0, WoundedIsThing DEF IInv
<1>3. entity \in [Indices -> Things] /\ i # j
  BY <1>0, MeetTypes DEF IInv, TypeOK
<1>4. /\ entity' \in [Indices -> Things]
      /\ \A k \in Indices : entity'[k].kind = entity[k].kind /\ entity'[k].net = entity[k].net
  BY <1>1, <1>2, <1>3
<1> QED BY <1>4

LEMMA RamStep ==
    ASSUME IInv, NEW i \in Indices, NEW j \in Indices, Ram(i, j) PROVE IInv'
<1>0. Meet(i, j) /\ UNCHANGED <<dead, ships>>
  BY DEF Ram
<1>1. /\ entity' \in [Indices -> Things]
      /\ \A k \in Indices : entity'[k].kind = entity[k].kind /\ entity'[k].net = entity[k].net
  BY RamShows
<1>2. Indices' = Indices
  BY <1>0, MeetTypes DEF Indices
<1>3. TypeOK'
  BY <1>0, <1>1, <1>2, MeetTypes DEF IInv, TypeOK, ships, counters
<1>4. IndexHasOneOwner'
  BY <1>0, <1>1, <1>2 DEF IInv, IndexHasOneOwner, Alive, Is
<1>5. FleetAgrees'
  BY <1>0, <1>1, <1>2, MeetTypes, FleetKept DEF IInv, Is
<1>6. IdsFresh'
  <2>1. \A k \in Indices' : IdKept(k)
    BY <1>1, <1>2 DEF IdKept
  <2> QED BY <1>0, <2>1, MeetTypes, IdsKept DEF IInv, counters
<1> QED BY <1>3, <1>4, <1>5, <1>6 DEF IInv

LEMMA CollectShows ==
    ASSUME IInv, NEW i \in Indices, NEW j \in Indices, Collect(i, j)
    PROVE  \E orb \in Indices :
             /\ Is(orb, "orb") /\ dead' = Append(dead, orb)
             /\ entity' = [entity EXCEPT ![orb] = Nothing]
<1> DEFINE orb == IF Is(i, "orb") THEN i ELSE j
<1>1. /\ orb \in Indices /\ Is(orb, "orb")
      /\ entity' = [entity EXCEPT ![orb] = Nothing] /\ dead' = Append(dead, orb)
  BY DEF Collect
<1> QED BY <1>1

LEMMA CollectStep ==
    ASSUME IInv, NEW i \in Indices, NEW j \in Indices, Collect(i, j) PROVE IInv'
<1>1. PICK orb \in Indices :
        /\ Is(orb, "orb") /\ dead' = Append(dead, orb)
        /\ entity' = [entity EXCEPT ![orb] = Nothing]
  BY CollectShows
<1>2. Meet(i, j) /\ UNCHANGED ships
  BY DEF Collect
<1> QED BY <1>1, <1>2, MeetTypes, KillStep DEF Is

LEMMA LeaveScreenStep ==
    ASSUME IInv, NEW i \in Indices, LeaveScreen(i) PROVE IInv'
<1>1. /\ Is(i, "bullet") /\ Kill(i) /\ cursor' = <<i, -1>>
      /\ UNCHANGED <<ships, counters, crew, state, at>>
  BY DEF LeaveScreen
<1>2. cursor' \in Int \X Int
  BY <1>1 DEF Indices
<1> QED BY <1>1, <1>2, KillStep DEF Kill, Is

-----------------------------------------------------------------------------
LEMMA NextIInv == IInv /\ [Next]_vars => IInv'
<1> SUFFICES ASSUME IInv, [Next]_vars PROVE IInv'
  OBVIOUS
<1>0. /\ state \in {"WAITING", "STARTING", "PLAYING", "GAME_OVER", "FINISHED"}
      /\ at \in {"idle", "shoot", "screen", "kill", "collide"}
      /\ cursor \in Int \X Int /\ <<-1, -1>> \in Int \X Int
  BY DEF IInv, TypeOK
<1>1. ASSUME NEW p \in Players, Join(p) \/ Leave(p) PROVE IInv'
  BY <1>1, JoinStep, LeaveStep
<1>2. CASE StartGame \/ ForceEnd
  BY <1>0, <1>2, NothingDone DEF StartGame, ForceEnd, loop
<1>3. CASE StartUpdate
  BY <1>3, StartUpdateStep
<1>4. CASE ShotsFired \/ ScreenSwept \/ AllKilled
  BY <1>0, <1>4, NothingDone DEF ShotsFired, ScreenSwept, AllKilled, Go
<1>5. CASE EndUpdate
  BY <1>0, <1>5, NothingDone DEF EndUpdate, Go
<1>6. CASE WriteScores
  BY <1>0, <1>6, NothingDone DEF WriteScores, loop
<1>7. ASSUME NEW i \in Indices, NEW d \in Damages, Shoot(i, d) PROVE IInv'
  BY <1>7, ShootStep
<1>8. ASSUME NEW i \in Indices, LeaveScreen(i) \/ KillEnemy(i) \/ KillShip(i) PROVE IInv'
  BY <1>8, LeaveScreenStep, KillEnemyStep, KillShipStep
<1>9. ASSUME NEW i \in Indices, NEW j \in Indices,
             HitScored(i, j) \/ HitUnscored(i, j) \/ Ram(i, j) \/ Collect(i, j)
      PROVE  IInv'
  BY <1>9, HitScoredStep, HitUnscoredStep, RamStep, CollectStep
<1>10. CASE UNCHANGED vars
  BY <1>0, <1>10, NothingDone DEF vars, loop
<1> QED
  BY <1>1, <1>2, <1>3, <1>4, <1>5, <1>6, <1>7, <1>8, <1>9, <1>10 DEF Next, Loops

\* All that is proved here rests on this: what the engine promises between any
\* two of its steps.
LEMMA Invariance == Spec => []IInv
BY InitIInv, NextIInv, PTL DEF Spec

\* The types of the game hold in every state.
THEOREM TypeCorrect == Spec => []TypeOK
<1>1. IInv => TypeOK
  BY DEF IInv
<1> QED BY <1>1, Invariance, PTL

\* The registry never gives an index to two entities at a time, and loses none:
\* spawn_entity and kill_entity, over every loop of update.
THEOREM RegistrySound == Spec => []IndexHasOneOwner
<1>1. IInv => IndexHasOneOwner
  BY DEF IInv
<1> QED BY <1>1, Invariance, PTL

\* player_entity_set and player_id_to_entity_map are the ships there are,
\* whichever way a ship comes or goes.
THEOREM FleetSound == Spec => []FleetAgrees
<1>1. IInv => FleetAgrees
  BY DEF IInv
<1> QED BY <1>1, Invariance, PTL

\* Two entities share a network id only if they are of different kinds and one of them
\* is past the range of its kind, however many have been spawned.
THEOREM NetworkIdsUnique == Spec => []NetworkIdsDiffer
<1>1. IInv => NetworkIdsDiffer
  <2> SUFFICES ASSUME IInv, NEW i \in Alive, NEW j \in Alive, entity[i].net = entity[j].net,
                      \/ entity[i].kind = entity[j].kind
                      \/ ~PastItsRange(entity[i]) /\ ~PastItsRange(entity[j])
               PROVE  i = j
    BY DEF NetworkIdsDiffer
  <2>0. /\ i \in Indices /\ j \in Indices /\ IdsFresh /\ FleetAgrees
        /\ nextOrb \in Nat /\ nextBullet \in Nat /\ nextEnemy \in Nat
        /\ OrbBase \in Nat /\ BulletBase \in Nat /\ EnemyBase \in Nat
        /\ Players \subseteq Nat
    BY BasesAreNat, PlayersAreIds DEF IInv, TypeOK, Alive
  <2> DEFINE Sort(k) ==
        \/ Is(k, "ship") /\ entity[k].net \in Nat /\ entity[k].net < OrbBase
        \/ Is(k, "orb") /\ entity[k].net \in OrbBase..(BulletBase - 1)
        \/ Is(k, "bullet") /\ entity[k].net \in BulletBase..(EnemyBase - 1)
        \/ Is(k, "enemy") /\ entity[k].net \in Nat /\ EnemyBase <= entity[k].net
  <2>1. ASSUME NEW k \in Alive
        PROVE  /\ entity[k].kind \in {"ship", "orb", "bullet", "enemy"}
               /\ ~PastItsRange(entity[k]) => Sort(k)
    <3>1. k \in Indices /\ entity[k] \in Things /\ ~Is(k, "nothing")
      BY DEF Alive, IInv, TypeOK
    <3>2. CASE Is(k, "ship")
      <4>1. entity[k] \in Ships
        BY <3>1, <3>2, ThingsByKind DEF Is
      <4>2. entity[k].net \in Players
        BY <4>1 DEF Ships
      <4>3. entity[k].kind = "ship" /\ entity[k].net \in Nat /\ OrbBase \in Nat
        BY <2>0, <3>2, <4>2 DEF Is
      <4>4. ~PastItsRange(entity[k]) => ~(entity[k].net >= OrbBase)
        BY <4>3 DEF PastItsRange
      <4>5. ~(entity[k].net >= OrbBase) => entity[k].net < OrbBase
        BY <4>3
      <4> QED BY <3>2, <4>3, <4>4, <4>5
    <3>3. CASE Is(k, "orb")
      BY <2>0, <3>1, <3>3 DEF IdsFresh, PastItsRange, Is
    <3>4. CASE Is(k, "bullet")
      BY <2>0, <3>1, <3>4 DEF IdsFresh, PastItsRange, Is
    <3>5. CASE Is(k, "enemy")
      BY <2>0, <3>1, <3>5 DEF IdsFresh, PastItsRange, Is
    <3>6. Is(k, "ship") \/ Is(k, "orb") \/ Is(k, "bullet") \/ Is(k, "enemy")
      BY <3>1, ThingsByKind DEF Things, Is
    <3> QED BY <3>2, <3>3, <3>4, <3>5, <3>6
  <2>2. OrbBase <= BulletBase /\ BulletBase <= EnemyBase
    BY BasesAscend
  <2>3. ~PastItsRange(entity[i]) /\ ~PastItsRange(entity[j]) => Sort(i) /\ Sort(j)
    BY <2>1
  <2>4. entity[i].kind = entity[j].kind /\ entity[i].kind \in {"ship", "orb", "bullet", "enemy"}
    BY <2>0, <2>1, <2>2, <2>3 DEF Is
  <2>5. CASE entity[i].kind = "ship"
    <3>1. i \in fleet /\ j \in fleet
      BY <2>0, <2>4, <2>5 DEF FleetAgrees, Is
    <3>2. PICK p \in DOMAIN shipOf, q \in DOMAIN shipOf : i = shipOf[p] /\ j = shipOf[q]
      BY <2>0, <3>1 DEF FleetAgrees
    <3>3. p = q
      BY <2>0, <3>2 DEF FleetAgrees
    <3> QED BY <3>2, <3>3
  <2>6. CASE entity[i].kind # "ship"
    BY <2>0, <2>4, <2>6 DEF IdsFresh
  <2> QED BY <2>5, <2>6
<1> QED BY <1>1, Invariance, PTL

-----------------------------------------------------------------------------
\* The steps that hurt nobody: what is there stays as it is, or is gone.
Unhurt ==
    \A i \in Indices : ~Is(i, "nothing") => entity'[i] = entity[i] \/ entity'[i] = Nothing

LEMMA SpawnHurtsNobody ==
    ASSUME IInv, NEW e \in Things, e.kind # "nothing", Spawn(e)
    PROVE  Unhurt
BY Spawned DEF Unhurt, Is

LEMMA KillHurtsNobody ==
    ASSUME IInv, NEW i \in Indices, Kill(i)
    PROVE  Unhurt
<1>1. entity \in [Indices -> Things]
  BY DEF IInv, TypeOK
<1>2. \A j \in Indices : entity'[j] = Nothing \/ entity'[j] = entity[j]
  BY <1>1 DEF Kill
<1> QED BY <1>2 DEF Unhurt

\* The steps that leave the score of every ship they leave as it is.
ScoresKept ==
    \A i \in Indices :
        Is(i, "ship") /\ entity'[i].kind = "ship" => entity'[i].score = entity[i].score

LEMMA WoundKeepsScore ==
    ASSUME IInv, NEW i \in Indices, NEW d, Is(i, "ship")
    PROVE  Wounded(i, d).score = entity[i].score
<1>1. entity[i] \in Ships
  BY ThingsByKind DEF IInv, TypeOK, Is
<1> QED BY <1>1 DEF Wounded, Ships

LEMMA HitPays ==
    ASSUME IInv, NEW b \in Indices, NEW e \in Indices, HitScored(b, e)
    PROVE  PaidForABullet
<1> DEFINE shot == Wounded(e, entity[b].damage)
           paid == IF shot.hp <= 0 THEN Scorer(entity[b].owner) ELSE {}
           f == [entity EXCEPT ![b] = Nothing, ![e] = shot]
<1> SUFFICES ASSUME NEW i \in Indices, Is(i, "ship"), entity'[i].score # entity[i].score
             PROVE  /\ Is(b, "bullet") /\ entity'[b].kind = "nothing"
                    /\ entity[b].owner = entity[i].net
  BY DEF PaidForABullet
<1>1. Is(b, "bullet") /\ Is(e, "enemy") /\ entity' = WithPoint(paid, f)
  BY DEF HitScored
<1>2. entity \in [Indices -> Things] /\ i # b /\ i # e /\ b # e
  BY <1>1 DEF IInv, TypeOK, Is
<1>3. f[i] = entity[i] /\ f[b] = Nothing
  BY <1>2
<1>4. paid \subseteq Scorer(entity[b].owner)
  OBVIOUS
<1> HIDE DEF paid, f
<1>5. i \in paid
  BY <1>1, <1>3 DEF WithPoint, Is
<1>6. entity[b].owner \in DOMAIN shipOf /\ i = shipOf[entity[b].owner]
  BY <1>4, <1>5 DEF Scorer
<1>7. entity[i].net = entity[b].owner
  BY <1>6 DEF IInv, FleetAgrees
<1>8. entity'[b].kind = "nothing"
  BY <1>1, <1>3 DEF WithPoint, Nothing
<1> QED BY <1>1, <1>7, <1>8

Hurts(i, j) == HitScored(i, j) \/ HitUnscored(i, j) \/ Ram(i, j)

(* Nothing is hurt but by a bullet's hit or a ram. *)
LEMMA OnlyMeetingsHurt ==
    ASSUME IInv, Next, ~Unhurt
    PROVE  \E i, j \in Indices : Hurts(i, j)
<1>2. ASSUME UNCHANGED registry PROVE Unhurt
  BY <1>2 DEF registry, Unhurt
<1>3. ASSUME NEW p \in Players, Join(p) PROVE Unhurt
  <2>1. Ship(p) \in Things /\ Ship(p).kind = "ship"
    BY HealthIsNat DEF Ship, Things, Ships
  <2>2. UNCHANGED registry \/ Spawn(Ship(p))
    BY <1>3 DEF Join
  <2> QED BY <1>2, <2>1, <2>2, SpawnHurtsNobody
<1>4. ASSUME NEW p \in Players, Leave(p) PROVE Unhurt
  <2>1. UNCHANGED registry \/ (p \in DOMAIN shipOf /\ Kill(shipOf[p]))
    BY <1>4 DEF Leave
  <2> QED BY <1>2, <2>1, KillHurtsNobody DEF IInv, TypeOK
<1>5. CASE StartGame \/ ForceEnd \/ ShotsFired \/ ScreenSwept \/ AllKilled \/ EndUpdate \/ WriteScores
  BY <1>2, <1>5
     DEF StartGame, ForceEnd, ShotsFired, ScreenSwept, AllKilled, EndUpdate, WriteScores
<1>6. CASE StartUpdate
  <2>1. Enemy(nextEnemy) \in Things /\ Enemy(nextEnemy).kind = "enemy"
    BY HealthIsNat DEF Enemy, Things, Enemies, IInv, TypeOK
  <2>2. UNCHANGED registry \/ Spawn(Enemy(nextEnemy))
    BY <1>6 DEF StartUpdate
  <2> QED BY <1>2, <2>1, <2>2, SpawnHurtsNobody
<1>7. ASSUME NEW i \in Indices, NEW d \in Damages, Shoot(i, d) PROVE Unhurt
  <2> DEFINE e == Bullet(nextBullet, entity[i].net, d)
  <2>1. Is(i, "ship") /\ Spawn(e)
    BY <1>7 DEF Shoot, BulletId
  <2>2. entity[i] \in Ships
    BY <2>1, ThingsByKind DEF IInv, TypeOK, Is
  <2>3. e \in Things /\ e.kind = "bullet"
    BY <2>2 DEF Bullet, Things, Bullets, Ships, IInv, TypeOK
  <2> HIDE DEF e
  <2> QED BY <2>1, <2>3, SpawnHurtsNobody
<1>8. ASSUME NEW i \in Indices, LeaveScreen(i) \/ KillShip(i) PROVE Unhurt
  BY <1>8, KillHurtsNobody DEF LeaveScreen, KillShip
<1>9. ASSUME NEW i \in Indices, KillEnemy(i) PROVE Unhurt
  <2> DEFINE w == With(Orb(nextOrb))
             n == SpawnIndex.index
  <2>1. entity' = [w EXCEPT ![i] = Nothing]
    BY <1>9 DEF KillEnemy
  <2>2. Orb(nextOrb) \in Things /\ Orb(nextOrb).kind = "orb"
    BY DEF Orb, Things, Orbs, IInv, TypeOK
  <2>3. /\ n \in Indices => Is(n, "nothing")
        /\ \A j \in Indices : j # n => w[j] = entity[j]
        /\ Indices \subseteq DOMAIN w
    BY <2>2, SpawnedRegistry
  <2> HIDE DEF w, n
  <2>4. \A j \in Indices : entity'[j] = Nothing \/ entity'[j] = w[j]
    BY <2>1, <2>3
  <2> QED BY <2>3, <2>4 DEF Unhurt, Is, Nothing
<1>10. ASSUME NEW i \in Indices, NEW j \in Indices, Collect(i, j) PROVE Unhurt
  <2>1. entity \in [Indices -> Things]
    BY DEF IInv, TypeOK
  <2>2. \A k \in Indices : entity'[k] = Nothing \/ entity'[k] = entity[k]
    BY <1>10, <2>1 DEF Collect
  <2> QED BY <2>2 DEF Unhurt, Nothing
<1> QED
  BY <1>3, <1>4, <1>5, <1>6, <1>7, <1>8, <1>9, <1>10 DEF Next, Loops, Hurts

LEMMA NextPays == IInv /\ [Next]_vars => [PaidForABullet]_vars
<1> SUFFICES ASSUME IInv, Next PROVE PaidForABullet
  OBVIOUS
<1>1. ScoresKept => PaidForABullet
  BY DEF ScoresKept, PaidForABullet
<1>2. CASE Unhurt
  BY <1>1, <1>2 DEF Unhurt, ScoresKept, Is, Nothing
<1>3. ASSUME NEW e \in Indices, NEW b \in Indices, HitUnscored(e, b) PROVE ScoresKept
  <2>1. entity \in [Indices -> Things]
    BY DEF IInv, TypeOK
  <2>2. \A j \in Indices : j # b /\ j # e => entity'[j] = entity[j]
    BY <1>3, <2>1 DEF HitUnscored
  <2> QED BY <1>3, <2>2 DEF HitUnscored, ScoresKept, Is
<1>4. ASSUME NEW i \in Indices, NEW j \in Indices, Ram(i, j) PROVE ScoresKept
  <2>1. PICK n \in Damages, m \in Damages :
          entity' = [entity EXCEPT ![i] = Wounded(i, n), ![j] = Wounded(j, m)]
    BY <1>4 DEF Ram
  <2>2. entity \in [Indices -> Things] /\ i # j
    BY <1>4, MeetTypes DEF Ram, IInv, TypeOK
  <2>3. /\ entity'[i] = Wounded(i, n) /\ entity'[j] = Wounded(j, m)
        /\ \A k \in Indices : k # i /\ k # j => entity'[k] = entity[k]
    BY <2>1, <2>2
  <2> QED BY <2>3, WoundKeepsScore DEF ScoresKept
<1> QED BY <1>1, <1>2, <1>3, <1>4, OnlyMeetingsHurt, HitPays DEF Hurts

\* No step of the engine raises a score but for a bullet of that player's.
THEOREM PointsAreEarned == Spec => PointsGoToTheShooter
BY Invariance, NextPays, PTL DEF Spec, PointsGoToTheShooter

(* The case of the collisions in which the bullet has the lower index. *)
LEMMA HitInOrderPays ==
    ASSUME IInv, NEW b \in Indices, NEW e \in Indices, HitScored(b, e), entity'[e].hp = 0
    PROVE  Paid(entity[b].owner)
<1> DEFINE p == entity[b].owner
           s == shipOf[p]
           shot == Wounded(e, entity[b].damage)
           paid == IF shot.hp <= 0 THEN Scorer(p) ELSE {}
           f == [entity EXCEPT ![b] = Nothing, ![e] = shot]
<1> SUFFICES ASSUME p \in DOMAIN shipOf
             PROVE  entity'[s].score = entity[s].score + 1
  BY DEF Paid
<1>1. Is(b, "bullet") /\ Is(e, "enemy") /\ entity' = WithPoint(paid, f)
  BY DEF HitScored
<1>2. entity \in [Indices -> Things] /\ s \in Indices /\ Is(s, "ship")
  BY DEF IInv, TypeOK, FleetAgrees
<1>3. s # b /\ s # e /\ b # e
  BY <1>1, <1>2 DEF Is
<1>4. f[s] = entity[s] /\ f[e] = shot
  BY <1>2, <1>3
<1>5. shot.kind = "enemy"
  <2>1. entity[e] \in Enemies
    BY <1>1, ThingsByKind DEF IInv, TypeOK, Is
  <2> QED BY <2>1, <1>1 DEF Wounded, Is, Enemies
<1>6. entity'[e] = shot
  <2> HIDE DEF shot, f, paid
  <2> QED BY <1>1, <1>4, <1>5 DEF WithPoint
<1>7. paid = {s}
  BY <1>6 DEF Scorer
<1> HIDE DEF f, paid, shot, s
<1>8. entity'[s] = [f[s] EXCEPT !.score = @ + 1]
  BY <1>1, <1>2, <1>4, <1>7 DEF WithPoint, Is
<1>9. entity[s] \in Ships
  BY <1>2, ThingsByKind DEF Is
<1> QED BY <1>4, <1>8, <1>9 DEF Ships, s

LEMMA NextPaysInOrder ==
    ASSUME IInv, [Next]_vars,
           NEW b \in Indices, NEW e \in Indices, b < e, LastHit(b, e)
    PROVE  Paid(entity[b].owner)
<1>1. /\ Is(b, "bullet") /\ entity'[b].kind = "nothing"
      /\ Is(e, "enemy") /\ entity[e].hp > 0
      /\ entity'[e].kind = "enemy" /\ entity'[e].hp = 0
  BY DEF LastHit
<1>2. ~Unhurt /\ Next
  BY <1>1 DEF Unhurt, Is, Nothing, vars, registry
<1>3. PICK i \in Indices, j \in Indices : Hurts(i, j)
  BY <1>2, OnlyMeetingsHurt
<1>4. entity \in [Indices -> Things] /\ i # j /\ i < j
  BY <1>3, MeetTypes DEF Hurts, HitScored, HitUnscored, Ram, Meet, IInv, TypeOK
<1>5. ASSUME Ram(i, j) PROVE FALSE
  BY <1>1, <1>5, <1>4, RamShows DEF Is
<1>6. ASSUME HitUnscored(i, j) PROVE FALSE
  <2>1. j = b
    BY <1>1, <1>6, HitUnscoredShows DEF HitShows, Is
  <2>2. \A k \in Indices : k # i /\ k # j => entity'[k] = entity[k]
    BY <1>4, <1>6 DEF HitUnscored
  <2>3. e = i
    BY <1>1, <2>1, <2>2 DEF Is
  <2> QED BY <1>4, <2>1, <2>3 DEF Indices, IInv, TypeOK
<1>7. HitScored(i, j)
  BY <1>3, <1>5, <1>6 DEF Hurts
<1>8. i = b
  BY <1>1, <1>7, HitScoredShows DEF HitShows, Is
<1>9. j = e
  <2> DEFINE shot == Wounded(j, entity[i].damage)
             paid == IF shot.hp <= 0 THEN Scorer(entity[i].owner) ELSE {}
             f == [entity EXCEPT ![i] = Nothing, ![j] = shot]
  <2>1. entity' = WithPoint(paid, f)
    BY <1>7 DEF HitScored
  <2>2. e # i /\ (e # j => f[e] = entity[e])
    BY <1>1, <1>4, <1>8 DEF Is
  <2> HIDE DEF f, paid, shot
  <2> QED BY <1>1, <2>1, <2>2 DEF WithPoint, Is
<1> QED BY <1>1, <1>7, <1>8, <1>9, HitInOrderPays

\* A bullet of a lower index than the enemy it destroys is paid for, whatever has
\* been given out again: only the other order goes unpaid.
THEOREM KillsInOrderPaid == Spec => KillsInOrderArePaid
<1>1. IInv /\ [Next]_vars =>
        [\A b, e \in Indices : b < e /\ LastHit(b, e) => Paid(entity[b].owner)]_vars
  BY NextPaysInOrder
<1> QED BY <1>1, Invariance, PTL DEF Spec, KillsInOrderArePaid

-----------------------------------------------------------------------------
(***************************************************************************)
(* The engine implements RoomGame.  First what RoomGame sees of the        *)
(* registry, and of a step of it.                                          *)
(***************************************************************************)

\* An update runs in a game that has begun, or was ended meanwhile.
Underway == at # "idle" => state \in {"PLAYING", "GAME_OVER"}

LEMMA UnderwayAlways == Spec => []Underway
<1>1. Init => Underway
  BY DEF Init, Underway
<1>2. ASSUME Underway, [Next]_vars PROVE Underway'
  <2>1. CASE StartUpdate \/ EndUpdate \/ StartGame \/ ForceEnd \/ WriteScores
    BY <2>1, <1>2 DEF StartUpdate, EndUpdate, StartGame, ForceEnd, WriteScores, Go, loop, Underway
  <2>2. ASSUME NEW p \in Players, Join(p) \/ Leave(p) PROVE Underway'
    BY <2>2 DEF Join, Leave, loop, Underway
  <2>3. CASE ShotsFired \/ ScreenSwept \/ AllKilled
    BY <2>3, <1>2 DEF ShotsFired, ScreenSwept, AllKilled, Go, Underway
  <2>4. ASSUME NEW i \in Indices, NEW d \in Damages, Shoot(i, d) PROVE Underway'
    BY <2>4, <1>2 DEF Shoot, Underway
  <2>5. ASSUME NEW i \in Indices, LeaveScreen(i) \/ KillEnemy(i) \/ KillShip(i)
        PROVE  Underway'
    BY <2>5, <1>2 DEF LeaveScreen, KillEnemy, KillShip, loop, Underway
  <2>6. ASSUME NEW i \in Indices, NEW j \in Indices,
               HitScored(i, j) \/ HitUnscored(i, j) \/ Ram(i, j) \/ Collect(i, j)
        PROVE  Underway'
    <3>1. Meet(i, j)
      BY <2>6 DEF HitScored, HitUnscored, Ram, Collect
    <3> QED BY <1>2, <3>1 DEF Meet, Underway
  <2> QED BY <1>2, <2>1, <2>2, <2>3, <2>4, <2>5, <2>6 DEF Next, Loops, vars, loop, Underway
<1> QED BY <1>1, <1>2, PTL DEF Spec

LEMMA WorldIs ==
    /\ Game!Alive = Alive
    /\ \A i \in Alive : World[i] = [id |-> entity[i].net, type |-> entity[i].kind]
    /\ Game!Ships = {i \in Indices : Is(i, "ship")}
    /\ Game!Free = {i \in Indices : Is(i, "nothing")}
<1>1. Game!Alive = Alive
  BY DEF Game!Alive, World
<1>2. \A i \in Alive : World[i] = [id |-> entity[i].net, type |-> entity[i].kind]
  BY DEF World
<1>3. Game!Ships = {i \in Indices : Is(i, "ship")}
  <2>0. \A i \in Alive : World[i].type = entity[i].kind
    BY DEF World
  <2>1. Game!Ships = {i \in Alive : World[i].type = "ship"}
    BY <1>1 DEF Game!Ships, Game!Ship
  <2> QED BY <2>0, <2>1 DEF Alive, Is
<1>4. Game!Free = {i \in Indices : Is(i, "nothing")}
  BY <1>1 DEF Game!Free, Alive, Indices
<1> QED BY <1>1, <1>2, <1>3, <1>4

\* The indices that are free are those on the list.
LEMMA FreeIsListed ==
    ASSUME IInv
    PROVE  /\ Game!Free = {} <=> dead = <<>>
           /\ dead # <<>> => SpawnIndex.index \in Game!Free
           /\ dead = <<>> => SpawnIndex.index = next
<1>1. dead \in Seq(Indices)
  BY DEF IInv, TypeOK
<1>2. \A i \in Indices : Is(i, "nothing") <=> \E m \in 1..Len(dead) : dead[m] = i
  BY DEF IInv, IndexHasOneOwner, Alive
<1>3. CASE dead = <<>>
  <2>1. Len(dead) = 0
    BY <1>3
  <2>2. Game!Free = {}
    BY <1>2, <2>1, WorldIs
  <2> QED BY <1>3, <2>2 DEF SpawnIndex
<1>4. CASE dead # <<>>
  <2>1. Len(dead) \in Nat \ {0} /\ Last(dead) = dead[Len(dead)] /\ Last(dead) \in Indices
    BY <1>1, <1>4, FrontProperties
  <2>2. Last(dead) \in Game!Free
    BY <1>2, <2>1, WorldIs
  <2> QED BY <1>4, <2>2 DEF SpawnIndex
<1> QED BY <1>3, <1>4

SameFor(i) == entity'[i].net = entity[i].net /\ entity'[i].kind = entity[i].kind

\* Something is spawned; those of I go.
LEMMA SpawnShows ==
    ASSUME IInv, NEW e, NEW I,
           Alive' = (Alive \ I) \cup {SpawnIndex.index}, SpawnIndex.index \notin Alive,
           entity'[SpawnIndex.index] = e,
           \A i \in Alive \ I : SameFor(i),
           next' = IF dead = <<>> THEN next + 1 ELSE next
    PROVE  Game!Spawn([id |-> e.net, type |-> e.kind], I)
<1> DEFINE n == SpawnIndex.index
           thing == [id |-> e.net, type |-> e.kind]
<1>1. n \in (IF Game!Free = {} THEN {next} ELSE Game!Free)
  BY FreeIsListed
<1>2. World' = [j \in Alive' |-> [id |-> entity'[j].net, type |-> entity'[j].kind]]
  BY DEF World
<1>3. World' = [j \in (Game!Alive \ I) \cup {n} |-> IF j = n THEN thing ELSE World[j]]
  BY <1>2, WorldIs DEF SameFor
<1>4. next' = IF Game!Free = {} THEN next + 1 ELSE next
  BY FreeIsListed
<1> QED BY <1>1, <1>3, <1>4 DEF Game!Spawn

\* Those of I go.
LEMMA KillShows ==
    ASSUME NEW I, Alive' = Alive \ I, \A i \in Alive \ I : SameFor(i)
    PROVE  World' = Game!Without(I)
<1>1. World' = [j \in Alive' |-> [id |-> entity'[j].net, type |-> entity'[j].kind]]
  BY DEF World
<1> QED BY <1>1, WorldIs DEF SameFor, Game!Without

\* Nobody comes or goes.
LEMMA NothingShows ==
    ASSUME Alive' = Alive, \A i \in Alive : SameFor(i)
    PROVE  World' = World
BY DEF World, SameFor

\* What the body n under the counters is to RoomGame: new, until it is taken.
LEMMA NewIds ==
    ASSUME IInv, CountersInRange', NEW k \in {"orb", "bullet", "enemy"}, NEW n,
           nextOrb' = IF k = "orb" THEN nextOrb + 1 ELSE nextOrb,
           nextBullet' = IF k = "bullet" THEN nextBullet + 1 ELSE nextBullet,
           nextEnemy' = IF k = "enemy" THEN nextEnemy + 1 ELSE nextEnemy,
           n = CASE k = "orb" -> nextOrb [] k = "bullet" -> nextBullet [] OTHER -> nextEnemy,
           k = "enemy" => nextEnemy < EnemyBase + MaxEnemies
    PROVE  /\ n \in (OrbBase..(EnemyBase + MaxEnemies - 1)) \ Taken
           /\ Taken' = Taken \cup {n}
<1>1. /\ nextOrb \in Nat /\ nextBullet \in Nat /\ nextEnemy \in Nat
      /\ OrbBase \in Nat /\ BulletBase \in Nat /\ EnemyBase \in Nat /\ MaxEnemies \in Nat
      /\ OrbBase <= nextOrb /\ BulletBase <= nextBullet /\ EnemyBase <= nextEnemy
      /\ nextOrb' <= BulletBase /\ nextBullet' <= EnemyBase
  BY BasesAreNat, BoundsAreNat DEF IInv, TypeOK, IdsFresh, CountersInRange
<1>2. Taken' = (OrbBase..(nextOrb' - 1)) \cup (BulletBase..(nextBullet' - 1)) \cup (EnemyBase..(nextEnemy' - 1))
  BY DEF Taken
<1>3. CASE k = "orb"
  BY <1>1, <1>2, <1>3 DEF Taken
<1>4. CASE k = "bullet"
  BY <1>1, <1>2, <1>4 DEF Taken
<1>5. CASE k = "enemy"
  BY <1>1, <1>2, <1>5 DEF Taken
<1> QED BY <1>3, <1>4, <1>5

-----------------------------------------------------------------------------
(* Each action, as RoomGame sees it. *)

LEMMA SpawnShown ==
    ASSUME IInv, NEW e \in Things, e.kind # "nothing", Spawn(e)
    PROVE  Game!Spawn([id |-> e.net, type |-> e.kind], {})
<1> DEFINE n == SpawnIndex.index
<1>1. /\ Indices' = Indices \cup {n}
      /\ n \in Indices => Is(n, "nothing")
      /\ entity'[n] = e /\ \A i \in Indices : i # n => entity'[i] = entity[i]
  BY Spawned
<1> HIDE DEF n
<1>2. n \notin Alive
  BY <1>1 DEF Alive
<1>3. Alive' = (Alive \ {}) \cup {n}
  <2>1. \A i \in Indices' : ~Is(i, "nothing")' <=> i \in Alive \/ i = n
    BY <1>1 DEF Alive, Is
  <2> QED BY <1>1, <2>1 DEF Alive
<1>4. \A i \in Alive \ {} : SameFor(i)
  BY <1>1, <1>2 DEF SameFor, Alive
<1>5. next' = IF dead = <<>> THEN next + 1 ELSE next
  BY DEF Spawn
<1> QED BY <1>1, <1>2, <1>3, <1>4, <1>5, SpawnShows DEF n

\* The end of one entity.
LEMMA RemovalShown ==
    ASSUME NEW i \in Indices, ~Is(i, "nothing"), next' = next,
           entity'[i] = Nothing,
           \A j \in Indices : j # i =>
               /\ entity'[j].kind = entity[j].kind
               /\ ~Is(j, "nothing") => entity'[j].net = entity[j].net
    PROVE  i \in Game!Alive /\ World' = Game!Without({i})
<1>1. Indices' = Indices
  BY DEF Indices
<1>2. Alive' = Alive \ {i}
  BY <1>1 DEF Alive, Is, Nothing
<1>3. \A j \in Alive \ {i} : SameFor(j)
  BY DEF Alive, SameFor
<1>4. i \in Alive
  BY DEF Alive
<1> QED BY <1>2, <1>3, <1>4, KillShows, WorldIs

\* One of the entities goes in an update.
LEMMA RemovalIsDestroy ==
    ASSUME Underway, at # "idle",
           NEW i \in Indices, ~Is(i, "nothing"), next' = next,
           entity'[i] = Nothing,
           \A j \in Indices : j # i =>
               /\ entity'[j].kind = entity[j].kind
               /\ ~Is(j, "nothing") => entity'[j].net = entity[j].net,
           UNCHANGED <<counters, crew, state>>
    PROVE  Game!GameNext
<1>1. i \in Game!Alive /\ World' = Game!Without({i})
  BY RemovalShown
<1>2. ~Game!Grounded
  BY DEF Underway, Stage, Game!Grounded
<1>3. Taken' = Taken /\ Stage' = Stage
  BY DEF Taken, Stage, counters
<1>4. Game!Destroy(i)
  BY <1>1, <1>2, <1>3 DEF Game!Destroy
<1> QED BY <1>1, <1>4 DEF Game!GameNext

\* One of the loops goes on, nobody comes or goes.
LEMMA ShowsNothing ==
    ASSUME UNCHANGED <<registry, counters, crew>>, Stage' = Stage
    PROVE  UNCHANGED Game!game
<1>1. World' = World /\ Taken' = Taken
  BY DEF World, Taken, registry, counters, Alive, Indices, Is
<1> QED BY <1>1 DEF Game!game, registry

LEMMA KillIs ==
    ASSUME IInv, NEW i \in Indices, Kill(i)
    PROVE  /\ next' = next /\ entity'[i] = Nothing
           /\ \A j \in Indices : j # i => entity'[j] = entity[j]
BY DEF Kill, IInv, TypeOK

\* RoomGame counts as Engine does.
LEMMA SameCardinality == \A S : Game!Cardinality(S) = Cardinality(S)
BY DEF Game!Cardinality, Cardinality

LEMMA JoinShown ==
    ASSUME IInv, NEW p \in Players, Join(p)
    PROVE  Game!GameNext
<1>1. p \notin DOMAIN shipOf
  BY DEF Join, IInv, FleetAgrees
<1>2. Spawn(Ship(p))
  BY <1>1 DEF Join
<1>3. Ship(p) \in Things /\ Ship(p).kind = "ship" /\ Ship(p).net = p
  BY HealthIsNat DEF Ship, Things, Ships
<1>4. Game!Spawn([id |-> p, type |-> "ship"], {})
  <2>1. Game!Spawn([id |-> Ship(p).net, type |-> Ship(p).kind], {})
    BY <1>2, <1>3, SpawnShown
  <2> QED BY <1>3, <2>1
<1>5. Taken' = Taken
  BY DEF Join, Taken, counters
<1>6. Stage # "over"
  BY DEF Join, Live, Stage
<1>7. Stage' = IF Stage = "waiting" /\ Cardinality(crew') >= 2 THEN "starting" ELSE Stage
  BY DEF Join, Live, Stage
<1>8. p \notin crew /\ crew' = crew \cup {p}
  BY DEF Join
<1>9. Game!Join(p)
  BY <1>4, <1>5, <1>6, <1>7, <1>8, SameCardinality DEF Game!Join, Game!Ship
<1> QED BY <1>9 DEF Game!GameNext

LEMMA LeaveShown ==
    ASSUME IInv, NEW p \in Players, Leave(p)
    PROVE  Game!GameNext
<1>1. Game!ShipOf(p) = {i \in Indices : Is(i, "ship") /\ entity[i].net = p}
  BY WorldIs DEF Game!ShipOf, World, Alive, Is
<1>2. World' = Game!Without(Game!ShipOf(p)) /\ next' = next
  <2>1. CASE p \in DOMAIN shipOf
    <3> DEFINE i == shipOf[p]
    <3>1. Kill(i)
      BY <2>1 DEF Leave
    <3>2. i \in Indices /\ Is(i, "ship") /\ entity[i].net = p
      BY <2>1 DEF IInv, FleetAgrees
    <3>3. \A j \in Indices : Is(j, "ship") /\ entity[j].net = p => j = i
      BY <2>1 DEF IInv, FleetAgrees
    <3>4. Game!ShipOf(p) = {i}
      BY <1>1, <3>2, <3>3
    <3> HIDE DEF i
    <3>5. World' = Game!Without({i}) /\ next' = next
      BY <3>1, <3>2, KillIs, RemovalShown DEF Is
    <3> QED BY <3>4, <3>5
  <2>2. CASE p \notin DOMAIN shipOf
    <3>1. Game!ShipOf(p) = {}
      BY <1>1, <2>2 DEF IInv, FleetAgrees
    <3>2. UNCHANGED registry
      BY <2>2 DEF Leave
    <3>3. Alive' = Alive \ {} /\ \A i \in Alive \ {} : SameFor(i)
      BY <3>2 DEF registry, Alive, Indices, Is, SameFor
    <3> QED BY <3>1, <3>2, <3>3, KillShows DEF registry
  <2> QED BY <2>1, <2>2
<1>3. Taken' = Taken
  BY DEF Leave, Taken, counters
<1>4. Stage' = IF crew' = {} /\ Stage \in {"starting", "playing"} THEN "over" ELSE Stage
  BY DEF Leave, Live, Stage, IInv, TypeOK
<1>5. Game!Leave(p)
  BY <1>2, <1>3, <1>4 DEF Leave, Game!Leave
<1> QED BY <1>5 DEF Game!GameNext

LEMMA StartUpdateShown ==
    ASSUME IInv, StartUpdate, CountersInRange'
    PROVE  [Game!GameNext]_(Game!game)
<1>1. CASE UNCHANGED <<registry, nextEnemy>>
  <2>1. UNCHANGED <<registry, counters, crew>> /\ Stage' = Stage
    BY <1>1 DEF StartUpdate, counters, Stage
  <2> QED BY <2>1, ShowsNothing
<1>2. CASE /\ nextEnemy < EnemyBase + MaxEnemies
           /\ Spawn(Enemy(nextEnemy)) /\ nextEnemy' = nextEnemy + 1
  <2>1. /\ Enemy(nextEnemy) \in Things /\ Enemy(nextEnemy).kind = "enemy"
        /\ Enemy(nextEnemy).net = nextEnemy
    BY HealthIsNat DEF Enemy, Things, Enemies, IInv, TypeOK
  <2>2. Game!Spawn([id |-> nextEnemy, type |-> "enemy"], {})
    <3>1. Game!Spawn([id |-> Enemy(nextEnemy).net, type |-> Enemy(nextEnemy).kind], {})
      BY <1>2, <2>1, SpawnShown
    <3> QED BY <2>1, <3>1
  <2>3. /\ nextEnemy \in (OrbBase..(EnemyBase + MaxEnemies - 1)) \ Taken
        /\ Taken' = Taken \cup {nextEnemy}
    BY <1>2, NewIds DEF StartUpdate
  <2>4. ~Game!Grounded /\ Stage' = Stage /\ crew' = crew
    BY DEF StartUpdate, Stage, Game!Grounded
  <2>5. Game!SpawnBody({})
    BY <2>2, <2>3, <2>4 DEF Game!SpawnBody
  <2> QED BY <2>5 DEF Game!GameNext, Game!Places
<1> QED BY <1>1, <1>2 DEF StartUpdate

LEMMA ShootShown ==
    ASSUME IInv, Underway, NEW i \in Indices, NEW d \in Damages, Shoot(i, d), CountersInRange'
    PROVE  Game!GameNext
<1> DEFINE e == Bullet(nextBullet, entity[i].net, d)
<1>1. Spawn(e) /\ Is(i, "ship")
  BY DEF Shoot, BulletId
<1>2. entity[i] \in Ships
  BY <1>1, ThingsByKind DEF IInv, TypeOK, Is
<1>3. e \in Things /\ e.kind = "bullet" /\ e.net = nextBullet
  BY <1>2 DEF Bullet, Things, Bullets, Ships, IInv, TypeOK
<1> HIDE DEF e
<1>4. Game!Spawn([id |-> nextBullet, type |-> "bullet"], {})
  <2>1. Game!Spawn([id |-> e.net, type |-> e.kind], {})
    BY <1>1, <1>3, SpawnShown
  <2> QED BY <1>3, <2>1
<1>5. /\ nextBullet \in (OrbBase..(EnemyBase + MaxEnemies - 1)) \ Taken
      /\ Taken' = Taken \cup {nextBullet}
  BY NewIds DEF Shoot
<1>6. ~Game!Grounded /\ Stage' = Stage /\ crew' = crew
  BY DEF Shoot, Underway, Stage, Game!Grounded
<1>7. Game!SpawnBody({})
  BY <1>4, <1>5, <1>6 DEF Game!SpawnBody
<1> QED BY <1>7 DEF Game!GameNext, Game!Places

LEMMA KillEnemyShown ==
    ASSUME IInv, Underway, NEW i \in Indices, KillEnemy(i), CountersInRange'
    PROVE  Game!GameNext
<1> DEFINE e == Orb(nextOrb)
           n == SpawnIndex.index
           m == IF dead = <<>> THEN next + 1 ELSE next
           w == With(e)
<1>1. /\ Is(i, "enemy") /\ entity' = [w EXCEPT ![i] = Nothing] /\ next' = m
  BY DEF KillEnemy
<1>2. e \in Things /\ e.kind = "orb" /\ e.net = nextOrb
  BY DEF Orb, Things, Orbs, IInv, TypeOK
<1>3. /\ 0..(m - 1) = Indices \cup {n}
      /\ n \in Indices => Is(n, "nothing")
      /\ w \in [0..(m - 1) -> Things]
      /\ w[n] = e
      /\ \A j \in Indices : j # n => w[j] = entity[j]
  <2> HIDE DEF e
  <2> QED BY <1>2, SpawnedRegistry
<1> HIDE DEF e, n, m, w
<1>4. i # n
  BY <1>1, <1>3 DEF Is
<1>5. /\ Indices' = Indices \cup {n} /\ entity'[i] = Nothing /\ entity'[n] = e
      /\ \A j \in Indices : j # i /\ j # n => entity'[j] = entity[j]
  BY <1>1, <1>3, <1>4 DEF Indices
<1>6. n \notin Alive /\ i \in Alive
  BY <1>1, <1>3 DEF Alive, Is
<1>7. Alive' = (Alive \ {i}) \cup {n}
  BY <1>2, <1>4, <1>5 DEF Alive, Is, Nothing
<1>8. \A j \in Alive \ {i} : SameFor(j)
  BY <1>5, <1>6 DEF SameFor, Alive
<1>9. Game!Spawn([id |-> nextOrb, type |-> "orb"], {i})
  <2>1. next' = IF dead = <<>> THEN next + 1 ELSE next
    BY <1>1 DEF m
  <2>2. Game!Spawn([id |-> e.net, type |-> e.kind], {i})
    BY <1>5, <1>6, <1>7, <1>8, <2>1, SpawnShows DEF n
  <2> QED BY <1>2, <2>2
<1>10. /\ nextOrb \in (OrbBase..(EnemyBase + MaxEnemies - 1)) \ Taken
       /\ Taken' = Taken \cup {nextOrb}
  BY NewIds DEF KillEnemy
<1>11. ~Game!Grounded /\ Stage' = Stage /\ crew' = crew
  BY DEF KillEnemy, Underway, Stage, Game!Grounded
<1>12. Game!SpawnBody({i})
  BY <1>9, <1>10, <1>11 DEF Game!SpawnBody
<1>13. i \in Game!Alive \ Game!Ships
  BY <1>1, <1>6, WorldIs DEF Is
<1> QED BY <1>12, <1>13 DEF Game!GameNext, Game!Places

\* The entities that go without anything in their place.
LEMMA DestroyShown ==
    ASSUME IInv, Underway, NEW i \in Indices,
           \/ LeaveScreen(i)
           \/ KillShip(i)
           \/ \E j \in Indices : HitScored(i, j) \/ HitUnscored(j, i)
    PROVE  Game!GameNext
<1>1. CASE LeaveScreen(i) \/ KillShip(i)
  <2>1. /\ Kill(i) /\ at # "idle" /\ ~Is(i, "nothing") /\ UNCHANGED <<counters, crew, state>>
    BY <1>1 DEF LeaveScreen, KillShip, Is
  <2> QED BY <2>1, KillIs, RemovalIsDestroy
<1>2. CASE \E j \in Indices : HitScored(i, j) \/ HitUnscored(j, i)
  <2>1. HitShows(i)
    BY <1>2, HitScoredShows, HitUnscoredShows
  <2>2. at # "idle" /\ UNCHANGED <<next, counters, crew, state>>
    BY <1>2 DEF HitScored, HitUnscored, Meet
  <2> QED BY <2>1, <2>2, RemovalIsDestroy DEF HitShows, Is
<1> QED BY <1>1, <1>2

LEMMA CollectShown ==
    ASSUME IInv, Underway, NEW i \in Indices, NEW j \in Indices, Collect(i, j)
    PROVE  Game!GameNext
<1>1. PICK orb \in Indices :
        Is(orb, "orb") /\ entity' = [entity EXCEPT ![orb] = Nothing]
  BY CollectShows
<1>2. /\ ~Is(orb, "nothing") /\ entity'[orb] = Nothing
      /\ \A k \in Indices : k # orb => entity'[k] = entity[k]
  BY <1>1 DEF IInv, TypeOK, Is
<1>3. at # "idle" /\ UNCHANGED <<next, counters, crew, state>>
  BY DEF Collect, Meet
<1> QED BY <1>2, <1>3, RemovalIsDestroy

LEMMA RamShown ==
    ASSUME IInv, NEW i \in Indices, NEW j \in Indices, Ram(i, j)
    PROVE  UNCHANGED Game!game
<1>1. UNCHANGED <<next, counters, crew, state>>
  BY DEF Ram, Meet
<1>2. \A k \in Indices : entity'[k].kind = entity[k].kind /\ entity'[k].net = entity[k].net
  BY RamShows
<1>3. Alive' = Alive /\ \A k \in Alive : SameFor(k)
  BY <1>1, <1>2 DEF Alive, Indices, Is, SameFor
<1>4. World' = World /\ Taken' = Taken /\ Stage' = Stage
  BY <1>1, <1>3, NothingShows DEF Taken, Stage, counters
<1> QED BY <1>1, <1>4 DEF Game!game

\* hasLost is asked when the ships are gone.
LEMMA EndUpdateShown ==
    ASSUME IInv, EndUpdate
    PROVE  [Game!GameNext]_(Game!game)
<1>1. UNCHANGED <<registry, counters, crew>>
  BY DEF EndUpdate
<1>2. CASE fleet = {} /\ state = "PLAYING"
  <2>1. Game!Ships = {}
    BY <1>2, WorldIs DEF IInv, FleetAgrees
  <2>2. Stage = "playing" /\ Stage' = "over"
    BY <1>2 DEF EndUpdate, Stage
  <2>3. World' = World /\ next' = next /\ Taken' = Taken /\ crew' = crew
    BY <1>1 DEF World, Taken, registry, counters, Alive, Indices, Is
  <2>4. Game!Lose
    BY <2>1, <2>2, <2>3 DEF Game!Lose
  <2> QED BY <2>4 DEF Game!GameNext
<1>3. CASE ~(fleet = {} /\ state = "PLAYING")
  <2>1. Stage' = Stage
    BY <1>3 DEF EndUpdate, Stage
  <2> QED BY <1>1, <2>1, ShowsNothing
<1> QED BY <1>2, <1>3

LEMMA GameStep ==
    ASSUME IInv, Underway, CountersInRange', [Next]_vars
    PROVE  [Game!GameNext]_(Game!game)
<1>1. ASSUME NEW p \in Players, Join(p) \/ Leave(p) PROVE Game!GameNext
  BY <1>1, JoinShown, LeaveShown
<1>2. CASE StartGame
  <2>1. World' = World /\ next' = next /\ Taken' = Taken /\ crew' = crew
    BY <1>2 DEF StartGame, World, Taken, registry, counters, Alive, Indices, Is
  <2>2. Stage = "starting" /\ Stage' = "playing"
    BY <1>2 DEF StartGame, Stage
  <2>3. Game!Start
    BY <2>1, <2>2 DEF Game!Start
  <2> QED BY <2>3 DEF Game!GameNext
<1>3. CASE ForceEnd
  <2>1. World' = World /\ next' = next /\ Taken' = Taken /\ crew' = crew
    BY <1>3 DEF ForceEnd, World, Taken, registry, counters, Alive, Indices, Is
  <2>2. Stage' = "over"
    BY <1>3 DEF ForceEnd, Stage
  <2>3. Game!ForceEnd
    BY <2>1, <2>2 DEF Game!ForceEnd
  <2> QED BY <2>3 DEF Game!GameNext
<1>4. CASE WriteScores \/ ShotsFired \/ ScreenSwept \/ AllKilled \/ UNCHANGED vars
  <2>1. UNCHANGED <<registry, counters, crew>>
    BY <1>4 DEF WriteScores, ShotsFired, ScreenSwept, AllKilled, vars
  <2>2. Stage' = Stage
    BY <1>4 DEF WriteScores, ShotsFired, ScreenSwept, AllKilled, vars, Stage
  <2> QED BY <2>1, <2>2, ShowsNothing
<1>5. ASSUME NEW i \in Indices, NEW d \in Damages, Shoot(i, d) PROVE Game!GameNext
  BY <1>5, ShootShown
<1>6. ASSUME NEW i \in Indices, LeaveScreen(i) \/ KillEnemy(i) \/ KillShip(i)
      PROVE  Game!GameNext
  BY <1>6, KillEnemyShown, DestroyShown
<1>7. ASSUME NEW i \in Indices, NEW j \in Indices,
             HitScored(i, j) \/ HitUnscored(i, j) \/ Ram(i, j) \/ Collect(i, j)
      PROVE  [Game!GameNext]_(Game!game)
  BY <1>7, DestroyShown, RamShown, CollectShown
<1> QED
  BY <1>1, <1>2, <1>3, <1>4, <1>5, <1>6, <1>7, StartUpdateShown, EndUpdateShown DEF Next, Loops

LEMMA GameStarts == Init => Game!GameInit
<1> SUFFICES ASSUME Init PROVE Game!GameInit
  OBVIOUS
<1>1. Indices = {} /\ Alive = {}
  BY DEF Init, Indices, Alive
<1>2. World = <<>>
  BY <1>1 DEF World
<1>3. Taken = {}
  BY BasesAreNat DEF Init, Taken
<1>4. Stage = "waiting"
  BY DEF Init, Stage
<1> QED BY <1>2, <1>3, <1>4 DEF Init, Game!GameInit

\* The engine implements RoomGame, action by action, as long as no counter of
\* network ids runs into the range of the next kind: through the loops of
\* Engine::update, whatever comes between two updates and an end forced meanwhile.
THEOREM EngineImplementsGame == Spec /\ []CountersInRange => ImplementsGame
<1>1. Init => Game!GameInit
  BY GameStarts
<1>2. IInv /\ Underway /\ CountersInRange' /\ [Next]_vars => [Game!GameNext]_(Game!game)
  BY GameStep
<1> QED BY <1>1, <1>2, Invariance, UnderwayAlways, PTL DEF Spec, ImplementsGame, Game!GameSpec

-----------------------------------------------------------------------------
(***************************************************************************)
(* How long the counters stay in their ranges: an orb is given an id for   *)
(* an enemy that is killed, and for nothing else.                          *)
(***************************************************************************)
Herd == {i \in Indices : Is(i, "enemy")}

Spent ==
    /\ IsFiniteSet(Herd)
    /\ (nextOrb - OrbBase) + Cardinality(Herd) = nextEnemy - EnemyBase
    /\ nextEnemy <= EnemyBase + MaxEnemies
    /\ nextBullet <= BulletBase + MaxShots

LEMMA HerdStays ==
    ASSUME Spent, Herd' = Herd, UNCHANGED <<nextOrb, nextEnemy>>,
           nextBullet' <= BulletBase + MaxShots
    PROVE  Spent'
BY DEF Spent

LEMMA SpentStep ==
    ASSUME IInv, Spent, [Next]_vars
    PROVE  Spent'
<1>0. /\ nextOrb \in Nat /\ nextBullet \in Nat /\ nextEnemy \in Nat
      /\ OrbBase \in Nat /\ BulletBase \in Nat /\ EnemyBase \in Nat
      /\ MaxEnemies \in Nat /\ MaxShots \in Nat /\ Cardinality(Herd) \in Nat
  BY BasesAreNat, BoundsAreNat, FS_CardinalityType DEF IInv, TypeOK, Spent
<1>1. ASSUME NEW e \in Things, e.kind # "nothing", Spawn(e)
      PROVE  /\ e.kind # "enemy" => Herd' = Herd
             /\ e.kind = "enemy" => \E n : n \notin Herd /\ Herd' = Herd \cup {n}
  <2> DEFINE n == SpawnIndex.index
  <2>1. /\ Indices' = Indices \cup {n}
        /\ n \in Indices => Is(n, "nothing")
        /\ entity'[n] = e /\ \A i \in Indices : i # n => entity'[i] = entity[i]
    BY <1>1, Spawned
  <2> HIDE DEF n
  <2>2. n \notin Herd
    BY <2>1 DEF Herd, Is
  <2>3. e.kind # "enemy" => Herd' = Herd
    BY <2>1, <2>2 DEF Herd, Is
  <2>4. e.kind = "enemy" => Herd' = Herd \cup {n}
    BY <2>1, <2>2 DEF Herd, Is
  <2> QED BY <2>2, <2>3, <2>4
<1>2. ASSUME NEW i \in Indices, ~Is(i, "enemy"), next' = next, entity'[i] = Nothing,
             \A j \in Indices : j # i => entity'[j].kind = entity[j].kind
      PROVE  Herd' = Herd
  BY <1>2 DEF Herd, Indices, Is, Nothing
<1>3. ASSUME NEW p \in Players, Join(p) PROVE Spent'
  <2>1. p \notin DOMAIN shipOf /\ UNCHANGED counters
    BY <1>3 DEF Join, IInv, FleetAgrees
  <2>2. Spawn(Ship(p)) /\ Ship(p) \in Things /\ Ship(p).kind = "ship"
    BY <1>3, <2>1, HealthIsNat DEF Join, Ship, Things, Ships
  <2>3. Herd' = Herd
    BY <1>1, <2>2
  <2> QED BY <2>1, <2>3, HerdStays DEF counters, Spent
<1>4. ASSUME NEW i \in Indices, Is(i, "ship") \/ Is(i, "bullet"), Kill(i), UNCHANGED counters
      PROVE  Spent'
  <2>1. Herd' = Herd
    BY <1>2, <1>4, KillIs DEF Is
  <2> QED BY <1>4, <2>1, HerdStays DEF counters, Spent
<1>5. ASSUME UNCHANGED <<registry, counters>> PROVE Spent'
  BY <1>5, HerdStays DEF Herd, registry, counters, Indices, Is, Spent
<1>6. ASSUME NEW p \in Players, Leave(p) PROVE Spent'
  <2>1. CASE p \in DOMAIN shipOf
    <3>1. shipOf[p] \in Indices /\ Is(shipOf[p], "ship")
      BY <2>1 DEF IInv, FleetAgrees
    <3> QED BY <1>4, <1>6, <2>1, <3>1 DEF Leave
  <2>2. CASE p \notin DOMAIN shipOf
    BY <1>5, <1>6, <2>2 DEF Leave
  <2> QED BY <2>1, <2>2
<1>7. CASE StartUpdate
  <2>1. CASE UNCHANGED <<registry, nextEnemy>>
    BY <1>5, <1>7, <2>1 DEF StartUpdate, counters
  <2>2. CASE /\ nextEnemy < EnemyBase + MaxEnemies
             /\ Spawn(Enemy(nextEnemy)) /\ nextEnemy' = nextEnemy + 1
    <3>1. Enemy(nextEnemy) \in Things /\ Enemy(nextEnemy).kind = "enemy"
      BY HealthIsNat DEF Enemy, Things, Enemies, IInv, TypeOK
    <3>2. PICK n : n \notin Herd /\ Herd' = Herd \cup {n}
      BY <1>1, <2>2, <3>1
    <3>3. IsFiniteSet(Herd') /\ Cardinality(Herd') = Cardinality(Herd) + 1
      BY <3>2, FS_AddElement DEF Spent
    <3>4. UNCHANGED <<nextOrb, nextBullet>>
      BY <1>7 DEF StartUpdate
    <3> QED BY <1>0, <2>2, <3>3, <3>4 DEF Spent
  <2> QED BY <1>7, <2>1, <2>2 DEF StartUpdate
<1>8. ASSUME NEW i \in Indices, NEW d \in Damages, Shoot(i, d) PROVE Spent'
  <2> DEFINE e == Bullet(nextBullet, entity[i].net, d)
  <2>1. Spawn(e) /\ Is(i, "ship")
    BY <1>8 DEF Shoot, BulletId
  <2>2. entity[i] \in Ships
    BY <2>1, ThingsByKind DEF IInv, TypeOK, Is
  <2>3. e \in Things /\ e.kind = "bullet"
    BY <2>2 DEF Bullet, Things, Bullets, Ships, IInv, TypeOK
  <2> HIDE DEF e
  <2>4. Herd' = Herd
    BY <1>1, <2>1, <2>3
  <2>5. UNCHANGED <<nextOrb, nextEnemy>> /\ nextBullet' <= BulletBase + MaxShots
    BY <1>0, <1>8 DEF Shoot
  <2> QED BY <2>4, <2>5, HerdStays
<1>9. ASSUME NEW i \in Indices, LeaveScreen(i) \/ KillShip(i) PROVE Spent'
  BY <1>4, <1>9 DEF LeaveScreen, KillShip
<1>10. ASSUME NEW i \in Indices, KillEnemy(i) PROVE Spent'
  <2>1. /\ i \in Herd /\ nextOrb' = nextOrb + 1 /\ UNCHANGED <<nextBullet, nextEnemy>>
    BY <1>10 DEF KillEnemy, Herd
  <2>2. Herd' = Herd \ {i}
    <3> DEFINE e == Orb(nextOrb)
               n == SpawnIndex.index
               m == IF dead = <<>> THEN next + 1 ELSE next
               w == With(e)
    <3>1. e \in Things /\ e.kind = "orb" /\ entity' = [w EXCEPT ![i] = Nothing] /\ next' = m
      BY <1>10 DEF KillEnemy, Orb, Things, Orbs, IInv, TypeOK
    <3>2. /\ 0..(m - 1) = Indices \cup {n}
          /\ n \in Indices => Is(n, "nothing")
          /\ w \in [0..(m - 1) -> Things]
          /\ w[n] = e
          /\ \A j \in Indices : j # n => w[j] = entity[j]
      <4> HIDE DEF e
      <4> QED BY <3>1, SpawnedRegistry
    <3> HIDE DEF e, n, m, w
    <3>3. i # n
      BY <2>1, <3>2 DEF Herd, Is
    <3>4. /\ Indices' = Indices \cup {n} /\ entity'[i] = Nothing /\ entity'[n] = e
          /\ \A j \in Indices : j # i /\ j # n => entity'[j] = entity[j]
      BY <3>1, <3>2, <3>3 DEF Indices
    <3> QED BY <3>1, <3>2, <3>3, <3>4 DEF Herd, Is, Nothing
  <2>3. IsFiniteSet(Herd') /\ Cardinality(Herd') = Cardinality(Herd) - 1
    BY <2>1, <2>2, FS_RemoveElement DEF Spent
  <2> QED BY <1>0, <2>1, <2>3 DEF Spent
<1>11. ASSUME NEW i \in Indices, NEW j \in Indices, HitScored(i, j) \/ HitUnscored(j, i)
       PROVE  Spent'
  <2>1. HitShows(i)
    BY <1>11, HitScoredShows, HitUnscoredShows
  <2>2. UNCHANGED <<next, counters>>
    BY <1>11 DEF HitScored, HitUnscored, Meet
  <2>3. Herd' = Herd
    BY <1>2, <2>1, <2>2 DEF HitShows, Is
  <2> QED BY <2>2, <2>3, HerdStays DEF counters, Spent
<1>12. ASSUME NEW i \in Indices, NEW j \in Indices, Ram(i, j) PROVE Spent'
  <2>1. UNCHANGED <<next, counters>>
    BY <1>12 DEF Ram, Meet
  <2>2. Herd' = Herd
    BY <1>12, <2>1, RamShows DEF Herd, Indices, Is
  <2> QED BY <2>1, <2>2, HerdStays DEF counters, Spent
<1>13. ASSUME NEW i \in Indices, NEW j \in Indices, Collect(i, j) PROVE Spent'
  <2>1. UNCHANGED <<next, counters>>
    BY <1>13 DEF Collect, Meet
  <2>2. PICK orb \in Indices : Is(orb, "orb") /\ entity' = [entity EXCEPT ![orb] = Nothing]
    BY <1>13, CollectShows
  <2>3. entity'[orb] = Nothing /\ \A k \in Indices : k # orb => entity'[k] = entity[k]
    BY <2>2 DEF IInv, TypeOK
  <2>4. Herd' = Herd
    BY <1>2, <2>1, <2>2, <2>3 DEF Is
  <2> QED BY <2>1, <2>4, HerdStays DEF counters, Spent
<1>14. CASE \/ StartGame \/ ForceEnd \/ WriteScores \/ ShotsFired \/ ScreenSwept \/ AllKilled
            \/ EndUpdate \/ UNCHANGED vars
  BY <1>5, <1>14 DEF StartGame, ForceEnd, WriteScores, ShotsFired, ScreenSwept, AllKilled,
                     EndUpdate, vars
<1> QED
  BY <1>3, <1>6, <1>7, <1>8, <1>9, <1>10, <1>11, <1>12, <1>13, <1>14 DEF Next, Loops

\* Up to now there have been ids enough for the enemies that have come, and for the
\* shots, and every player's id is below those of orbs.
EnoughIds ==
    /\ \A p \in Players : p < OrbBase
    /\ nextEnemy - EnemyBase <= BulletBase - OrbBase
    /\ nextBullet <= EnemyBase

\* The counters are in their ranges as long as no more enemies have come in the game
\* than there are ids of orbs (every orb has taken the place of an enemy), and no more
\* shots than ids of bullets: for a while in every game, and not for good in any.
THEOREM IdsSuffice == Spec => [](EnoughIds => CountersInRange)
<1>1. Init => Spent
  <2> SUFFICES ASSUME Init PROVE Spent
    OBVIOUS
  <2>1. Herd = {}
    BY DEF Init, Herd, Indices
  <2> QED BY <2>1, BasesAreNat, BoundsAreNat, FS_EmptySet DEF Init, Spent
<1>2. IInv /\ Spent /\ [Next]_vars => Spent'
  BY SpentStep
<1>3. IInv /\ Spent => (EnoughIds => CountersInRange)
  <2> SUFFICES ASSUME IInv, Spent, EnoughIds PROVE CountersInRange
    OBVIOUS
  <2>1. /\ nextOrb \in Nat /\ nextBullet \in Nat /\ nextEnemy \in Nat
        /\ OrbBase \in Nat /\ BulletBase \in Nat /\ EnemyBase \in Nat
        /\ Cardinality(Herd) \in Nat
    BY BasesAreNat, FS_CardinalityType DEF IInv, TypeOK, Spent
  <2> QED BY <2>1 DEF Spent, EnoughIds, CountersInRange
<1> QED BY <1>1, <1>2, <1>3, Invariance, PTL DEF Spec

=============================================================================
