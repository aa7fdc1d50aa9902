----------------------------- MODULE TerrainProofs -----------------------------
(***************************************************************************)
(* What is on screen is what the records say, for any grid, window, ground *)
(* and number of moves.                                                    *)
(*                                                                         *)
(* The invariant: a tile never fetched twice at once has at most one fetch *)
(* in flight, and none once its record is settled (LoadsOnce); so only the *)
(* tiles of the race lose a mesh when a fetch settles their record.  A     *)
(* mesh a record holds was placed with today's origin (PlacedNow), because *)
(* setOrigin drops every record.                                           *)
(***************************************************************************)
EXTENDS Terrain, FiniteSetTheorems, TLAPS

LoadsOnce ==
    \A k \in Keys \ raced :
        /\ loading[k] \in {0, 1}
        /\ tiles[k].state \in {"ok", "failed"} => loading[k] = 0

Distinct == \A m, o \in shown : m.n = o.n => m = o

PlacedNow == \A m \in shown : tiles[m.key] = Ready(m.n) => m.frame = origin

FirstOrigin ==
    ~rebased => /\ \A m \in shown : m.frame = origin
                /\ homeG # NoHeight => homeG = Dem[origin]

IInv ==
    /\ TypeOK
    /\ LoadsOnce
    /\ Distinct
    /\ ShownOnce
    /\ PlacedNow
    /\ FirstOrigin
--------------------------------------------------------------------------------
\* A new mesh gets an identity of its own: fewer meshes than candidates.
LEMMA FreshIsNew ==
    ASSUME NEW S, IsFiniteSet(S)
    PROVE  LET c == CHOOSE n \in 1 .. Cardinality(S) + 1 : \A m \in S : m.n # n
           IN  c \in Nat \ {0} /\ \A m \in S : m.n # c
  <1> DEFINE N == Cardinality(S) + 1
             f == [m \in S |-> m.n]
             T == {m.n : m \in S}
  <1>1. Cardinality(S) \in Nat
    BY FS_CardinalityType
  <1>2. f \in Surjection(S, T)
    BY DEF Surjection
  <1>3. IsFiniteSet(T) /\ Cardinality(T) <= Cardinality(S) /\ Cardinality(T) \in Nat
    BY <1>2, FS_Surjection, FS_CardinalityType
  <1>4. \E n \in 1 .. N : \A m \in S : m.n # n
    <2> SUFFICES ASSUME \A n \in 1 .. N : \E m \in S : m.n = n
                 PROVE  FALSE
      OBVIOUS
    <2>1. (1 .. N) \in SUBSET T
      OBVIOUS
    <2>2. Cardinality(1 .. N) <= Cardinality(T)
      BY <2>1, <1>3, FS_Subset
    <2>3. Cardinality(1 .. N) = N
      BY <1>1, FS_Interval
    <2>4. QED
      BY <2>2, <2>3, <1>1, <1>3
  <1>5. QED
    BY <1>4, <1>1

\* The pieces of ensureAround and setOrigin keep the types.
LEMMA WindowTyped ==
    ASSUME TypeOK, NEW ks \in SUBSET Keys, NEW known,
           BuildTiles(ks, known), NEW out, DropTiles(out)
    PROVE  /\ loading' \in [Keys -> Nat]
           /\ raced' \subseteq Keys
           /\ shown' \subseteq shown /\ IsFiniteSet(shown')
  <1>1. loading' \in [Keys -> Nat] /\ raced' \subseteq Keys
    BY DEF BuildTiles, TypeOK
  <1>2. shown' \subseteq shown
    BY DEF DropTiles
  <1>3. IsFiniteSet(shown')
    BY <1>2, FS_Subset DEF TypeOK
  <1>4. QED
    BY <1>1, <1>2, <1>3

\* One ensureAround preserves the invariant of tiles and meshes.
LEMMA EnsureStep ==
    ASSUME IInv, NEW c \in Int, EnsureAround(c), origin' = origin
    PROVE  /\ tiles' \in [Keys -> Tile] /\ loading' \in [Keys -> Nat]
           /\ shown' \subseteq shown /\ IsFiniteSet(shown')
           /\ raced \subseteq raced' /\ raced' \subseteq Keys
           /\ LoadsOnce' /\ Distinct' /\ ShownOnce' /\ PlacedNow'
  <1> DEFINE known == {k \in Keys : tiles[k] # Absent}
             want == Window(c)
  <1>1. want \subseteq Keys /\ BuildTiles(want, known) /\ DropTiles(known \ want)
    BY DEF EnsureAround, Window
  <1>2. tiles' = [k \in Keys |-> IF k \notin want THEN Absent
                                 ELSE IF k \in known THEN tiles[k]
                                 ELSE Pending]
    BY DEF EnsureAround
  <1> HIDE DEF want
  <1>3. /\ loading' \in [Keys -> Nat] /\ raced' \subseteq Keys
        /\ shown' \subseteq shown /\ IsFiniteSet(shown')
    BY <1>1, WindowTyped DEF IInv
  <1>4. tiles' \in [Keys -> Tile] /\ raced \subseteq raced'
    BY <1>1, <1>2 DEF IInv, TypeOK, Tile, Absent, Pending, BuildTiles
  <1>5. LoadsOnce'
    <2> SUFFICES ASSUME NEW k \in Keys, k \notin raced'
                 PROVE  /\ loading'[k] \in {0, 1}
                        /\ tiles'[k].state \in {"ok", "failed"} => loading'[k] = 0
      BY DEF LoadsOnce
    <2>1. k \notin raced /\ loading[k] \in {0, 1} /\ loading[k] \in Nat
      BY <1>4 DEF IInv, LoadsOnce, TypeOK
    <2>2. CASE k \in want \ known
      <3>1. loading[k] = 0 /\ loading'[k] = 1
        BY <2>1, <2>2, <1>1 DEF BuildTiles
      <3>2. tiles'[k] = Pending
        BY <2>2, <1>2
      <3>3. QED
        BY <3>1, <3>2 DEF Pending
    <2>3. CASE k \notin want
      BY <2>1, <2>3, <1>1, <1>2 DEF BuildTiles, Absent
    <2>4. CASE k \in want /\ k \in known
      BY <2>1, <2>4, <1>1, <1>2 DEF BuildTiles, IInv, LoadsOnce
    <2>5. QED
      BY <2>2, <2>3, <2>4
  <1>6. Distinct'
    BY <1>3 DEF IInv, Distinct
  <1>7. ASSUME NEW m \in shown'
        PROVE  /\ m.key \in raced' \/ tiles'[m.key] = Ready(m.n)
               /\ tiles'[m.key] = Ready(m.n) => m.frame = origin'
    <2>1. m \in shown /\ m.key \in Keys
      BY <1>7, <1>3 DEF IInv, TypeOK, Mesh
    <2>2. CASE m.key \in raced /\ tiles[m.key] # Ready(m.n)
      <3>1. tiles'[m.key] # Ready(m.n)
        BY <2>1, <2>2, <1>2 DEF Ready, Absent, Pending
      <3>2. QED
        BY <3>1, <2>2, <1>4
    <2>3. CASE tiles[m.key] = Ready(m.n)
      <3>1. m.key \in known
        BY <2>1, <2>3 DEF Ready, Absent
      <3>2. m.key \in want
        BY <1>7, <1>1, <2>1, <2>3, <3>1 DEF DropTiles, MeshesOf
      <3>3. tiles'[m.key] = Ready(m.n)
        BY <3>1, <3>2, <2>1, <2>3, <1>2
      <3>4. QED
        BY <3>3, <2>1, <2>3 DEF IInv, PlacedNow
    <2>4. QED
      BY <2>1, <2>2, <2>3 DEF IInv, ShownOnce
  <1>8. ASSUME NEW k \in Keys, tiles'[k].state = "ok"
        PROVE  \E m \in shown' : m.key = k /\ tiles'[k] = Ready(m.n)
    <2>1. k \in want /\ tiles'[k] = tiles[k]
      BY <1>8, <1>2 DEF Absent, Pending
    <2>2. PICK m \in shown : m.key = k /\ tiles[k] = Ready(m.n)
      BY <2>1, <1>8 DEF IInv, ShownOnce
    <2>3. m \in shown'
      BY <2>1, <2>2, <1>1 DEF DropTiles, MeshesOf
    <2>4. QED
      BY <2>1, <2>2, <2>3
  <1>9. ShownOnce' /\ PlacedNow'
    BY <1>7, <1>8 DEF ShownOnce, PlacedNow
  <1>10. QED
    BY <1>3, <1>4, <1>5, <1>6, <1>9
--------------------------------------------------------------------------------
LEMMA InitIInv == Init => IInv
  <1> SUFFICES ASSUME Init PROVE IInv
    OBVIOUS
  <1>1. TypeOK
    <2>1. tiles \in [Keys -> Tile] /\ loading \in [Keys -> Nat]
      BY DEF Init, Tile, Pending, Absent
    <2>2. shown \subseteq Mesh /\ IsFiniteSet(shown)
      BY FS_EmptySet DEF Init
    <2>3. Keys \subseteq Int /\ NoMarker \in Int
      BY WidthAssumption DEF Keys, NoMarker
    <2>4. origin \in Origins /\ target \in Int /\ pos \in [Drones -> Int]
      <3>1. origin \in Origins /\ target = origin
            /\ pos = [d \in Drones |-> NoMarker]
        BY DEF Init
      <3>2. origin \in Int
        BY <3>1, <2>3, PlaceAssumption
      <3>3. QED
        BY <3>1, <3>2, <2>3
    <2>5. homeG \in Nat \cup {NoHeight} /\ raced \subseteq Keys
          /\ rebased \in BOOLEAN
      BY DEF Init
    <2>6. moves \in 0 .. MaxMoves
      BY WidthAssumption DEF Init
    <2>7. QED
      BY <2>1, <2>2, <2>4, <2>5, <2>6 DEF TypeOK
  <1>2. LoadsOnce
    BY DEF Init, LoadsOnce, Pending, Absent
  <1>3. Distinct /\ PlacedNow /\ FirstOrigin
    BY DEF Init, Distinct, PlacedNow, FirstOrigin
  <1>4. ShownOnce
    BY DEF Init, ShownOnce, Pending, Absent
  <1>5. QED
    BY <1>1, <1>2, <1>3, <1>4 DEF IInv

\* The fetch of a tile ends well.
LEMMA LoadedStep ==
    ASSUME IInv, NEW k \in Keys, Loaded(k)
    PROVE  IInv'
  <1> DEFINE new == [n |-> Fresh, key |-> k, frame |-> origin]
  <1>1. Fresh \in Nat \ {0} /\ \A m \in shown : m.n # Fresh
    BY FreshIsNew DEF IInv, TypeOK, Fresh
  <1>2. /\ loading[k] > 0 /\ loading' = [loading EXCEPT ![k] = @ - 1]
        /\ tiles' = [tiles EXCEPT ![k] = Ready(Fresh)]
        /\ shown' = shown \cup {new}
        /\ UNCHANGED <<origin, target, homeG, pos, raced, rebased, moves>>
    BY DEF Loaded
  <1>3. TypeOK'
    <2>1. new \in Mesh
      BY <1>1 DEF Mesh, IInv, TypeOK
    <2>2. shown' \subseteq Mesh /\ IsFiniteSet(shown')
      BY <2>1, <1>2, FS_AddElement DEF IInv, TypeOK
    <2>3. Ready(Fresh) \in Tile
      BY <1>1 DEF Ready, Tile
    <2>4. tiles' \in [Keys -> Tile] /\ loading' \in [Keys -> Nat]
      BY <2>3, <1>2 DEF IInv, TypeOK
    <2>5. QED
      BY <2>2, <2>4, <1>2 DEF IInv, TypeOK
  <1>4. LoadsOnce'
    BY <1>2 DEF IInv, TypeOK, LoadsOnce, Ready
  <1>5. Distinct'
    BY <1>1, <1>2 DEF IInv, Distinct
  <1>6. k \in raced \/ \A m \in shown : m.key # k
    <2> SUFFICES ASSUME k \notin raced, NEW m \in shown, m.key = k PROVE FALSE
      OBVIOUS
    <2>1. tiles[k] = Ready(m.n)
      BY DEF IInv, ShownOnce
    <2>2. loading[k] = 0
      BY <2>1 DEF IInv, LoadsOnce, Ready
    <2>3. QED
      BY <2>2, <1>2
  <1>7. ShownOnce'
    <2>1. ASSUME NEW m \in shown'
          PROVE  m.key \in raced' \/ tiles'[m.key] = Ready(m.n)
      BY <2>1, <1>2, <1>6 DEF IInv, TypeOK, ShownOnce
    <2>2. ASSUME NEW j \in Keys, tiles'[j].state = "ok"
          PROVE  \E m \in shown' : m.key = j /\ tiles'[j] = Ready(m.n)
      <3>1. CASE j = k
        <4>1. new \in shown' /\ new.key = j /\ new.n = Fresh
          BY <3>1, <1>2
        <4>2. tiles'[j] = Ready(new.n)
          BY <3>1, <4>1, <1>2 DEF IInv, TypeOK
        <4>3. QED
          BY <4>1, <4>2
      <3>2. CASE j # k
        BY <2>2, <3>2, <1>2 DEF IInv, TypeOK, ShownOnce
      <3>3. QED
        BY <3>1, <3>2
    <2>3. QED
      BY <2>1, <2>2 DEF ShownOnce
  <1>8. PlacedNow'
    <2> SUFFICES ASSUME NEW m \in shown', tiles'[m.key] = Ready(m.n)
                 PROVE  m.frame = origin'
      BY DEF PlacedNow
    <2>1. CASE m = new
      BY <2>1, <1>2
    <2>2. CASE m # new
      <3>1. m \in shown /\ m.n # Fresh
        BY <2>2, <1>1, <1>2
      <3>2. m.key # k
        BY <3>1, <1>2 DEF IInv, TypeOK, Ready
      <3>3. QED
        BY <3>1, <3>2, <1>2 DEF IInv, TypeOK, PlacedNow, Mesh
    <2>3. QED
      BY <2>1, <2>2
  <1>9. FirstOrigin'
    BY <1>2 DEF IInv, FirstOrigin
  <1>10. QED
    BY <1>3, <1>4, <1>5, <1>7, <1>8, <1>9 DEF IInv

\* The fetch of a tile fails.
LEMMA LoadFailedStep ==
    ASSUME IInv, NEW k \in Keys, LoadFailed(k)
    PROVE  IInv'
  <1>1. /\ loading[k] > 0 /\ loading' = [loading EXCEPT ![k] = @ - 1]
        /\ tiles' = [tiles EXCEPT ![k] = Failed]
        /\ UNCHANGED <<shown, origin, target, homeG, pos, raced, rebased, moves>>
    BY DEF LoadFailed
  <1>2. TypeOK'
    BY <1>1 DEF IInv, TypeOK, Failed, Tile
  <1>3. LoadsOnce'
    BY <1>1 DEF IInv, TypeOK, LoadsOnce, Failed
  <1>4. Distinct' /\ FirstOrigin'
    BY <1>1 DEF IInv, Distinct, FirstOrigin
  <1>5. k \in raced \/ \A m \in shown : m.key # k
    <2> SUFFICES ASSUME k \notin raced, NEW m \in shown, m.key = k PROVE FALSE
      OBVIOUS
    <2>1. tiles[k] = Ready(m.n)
      BY DEF IInv, ShownOnce
    <2>2. loading[k] = 0
      BY <2>1 DEF IInv, LoadsOnce, Ready
    <2>3. QED
      BY <2>2, <1>1
  <1>6. ShownOnce'
    <2>1. ASSUME NEW m \in shown'
          PROVE  m.key \in raced' \/ tiles'[m.key] = Ready(m.n)
      BY <2>1, <1>1, <1>5 DEF IInv, TypeOK, ShownOnce
    <2>2. ASSUME NEW j \in Keys, tiles'[j].state = "ok"
          PROVE  \E m \in shown' : m.key = j /\ tiles'[j] = Ready(m.n)
      <3>1. j # k
        BY <2>2, <1>1 DEF IInv, TypeOK, Failed
      <3>2. QED
        BY <2>2, <3>1, <1>1 DEF IInv, TypeOK, ShownOnce
    <2>3. QED
      BY <2>1, <2>2 DEF ShownOnce
  <1>7. PlacedNow'
    BY <1>1 DEF IInv, TypeOK, PlacedNow, Failed, Ready, Mesh
  <1>8. QED
    BY <1>2, <1>3, <1>4, <1>6, <1>7 DEF IInv

\* A refresh of the window, wherever the camera looks.
LEMMA WindowStep ==
    ASSUME IInv, NEW c \in Int, EnsureAround(c), target' = c,
           moves' \in 0 .. MaxMoves, UNCHANGED <<origin, homeG, pos, rebased>>
    PROVE  IInv'
  <1>1. /\ tiles' \in [Keys -> Tile] /\ loading' \in [Keys -> Nat]
        /\ shown' \subseteq shown /\ IsFiniteSet(shown')
        /\ raced \subseteq raced' /\ raced' \subseteq Keys
        /\ LoadsOnce' /\ Distinct' /\ ShownOnce' /\ PlacedNow'
    BY EnsureStep
  <1>2. TypeOK'
    BY <1>1 DEF IInv, TypeOK
  <1>3. FirstOrigin'
    BY <1>1 DEF IInv, FirstOrigin
  <1>4. QED
    BY <1>1, <1>2, <1>3 DEF IInv

\* The scene is centred anew: no record keeps its mesh.
LEMMA SetOriginStep ==
    ASSUME IInv, NEW c \in Origins, SetOrigin(c)
    PROVE  IInv'
  <1> DEFINE want == Window(c)
  <1>1. /\ DropTiles(Keys) /\ BuildTiles(want, {}) /\ want \subseteq Keys
        /\ moves < MaxMoves /\ moves' = moves + 1
        /\ tiles' = [k \in Keys |-> IF k \in want THEN Pending ELSE Absent]
        /\ origin' = c /\ target' = c /\ rebased' = TRUE
        /\ UNCHANGED <<homeG, pos>>
    BY DEF SetOrigin, Window
  <1> HIDE DEF want
  <1>2. /\ loading' \in [Keys -> Nat] /\ raced' \subseteq Keys
        /\ shown' \subseteq shown /\ IsFiniteSet(shown')
    BY <1>1, WindowTyped DEF IInv
  <1>3. tiles' \in [Keys -> Tile]
    BY <1>1 DEF Pending, Absent, Tile
  <1>4. TypeOK'
    BY <1>1, <1>2, <1>3, WidthAssumption, PlaceAssumption
       DEF IInv, TypeOK, Keys
  <1>5. LoadsOnce'
    <2> SUFFICES ASSUME NEW k \in Keys, k \notin raced'
                 PROVE  /\ loading'[k] \in {0, 1}
                        /\ tiles'[k].state \in {"ok", "failed"} => loading'[k] = 0
      BY DEF LoadsOnce
    <2>1. k \notin raced /\ loading[k] \in {0, 1} /\ loading[k] \in Nat
      BY <1>1 DEF IInv, LoadsOnce, TypeOK, BuildTiles
    <2>2. loading'[k] \in {0, 1}
      BY <2>1, <1>1 DEF BuildTiles
    <2>3. tiles'[k].state \notin {"ok", "failed"}
      BY <1>1 DEF Pending, Absent
    <2>4. QED
      BY <2>2, <2>3
  <1>6. Distinct' /\ FirstOrigin'
    BY <1>1, <1>2 DEF IInv, Distinct, FirstOrigin
  <1>7. \A m \in shown' : m.key \in raced'
    BY <1>1, <1>2 DEF IInv, TypeOK, ShownOnce, DropTiles, MeshesOf, BuildTiles, Mesh
  <1>8. ShownOnce'
    BY <1>7, <1>1 DEF ShownOnce, Pending, Absent
  <1>9. PlacedNow'
    BY <1>1, <1>2 DEF IInv, TypeOK, PlacedNow, Ready, Pending, Absent, Mesh
  <1>10. QED
    BY <1>4, <1>5, <1>6, <1>8, <1>9 DEF IInv

\* Telemetry moves markers and may read the ground at home.
LEMMA SetDronesStep ==
    ASSUME IInv, NEW S \in SUBSET Drones, NEW at \in [S -> Fixes], SetDrones(at)
    PROVE  IInv'
  <1>1. UNCHANGED <<tiles, loading, shown, origin, target, raced, rebased, moves>>
    BY DEF SetDrones
  <1>2. pos' \in [Drones -> Int]
    <2>1. Keys \subseteq Int /\ NoMarker \in Int
      BY WidthAssumption DEF Keys, NoMarker
    <2>2. origin \in Int /\ \A d \in S : at[d] \in Int
      BY <2>1, PlaceAssumption DEF IInv, TypeOK
    <2>3. \A d \in Drones :
             (IF d \in DOMAIN at THEN at[d] - origin ELSE NoMarker) \in Int
      BY <2>1, <2>2
    <2>4. QED
      BY <2>3 DEF SetDrones
  <1>3. CASE homeG' = homeG
    BY <1>1, <1>2, <1>3 DEF IInv, TypeOK, LoadsOnce, Distinct, ShownOnce,
       PlacedNow, FirstOrigin
  <1>4. CASE homeG = NoHeight /\ homeG' \in Sample(0)
    <2>1. CASE homeG' = NoHeight
      BY <2>1, <1>4, <1>3
    <2>2. CASE \E m \in shown : m.key - m.frame = 0 /\ homeG' = Dem[m.key]
      <3>1. PICK m \in shown : m.key - m.frame = 0 /\ homeG' = Dem[m.key]
        BY <2>2
      <3>2. m.key \in Keys /\ m.frame \in Keys
        BY PlaceAssumption DEF IInv, TypeOK, Mesh
      <3>3. m.frame = m.key
        BY <3>1, <3>2 DEF Keys
      <3>4. homeG' \in Nat
        BY <3>1, <3>2, DemAssumption
      <3>5. TypeOK'
        BY <1>1, <1>2, <3>4 DEF IInv, TypeOK
      <3>6. FirstOrigin'
        BY <1>1, <3>1, <3>3 DEF IInv, FirstOrigin
      <3>7. QED
        BY <3>5, <3>6, <1>1 DEF IInv, LoadsOnce, Distinct, ShownOnce, PlacedNow
    <2>3. QED
      BY <2>1, <2>2, <1>4 DEF Sample
  <1>5. QED
    BY <1>3, <1>4 DEF SetDrones

LEMMA StepIInv == IInv /\ [Next]_vars => IInv'
  <1> SUFFICES ASSUME IInv, [Next]_vars PROVE IInv'
    OBVIOUS
  <1>1. CASE Refresh
    BY <1>1, WindowStep DEF Refresh, IInv, TypeOK
  <1>2. ASSUME NEW k \in Keys, Loaded(k) \/ LoadFailed(k) PROVE IInv'
    BY <1>2, LoadedStep, LoadFailedStep
  <1>3. ASSUME NEW c \in Views, Pan(c) PROVE IInv'
    <2>1. TypeOK'
      BY <1>3, PlaceAssumption, WidthAssumption DEF Pan, IInv, TypeOK, Keys
    <2>2. QED
      BY <2>1, <1>3 DEF Pan, IInv, LoadsOnce, Distinct, ShownOnce, PlacedNow,
         FirstOrigin
  <1>4. ASSUME NEW d \in Drones, FocusDrone(d) PROVE IInv'
    <2>1. pos[d] + origin \in Int
      BY PlaceAssumption DEF IInv, TypeOK, Keys
    <2>2. moves' \in 0 .. MaxMoves
      BY <1>4, WidthAssumption DEF FocusDrone, Focus, IInv, TypeOK
    <2>3. QED
      BY <1>4, <2>1, <2>2, WindowStep DEF FocusDrone, Focus
  <1>5. ASSUME NEW c \in Origins, SetOrigin(c) PROVE IInv'
    BY <1>5, SetOriginStep
  <1>6. ASSUME NEW S \in SUBSET Drones, NEW at \in [S -> Fixes], SetDrones(at)
        PROVE  IInv'
    BY <1>6, SetDronesStep
  <1>7. CASE UNCHANGED vars
    BY <1>7 DEF vars, IInv, TypeOK, LoadsOnce, Distinct, ShownOnce, PlacedNow,
       FirstOrigin
  <1>8. QED
    BY <1>1, <1>2, <1>3, <1>4, <1>5, <1>6, <1>7 DEF Next

LEMMA Invariance == Spec => []IInv
  BY InitIInv, StepIInv, PTL DEF Spec
--------------------------------------------------------------------------------
\* The variables of the terrain keep their types.
THEOREM TypeCorrect == Spec => []TypeOK
  <1>1. IInv => TypeOK
    BY DEF IInv
  <1>2. QED
    BY Invariance, <1>1, PTL

\* Every ok tile is on screen once; only the tiles of the double fetch leave a
\* mesh behind (buildTile, dropTile).
THEOREM ScreenMatchesRecords == Spec => []ShownOnce
  <1>1. IInv => ShownOnce
    BY DEF IInv
  <1>2. QED
    BY Invariance, <1>1, PTL

\* A click on ground outside that race flies to the place it shows (pick).
THEOREM ClicksAreHonest == Spec => []ClickGoesWhereShown
  <1>1. IInv => ClickGoesWhereShown
    BY DEF IInv, ShownOnce, PlacedNow, ClickGoesWhereShown
  <1>2. QED
    BY Invariance, <1>1, PTL

\* Until the scene is centred anew, the ground at home is the origin's, or not
\* known yet (homeGroundM).
THEOREM HomeGroundTrue == Spec => []HomeGroundHonest
  <1>1. IInv => HomeGroundHonest
    BY DEF IInv, FirstOrigin, HomeGroundHonest
  <1>2. QED
    BY Invariance, <1>1, PTL
================================================================================
