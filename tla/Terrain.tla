-------------------------------- MODULE Terrain --------------------------------
(***************************************************************************)
(* The streamed ground of the 3D map (frontend assets/map3d/terrain.js).   *)
(* Tiles around the point the camera looks at are fetched one by one; a    *)
(* fetch ends whenever the network lets it, while the camera, the scene's  *)
(* origin and the set of wanted tiles go on changing.  A click on the      *)
(* ground is a GOTO, and the height of a drone is drawn from the ground at *)
(* the origin, so what is on screen must be what the coordinates say.      *)
(*                                                                         *)
(* The tile grid is a row: only which tiles a window holds matters, not    *)
(* its shape.  A place is a column, a scene coordinate is a column         *)
(* relative to the origin.  Imagery, meshes, markers' looks, exaggeration, *)
(* trails, targets and the other overlays are drawing and left out, as are *)
(* the counters shown on the HUD and the scale of Web Mercator.            *)
(***************************************************************************)
EXTENDS Integers, FiniteSets

CONSTANTS
    Width,    \* tiles 0 .. Width - 1 exist (2 ** ZOOM per axis)
    Radius,   \* opts.radius: tiles wanted on each side of the view
    Dem,      \* Dem[k]: the height of tile k
    Origins,  \* places the scene is centred on
    Views,    \* places the operator drags the view to
    Fixes,    \* places drones report
    Drones,   \* drones with a marker
    MaxMoves  \* bound on the moves of the view in a behaviour

VARIABLES
    tiles,    \* key -> record of the tile, its mesh 0 unless it is "ok"
    loading,  \* key -> fetches of its height image in flight
    shown,    \* terrainGroup.children and heightLookup
    origin,   \* the origin of scene coordinates
    target,   \* the place controls.target looks at
    homeG,    \* _homeG, NoHeight for null
    pos,      \* markers: the scene coordinate of each drone, NoMarker without
    raced,    \* history: tiles fetched again before their first fetch ended
    rebased,  \* history: setOrigin was called
    moves     \* bound: moves of the view so far

vars == <<tiles, loading, shown, origin, target, homeG, pos, raced, rebased,
          moves>>

Keys == 0 .. Width - 1
NoHeight == -1
NoMarker == Width  \* no scene coordinate is that large

ASSUME WidthAssumption == Width \in Nat /\ Radius \in Nat /\ MaxMoves \in Nat
ASSUME DemAssumption == Dem \in [Keys -> Nat]
ASSUME PlaceAssumption ==
    /\ Origins \subseteq Keys /\ Origins # {}
    /\ Views \subseteq Keys /\ Fixes \subseteq Keys
--------------------------------------------------------------------------------
Absent == [state |-> "absent", mesh |-> 0]
Pending == [state |-> "pending", mesh |-> 0]
Failed == [state |-> "failed", mesh |-> 0]
Ready(n) == [state |-> "ok", mesh |-> n]

Tile == [state : {"absent", "pending", "failed", "ok"}, mesh : Nat]
\* frame: the origin mercToLocal used when the mesh was placed
Mesh == [n : Nat, key : Keys, frame : Origins]

TypeOK ==
    /\ tiles \in [Keys -> Tile]
    /\ loading \in [Keys -> Nat]
    /\ shown \subseteq Mesh /\ IsFiniteSet(shown)
    /\ origin \in Origins
    /\ target \in Int
    /\ homeG \in Nat \cup {NoHeight}
    /\ pos \in [Drones -> Int]
    /\ raced \subseteq Keys
    /\ rebased \in BOOLEAN
    /\ moves \in 0 .. MaxMoves

Window(c) == (c - Radius .. c + Radius) \cap Keys

\* An identity no mesh on screen has.
Fresh == CHOOSE n \in 1 .. Cardinality(shown) + 1 : \A m \in shown : m.n # n

\* The meshes of the records of the tiles ks.
MeshesOf(ks) ==
    {m \in shown : m.key \in ks /\ tiles[m.key] = Ready(m.n)}

\* Deviation: sampleHeight answers 0 where no tile is loaded yet.
SampleOrZero(x) ==
    LET over == {m \in shown : m.key - m.frame = x}
    IN  IF over = {} THEN {0} ELSE {Dem[m.key] : m \in over}

\* The heights sampleHeight may return at a scene coordinate.
Sample(x) ==
    LET over == {m \in shown : m.key - m.frame = x}
    IN  IF over = {} THEN {NoHeight} ELSE {Dem[m.key] : m \in over}
--------------------------------------------------------------------------------
\* Deviation: buildTile does not look whether the tile is there.
BuildTilesAgain(ks, known) ==
    /\ loading' = [k \in Keys |-> IF k \in ks THEN loading[k] + 1 ELSE loading[k]]
    /\ raced' = raced \cup {k \in ks \ known : loading[k] > 0}

\* Fetch the tiles of ks that known does not hold.  buildTile runs up to its
\* first await with its caller.
BuildTiles(ks, known) ==
    LET missing == ks \ known
    IN  /\ loading' = [k \in Keys |->
                          IF k \in missing THEN loading[k] + 1 ELSE loading[k]]
        /\ raced' = raced \cup {k \in missing : loading[k] > 0}

\* dropTile takes the mesh of a record off the screen; a record that still
\* waits for its fetch has none, and the fetch is not called off.
DropTiles(ks) == shown' = shown \ MeshesOf(ks)

EnsureAround(c) ==
    LET known == {k \in Keys : tiles[k] # Absent}
        want == Window(c)
    IN  /\ BuildTiles(want, known)
        /\ DropTiles(known \ want)
        /\ tiles' = [k \in Keys |-> IF k \notin want THEN Absent
                                    ELSE IF k \in known THEN tiles[k]
                                    ELSE Pending]

\* loop, every 500 ms
Refresh ==
    /\ EnsureAround(target)
    /\ UNCHANGED <<origin, target, homeG, pos, rebased, moves>>

\* The height image arrived: the mesh is placed with the origin of this
\* moment, whether or not anybody still wants the tile.
Loaded(k) ==
    /\ loading[k] > 0
    /\ loading' = [loading EXCEPT ![k] = @ - 1]
    /\ tiles' = [tiles EXCEPT ![k] = Ready(Fresh)]
    /\ shown' = shown \cup {[n |-> Fresh, key |-> k, frame |-> origin]}
    /\ UNCHANGED <<origin, target, homeG, pos, raced, rebased, moves>>

\* Deviation: no catch, a failed fetch leaves its record pending.
LoadFailedSilently(k) ==
    /\ loading[k] > 0
    /\ loading' = [loading EXCEPT ![k] = @ - 1]
    /\ UNCHANGED <<tiles, shown, origin, target, homeG, pos, raced, rebased,
                   moves>>

LoadFailed(k) ==
    /\ loading[k] > 0
    /\ loading' = [loading EXCEPT ![k] = @ - 1]
    /\ tiles' = [tiles EXCEPT ![k] = Failed]
    /\ UNCHANGED <<shown, origin, target, homeG, pos, raced, rebased, moves>>
--------------------------------------------------------------------------------
\* OrbitControls: the operator drags the view; the tiles follow with the loop.
Pan(c) ==
    /\ moves < MaxMoves
    /\ moves' = moves + 1
    /\ target' = c
    /\ UNCHANGED <<tiles, loading, shown, origin, homeG, pos, raced, rebased>>

Focus(c) ==
    /\ moves < MaxMoves
    /\ moves' = moves + 1
    /\ target' = c
    /\ EnsureAround(c)
    /\ UNCHANGED <<origin, homeG, pos, rebased>>

\* The marker's scene coordinate is read under the origin of now.
FocusDrone(d) ==
    /\ pos[d] # NoMarker
    /\ Focus(pos[d] + origin)

\* Deviation: the tiles of the old origin stay on screen.
SetOriginKeepsTiles(c) ==
    /\ moves < MaxMoves
    /\ moves' = moves + 1
    /\ EnsureAround(c)
    /\ origin' = c
    /\ target' = c
    /\ rebased' = TRUE
    /\ UNCHANGED <<homeG, pos>>

SetOrigin(c) ==
    /\ moves < MaxMoves
    /\ moves' = moves + 1
    /\ DropTiles(Keys)
    /\ BuildTiles(Window(c), {})
    /\ tiles' = [k \in Keys |-> IF k \in Window(c) THEN Pending ELSE Absent]
    /\ origin' = c
    /\ target' = c
    /\ rebased' = TRUE
    /\ UNCHANGED <<homeG, pos>>

\* Telemetry at: the drones it lists are at these places.  Every drone's
\* height asks for homeGroundM, which retries until the origin's tile is there.
SetDrones(at) ==
    /\ pos' = [d \in Drones |->
                  IF d \in DOMAIN at THEN at[d] - origin ELSE NoMarker]
    /\ homeG' \in IF DOMAIN at = {} \/ homeG # NoHeight THEN {homeG}
                  ELSE Sample(0)
    /\ UNCHANGED <<tiles, loading, shown, origin, target, raced, rebased, moves>>
--------------------------------------------------------------------------------
\* createTerrain ends with focus(origin).
Init ==
    /\ origin \in Origins
    /\ target = origin
    /\ tiles = [k \in Keys |-> IF k \in Window(origin) THEN Pending ELSE Absent]
    /\ loading = [k \in Keys |-> IF k \in Window(origin) THEN 1 ELSE 0]
    /\ shown = {}
    /\ homeG = NoHeight
    /\ pos = [d \in Drones |-> NoMarker]
    /\ raced = {}
    /\ rebased = FALSE
    /\ moves = 0

Next ==
    \/ Refresh
    \/ \E k \in Keys : Loaded(k) \/ LoadFailed(k)
    \/ \E c \in Views : Pan(c)
    \/ \E d \in Drones : FocusDrone(d)
    \/ \E c \in Origins : SetOrigin(c)
    \/ \E S \in SUBSET Drones : \E at \in [S -> Fixes] : SetDrones(at)

Spec == Init /\ [][Next]_vars

\* The frame loop goes on, and the browser ends every image load one way or
\* the other.
Fairness ==
    /\ WF_vars(Refresh)
    /\ \A k \in Keys : WF_vars(Loaded(k) \/ LoadFailed(k))

FairSpec == Spec /\ Fairness
--------------------------------------------------------------------------------
\* Memory: an "ok" tile is on screen exactly once, and nothing else is: a tile
\* that left the window is given back.  A tile fetched twice at the same time is
\* exempt: the second mesh takes over the record and the first is never freed
\* (buildTile, dropTile: "drop tiles out of the radius, or VRAM swells").
ShownOnce ==
    /\ \A m \in shown : m.key \in raced \/ tiles[m.key] = Ready(m.n)
    /\ \A k \in Keys : tiles[k].state = "ok" =>
          \E m \in shown : m.key = k /\ tiles[k] = Ready(m.n)

\* A click is turned into a GOTO with the origin of the click (pick), so all
\* ground on screen must have been placed with it; only a mesh kept by the
\* race above can show another place than the one flown to.
ClickGoesWhereShown ==
    \A m \in shown : m.frame = origin \/ m.key \in raced

\* The ground height at home, once read, is that of the origin, never the 0 of
\* a tile still loading ("do not hurry to fall back to 0", homeGroundM), for as
\* long as the scene keeps its origin.
HomeGroundHonest ==
    homeG # NoHeight /\ ~rebased => homeG = Dem[origin]

\* Once the view rests, exactly the window's tiles are kept, none of them
\* loading for ever: fetches that end late, of tiles dropped long ago, are
\* cleaned up as well.
Settles ==
    <>[](\A k \in Keys : IF k \in Window(target)
                         THEN tiles[k].state \in {"ok", "failed"}
                         ELSE tiles[k] = Absent)
================================================================================
