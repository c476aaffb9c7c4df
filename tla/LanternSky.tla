------------------------------ MODULE LanternSky ------------------------------
(***************************************************************************)
(* The lanterns in the sky: ALanternActor's NeighborArray, kept by the     *)
(* overlap callbacks of its mesh and read by Tick to push it away from the *)
(* lanterns it touches; ALanternManager, which spawns, removes and loads   *)
(* lanterns; and ULanternSaveGame, which keeps a sky from one session to   *)
(* the next.                                                               *)
(*                                                                         *)
(* Everything runs on the game thread, but not one handler after the       *)
(* other: each move inside Tick has the engine call the overlap callbacks  *)
(* of both lanterns before it returns.  Moved is one such move.            *)
(*                                                                         *)
(* Places are cells of a small grid; x is the direction in which lanterns  *)
(* rise away from their base, y the side.  Lanterns touch in the same or   *)
(* in the next cell along x.  How far a step goes is left open.  A lantern *)
(* whose location is not a number overlaps nothing, nor does one that does *)
(* not exist.  NeighborArray is a set: that Load may enter a neighbour     *)
(* twice only weighs in the separation.                                    *)
(*                                                                         *)
(* A session ends with a save or with a crash.  The C++ code offers        *)
(* SaveLanternArray and LoadLanternArray to a caller it does not have; the *)
(* model calls them at the end and at the start of a session.              *)
(***************************************************************************)
EXTENDS Integers, Sequences, FiniteSets

CONSTANTS
  Depth,         \* the largest x
  Width,         \* the largest y
  MaxLanterns,   \* capacity of LanternArray (500 in the code)
  MaxSpawned     \* bound: lanterns spawned or loaded, over all sessions

ASSUME GridAssumption == Depth \in Nat /\ Width \in Nat
ASSUME CapacityAssumption == MaxLanterns \in Nat \ {0}
ASSUME SpawnedAssumption == MaxSpawned \in Nat

VARIABLES
  spawned,           \* lanterns made so far; they are numbered in that order
  LanternArray,
  location,          \* of each lantern
  NeighborArray,     \* of each lantern
  level,             \* history: of each lantern, those it met at its own x
  loaded,            \* history: this sky, or one before, was loaded
  LanternDataArray,  \* of the save game: [location, overlapped] of each lantern
  saved,             \* history: the sky when it was saved
  running            \* a session

sky  == <<LanternArray, location, NeighborArray, level>>
vars == <<spawned, sky, loaded, LanternDataArray, saved, running>>

Lantern == 1 .. MaxSpawned
Place   == [x: 0 .. Depth, y: 0 .. Width]

\* Where a lantern is whose location is not a number, or that does not exist.
Nowhere == [x |-> -1, y |-> -1]

SpawnLocation == [x |-> 0, y |-> 0]
\* GetActorLocation of the manager, where a loaded lantern is spawned.
ManagerLocation == [x |-> 0, y |-> 0]

Alive == {LanternArray[i] : i \in 1 .. Len(LanternArray)}

Touching(p, q) == p # Nowhere /\ q # Nowhere /\ p.y = q.y /\ p.x - q.x \in -1 .. 1

EmptySky == [location      |-> [l \in Lantern |-> Nowhere],
             NeighborArray |-> [l \in Lantern |-> {}],
             level         |-> [l \in Lantern |-> {}]]

TypeOK ==
  /\ spawned \in 0 .. MaxSpawned
  /\ LanternArray \in Seq(1 .. spawned)
  /\ location \in [Lantern -> Place \cup {Nowhere}]
  /\ NeighborArray \in [Lantern -> SUBSET Lantern]
  /\ level \in [Lantern -> SUBSET Lantern]
  /\ loaded \in BOOLEAN
  /\ LanternDataArray \in
       Seq([location: Place \cup {Nowhere}, overlapped: SUBSET Nat])
  /\ saved \in [location: Seq(Place \cup {Nowhere}), pushes: SUBSET (Nat \X Nat)]
  /\ running \in BOOLEAN

Init ==
  /\ spawned = 0
  /\ LanternArray = <<>>
  /\ location = EmptySky.location
  /\ NeighborArray = EmptySky.NeighborArray
  /\ level = EmptySky.level
  /\ loaded = FALSE
  /\ LanternDataArray = <<>>
  /\ saved = [location |-> <<>>, pushes |-> {}]
  /\ running = FALSE

-----------------------------------------------------------------------------
(* ALanternActor *)

CurrentSky == [location |-> location, NeighborArray |-> NeighborArray,
               level |-> level]

SkyBecomes(s) ==
  /\ location' = s.location
  /\ NeighborArray' = s.NeighborArray
  /\ level' = s.level

\* Variant: whoever is touched is added.
OnLanternMeshBeginOverlapAny(at, l, others) == others

\* OnLanternMeshBeginOverlap: of the others that l has come to touch, those
\* with a smaller x are added.
OnLanternMeshBeginOverlap(at, l, others) == {o \in others : at[o].x < at[l].x}

\* Variant: only those with a smaller x are taken out.
OnLanternMeshEndOverlapBehind(at, l, others) == {o \in others : at[o].x < at[l].x}

\* OnLanternMeshEndOverlap: whoever l has ceased to touch is taken out.
OnLanternMeshEndOverlap(at, l, others) == others

\* The sky after lanterns have moved to at: for every two lanterns whose
\* overlap began or ended the engine calls the callback of each.
Moved(s, at) ==
  LET Touch(f, a) == {b \in Lantern \ {a} : Touching(f[a], f[b])}
      Began(a) == Touch(at, a) \ Touch(s.location, a)
      Ended(a) == Touch(s.location, a) \ Touch(at, a)
  IN [location |-> at,
      NeighborArray |->
        [a \in Lantern |->
           (s.NeighborArray[a] \ OnLanternMeshEndOverlap(at, a, Ended(a)))
             \cup OnLanternMeshBeginOverlap(at, a, Began(a))],
      level |->
        [a \in Lantern |->
           (s.level[a] \ Ended(a)) \cup {b \in Began(a) : at[b].x = at[a].x}]]

\* One lantern moves: is spawned, pushed, or destroyed.
MovedTo(s, l, p) == Moved(s, [s.location EXCEPT ![l] = p])

\* GetSeparation is a number: there is somebody left to divide by, and nobody
\* at the very same place.
SeparationIsNumber(s, l) ==
  /\ s.NeighborArray[l] # {}
  /\ \A n \in s.NeighborArray[l] : s.location[n] # s.location[l]

\* AddActorWorldOffset along x, along y.
AlongX(p) == {q \in Place : q.y = p.y /\ q.x - p.x \in -1 .. 1}
AlongY(p) == {q \in Place : q.x = p.x /\ q.y - p.y \in -1 .. 1}

\* Tick of a lantern: back and sideways by its own direction, then away from
\* its neighbours.  NeighborCount is read at the start; the moves before
\* GetSeparation may have ended the overlaps it counted.
Tick(l) ==
  /\ running /\ l \in Alive /\ location[l] # Nowhere
  /\ \E p \in {q \in AlongX(location[l]) : q.x >= location[l].x} :
     \E q \in AlongY(p) :
       LET s == MovedTo(MovedTo(CurrentSky, l, p), l, q) IN
       IF NeighborArray[l] = {}
       THEN SkyBecomes(s)
       ELSE IF SeparationIsNumber(s, l)
       THEN \E r \in AlongX(q) : \E t \in AlongY(r) :
              SkyBecomes(MovedTo(MovedTo(s, l, r), l, t))
       ELSE SkyBecomes(MovedTo(s, l, Nowhere))
  /\ UNCHANGED <<spawned, LanternArray, loaded, LanternDataArray, saved, running>>

-----------------------------------------------------------------------------
(* ALanternManager *)

\* Variant: the oldest goes when the array is larger than its capacity.
SpawnLanternPastCapacity ==
  /\ running
  /\ spawned < MaxSpawned
  /\ spawned' = spawned + 1
  /\ LET s == MovedTo(CurrentSky, spawned + 1, SpawnLocation) IN
     IF Len(LanternArray) > MaxLanterns
     THEN /\ SkyBecomes(MovedTo(s, LanternArray[1], Nowhere))
          /\ LanternArray' = Append(Tail(LanternArray), spawned + 1)
     ELSE /\ SkyBecomes(s)
          /\ LanternArray' = Append(LanternArray, spawned + 1)
  /\ UNCHANGED <<loaded, LanternDataArray, saved, running>>

\* SpawnLantern: the new lantern is there, and touches others, before the
\* oldest is destroyed.
SpawnLantern ==
  /\ running
  /\ spawned < MaxSpawned
  /\ spawned' = spawned + 1
  /\ LET s == MovedTo(CurrentSky, spawned + 1, SpawnLocation) IN
     IF Len(LanternArray) = MaxLanterns
     THEN /\ SkyBecomes(MovedTo(s, LanternArray[1], Nowhere))
          /\ LanternArray' = Append(Tail(LanternArray), spawned + 1)
     ELSE /\ SkyBecomes(s)
          /\ LanternArray' = Append(LanternArray, spawned + 1)
  /\ UNCHANGED <<loaded, LanternDataArray, saved, running>>

\* RemoveAllLantern: every lantern of LanternArray is destroyed.
RemoveAllLantern ==
  /\ running
  /\ SkyBecomes(Moved(CurrentSky, [l \in Lantern |->
                        IF l \in Alive THEN Nowhere ELSE location[l]]))
  /\ LanternArray' = <<>>
  /\ UNCHANGED <<spawned, loaded, LanternDataArray, saved, running>>

\* AddNeighborLantern for every saved index; first is the lantern of index 1.
AddNeighborLantern(first, indices) == {first - 1 + k : k \in indices}

\* LoadLantern: the lanterns are spawned one after the other at the manager's
\* place and moved to their own.  Whom of two lanterns the other pushes is
\* decided where their overlap begins, and when b is spawned that may already
\* be the manager's place.  Then the neighbours that were saved are added.
LoadLantern(data) ==
  LET n     == Len(data)
      New   == spawned + 1 .. spawned + n
      At(l) == data[l - spawned].location
      MetAtX(a, b) == IF Touching(ManagerLocation, At(a)) THEN ManagerLocation.x
                                                          ELSE At(b).x
      Behind(o, l) == /\ o # l /\ Touching(At(o), At(l))
                      /\ IF o < l THEN At(o).x < MetAtX(o, l)
                                  ELSE MetAtX(l, o) < At(l).x
  IN /\ spawned' = spawned + n
     /\ LanternArray' = [i \in 1 .. n |-> spawned + i]
     /\ location' = [l \in Lantern |-> IF l \in New THEN At(l) ELSE location[l]]
     /\ NeighborArray' =
          [l \in Lantern |->
             IF l \in New
             THEN {o \in New : Behind(o, l)}
                    \cup AddNeighborLantern(spawned + 1, data[l - spawned].overlapped)
             ELSE NeighborArray[l]]
     /\ UNCHANGED level

-----------------------------------------------------------------------------
(* ULanternSaveGame, and the sessions *)

\* Variant: a lantern is saved under its number.
SetLanternArrayIndexByNumber(l) == l

\* SetLanternArrayIndex: the place of l in LanternArray.
SetLanternArrayIndex(l) == CHOOSE i \in 1 .. Len(LanternArray) : LanternArray[i] = l

\* SaveLanternArray: every lantern with the indices of its neighbours.
SaveLanternArray ==
  [i \in 1 .. Len(LanternArray) |->
     [location   |-> location[LanternArray[i]],
      overlapped |-> {SetLanternArrayIndex(n) : n \in NeighborArray[LanternArray[i]]}]]

NothingSaved == [location |-> <<>>, pushes |-> {}]

\* A session starts: the save game is loaded, and is empty from then on, in
\* memory and on disk.
StartSession ==
  /\ ~running
  /\ running' = TRUE
  /\ spawned + Len(LanternDataArray) <= MaxSpawned
  /\ LoadLantern(LanternDataArray)
  /\ LanternDataArray' = <<>>
  /\ loaded' = (LanternDataArray # <<>>)
  /\ saved' = NothingSaved

\* A session ends with a save.
EndSession ==
  /\ running
  /\ running' = FALSE
  /\ LanternDataArray' = LanternDataArray \o SaveLanternArray
  /\ saved' = [location |-> [i \in 1 .. Len(LanternArray) |-> location[LanternArray[i]]],
               pushes |-> {p \in (1 .. Len(LanternArray)) \X (1 .. Len(LanternArray)) :
                             LanternArray[p[2]] \in NeighborArray[LanternArray[p[1]]]}]
  /\ SkyBecomes(EmptySky)
  /\ LanternArray' = <<>>
  /\ UNCHANGED <<spawned, loaded>>

\* A session ends without one.
Crash ==
  /\ running
  /\ running' = FALSE
  /\ SkyBecomes(EmptySky)
  /\ LanternArray' = <<>>
  /\ UNCHANGED <<spawned, loaded, LanternDataArray, saved>>

Next ==
  \/ \E l \in Lantern : Tick(l)
  \/ SpawnLantern
  \/ RemoveAllLantern
  \/ StartSession
  \/ EndSession
  \/ Crash

Spec == Init /\ [][Next]_vars

-----------------------------------------------------------------------------
(* Properties *)

\* The sky never holds more lanterns than the array may, though the capacity is
\* compared with == and a loaded sky fills the array without asking; and every
\* lantern in the sky is in the array, so that RemoveAllLantern leaves none.
SkyListed ==
  /\ Len(LanternArray) <= MaxLanterns
  /\ \A l \in Lantern : location[l] # Nowhere => l \in Alive

\* Every neighbour a lantern is pushed by exists and is touched: no overlap,
\* destruction or loading leaves a lantern in NeighborArray that is gone or far
\* away, although only overlap callbacks ever take one out.
NeighborsTouch ==
  \A l \in Alive : \A n \in NeighborArray[l] :
    n \in Alive /\ n # l /\ Touching(location[n], location[l])

\* Of two lanterns that touch exactly one is pushed, however they have moved
\* since they met, unless they met at the same x: then neither ever is.  Of a
\* loaded sky this is not so: both may be pushed.
ExactlyOne(p, q, r) == (p \/ q \/ r) /\ ~(p /\ q) /\ ~(p /\ r) /\ ~(q /\ r)
PairsSettled ==
  ~loaded =>
    \A a, b \in Alive :
      a # b /\ Touching(location[a], location[b]) =>
        ExactlyOne(a \in NeighborArray[b], b \in NeighborArray[a], a \in level[b])

\* What is loaded is what was saved: as many lanterns, each at its place and
\* pushed by those that pushed it; what else pushes it touches it.
LoadedAsSaved ==
  [][~running /\ running' =>
       /\ Len(LanternArray') = Len(saved.location)
       /\ \A i \in 1 .. Len(saved.location) :
            /\ location'[LanternArray'[i]] = saved.location[i]
            /\ \A j \in 1 .. Len(saved.location) :
                 <<i, j>> \in saved.pushes =>
                   LanternArray'[j] \in NeighborArray'[LanternArray'[i]]]_vars

=============================================================================
