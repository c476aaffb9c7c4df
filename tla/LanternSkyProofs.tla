--------------------------- MODULE LanternSkyProofs ---------------------------
(***************************************************************************)
(* Theorems about LanternSky, for a grid of any size, any capacity of      *)
(* LanternArray and any number of lanterns and sessions.                   *)
(***************************************************************************)
EXTENDS LanternSky, TLAPS

-----------------------------------------------------------------------------
(* One move *)

Cell == Place \cup {Nowhere}

\* Whom a lantern touches when the lanterns are at f.
Touch(f, a) == {b \in Lantern \ {a} : Touching(f[a], f[b])}

SkyType(s) ==
  /\ s.location \in [Lantern -> Cell]
  /\ s.NeighborArray \in [Lantern -> SUBSET Lantern]
  /\ s.level \in [Lantern -> SUBSET Lantern]

\* Only lanterns that are touched are neighbours, or were met at the same x.
Near(s) ==
  \A a \in Lantern : /\ s.NeighborArray[a] \subseteq Touch(s.location, a)
                     /\ s.level[a] \subseteq Touch(s.location, a)

\* Of two lanterns that touch exactly one is pushed, or they met at the same x.
Settled(s) ==
  \A a \in Lantern : \A b \in Touch(s.location, a) :
    ExactlyOne(a \in s.NeighborArray[b], b \in s.NeighborArray[a], a \in s.level[b])

LEMMA CellType ==
  ASSUME NEW p \in Cell
  PROVE  p.x \in Int /\ p.y \in Int
BY GridAssumption DEF Cell, Place, Nowhere

LEMMA PlaceNotNowhere ==
  ASSUME NEW p \in Place
  PROVE  p # Nowhere /\ p \in Cell
<1>1. p.x \in 0 .. Depth
  BY DEF Place
<1>2. Nowhere.x = -1
  BY DEF Nowhere
<1> QED BY <1>1, <1>2, GridAssumption DEF Cell

LEMMA TouchSymmetric ==
  ASSUME NEW f \in [Lantern -> Cell], NEW a \in Lantern, NEW b \in Lantern
  PROVE  b \in Touch(f, a) <=> a \in Touch(f, b)
<1>1. f[a].x \in Int /\ f[b].x \in Int /\ f[a].y \in Int /\ f[b].y \in Int
  BY CellType
<1> QED BY <1>1 DEF Touch, Touching

\* What a move makes of the sky.
LEMMA MovedFields ==
  ASSUME NEW s, SkyType(s), NEW at \in [Lantern -> Cell]
  PROVE  /\ Moved(s, at).location = at
         /\ Moved(s, at).NeighborArray \in [Lantern -> SUBSET Lantern]
         /\ Moved(s, at).level \in [Lantern -> SUBSET Lantern]
         /\ \A a, b \in Lantern :
              b \in Moved(s, at).NeighborArray[a] <=>
                \/ b \in s.NeighborArray[a]
                     /\ ~(b \in Touch(s.location, a) /\ b \notin Touch(at, a))
                \/ b \in Touch(at, a) /\ b \notin Touch(s.location, a) /\ at[b].x < at[a].x
         /\ \A a, b \in Lantern :
              b \in Moved(s, at).level[a] <=>
                \/ b \in s.level[a]
                     /\ ~(b \in Touch(s.location, a) /\ b \notin Touch(at, a))
                \/ b \in Touch(at, a) /\ b \notin Touch(s.location, a) /\ at[b].x = at[a].x
<1> DEFINE Began(a) == Touch(at, a) \ Touch(s.location, a)
           Ended(a) == Touch(s.location, a) \ Touch(at, a)
           N == [a \in Lantern |->
                   (s.NeighborArray[a] \ Ended(a)) \cup {o \in Began(a) : at[o].x < at[a].x}]
           L == [a \in Lantern |->
                   (s.level[a] \ Ended(a)) \cup {b \in Began(a) : at[b].x = at[a].x}]
<1>1. Moved(s, at) = [location |-> at, NeighborArray |-> N, level |-> L]
  BY DEF Moved, Touch, OnLanternMeshEndOverlap, OnLanternMeshBeginOverlap
<1>2. /\ Moved(s, at).location = at /\ Moved(s, at).NeighborArray = N
      /\ Moved(s, at).level = L
  BY <1>1
<1>3. \A a \in Lantern : Touch(at, a) \subseteq Lantern
  BY DEF Touch
<1>4. N \in [Lantern -> SUBSET Lantern] /\ L \in [Lantern -> SUBSET Lantern]
  BY <1>3 DEF SkyType
<1> QED BY <1>2, <1>4

\* The engine's callbacks keep both arrays right, wherever lanterns move.
LEMMA MovedKeeps ==
  ASSUME NEW s, SkyType(s), Near(s), NEW at \in [Lantern -> Cell]
  PROVE  /\ SkyType(Moved(s, at)) /\ Near(Moved(s, at))
         /\ Moved(s, at).location = at
         /\ Settled(s) => Settled(Moved(s, at))
<1> DEFINE t == Moved(s, at)
<1>1. SkyType(t) /\ t.location = at
  BY MovedFields DEF SkyType
<1>2. /\ \A a, b \in Lantern :
           b \in t.NeighborArray[a] <=>
             \/ b \in s.NeighborArray[a]
                  /\ ~(b \in Touch(s.location, a) /\ b \notin Touch(at, a))
             \/ b \in Touch(at, a) /\ b \notin Touch(s.location, a) /\ at[b].x < at[a].x
      /\ \A a, b \in Lantern :
           b \in t.level[a] <=>
             \/ b \in s.level[a]
                  /\ ~(b \in Touch(s.location, a) /\ b \notin Touch(at, a))
             \/ b \in Touch(at, a) /\ b \notin Touch(s.location, a) /\ at[b].x = at[a].x
  BY MovedFields
<1> HIDE DEF t
<1>3. \A a \in Lantern : t.NeighborArray[a] \subseteq Lantern /\ t.level[a] \subseteq Lantern
  BY <1>1 DEF SkyType
<1>4. Near(t)
  <2> SUFFICES ASSUME NEW a \in Lantern, NEW b \in Lantern,
                      b \in t.NeighborArray[a] \/ b \in t.level[a]
               PROVE  b \in Touch(at, a)
    BY <1>1, <1>3 DEF Near
  <2>1. CASE b \in t.NeighborArray[a]
    BY <1>2, <2>1 DEF Near
  <2>2. CASE b \in t.level[a]
    BY <1>2, <2>2 DEF Near
  <2> QED BY <2>1, <2>2
<1>5. ASSUME Settled(s) PROVE Settled(t)
  <2> SUFFICES ASSUME NEW a \in Lantern, NEW b \in Lantern, b \in Touch(at, a)
               PROVE  ExactlyOne(a \in t.NeighborArray[b], b \in t.NeighborArray[a],
                                 a \in t.level[b])
    BY <1>1 DEF Settled, Touch
  <2>1. a \in Touch(at, b)
    BY TouchSymmetric
  <2>2. s.location \in [Lantern -> Cell]
    BY DEF SkyType
  <2>3. b \in Touch(s.location, a) <=> a \in Touch(s.location, b)
    BY <2>2, TouchSymmetric
  <2>4. CASE b \in Touch(s.location, a)
    <3>1. /\ a \in t.NeighborArray[b] <=> a \in s.NeighborArray[b]
          /\ b \in t.NeighborArray[a] <=> b \in s.NeighborArray[a]
          /\ a \in t.level[b] <=> a \in s.level[b]
      BY <1>2, <2>1, <2>3, <2>4
    <3>2. ExactlyOne(a \in s.NeighborArray[b], b \in s.NeighborArray[a], a \in s.level[b])
      BY <1>5, <2>4 DEF Settled
    <3> QED BY <3>1, <3>2 DEF ExactlyOne
  <2>5. CASE b \notin Touch(s.location, a)
    <3>1. /\ a \notin s.NeighborArray[b] /\ b \notin s.NeighborArray[a]
          /\ a \notin s.level[b]
      BY <2>3, <2>5 DEF Near
    <3>2. /\ a \in t.NeighborArray[b] <=> at[a].x < at[b].x
          /\ b \in t.NeighborArray[a] <=> at[b].x < at[a].x
          /\ a \in t.level[b] <=> at[a].x = at[b].x
      BY <1>2, <2>1, <2>3, <2>5, <3>1
    <3>3. at[a].x \in Int /\ at[b].x \in Int
      BY CellType
    <3> QED BY <3>2, <3>3 DEF ExactlyOne
  <2> QED BY <2>4, <2>5
<1> QED BY <1>1, <1>4, <1>5 DEF t

\* A sky the callbacks have kept right since it was u.
Kept(u, s) == SkyType(s) /\ Near(s) /\ (Settled(u) => Settled(s))

\* Lantern l is put at p.
Put(f, l, p) == [f EXCEPT ![l] = p]

LEMMA MovedToKeeps ==
  ASSUME NEW u, NEW s, Kept(u, s), NEW l \in Lantern, NEW p \in Cell
  PROVE  /\ Kept(u, MovedTo(s, l, p))
         /\ MovedTo(s, l, p).location = Put(s.location, l, p)
<1>1. Put(s.location, l, p) \in [Lantern -> Cell]
  BY DEF Kept, SkyType, Put
<1> QED BY <1>1, MovedKeeps DEF Kept, MovedTo, Put


-----------------------------------------------------------------------------
(* The invariant *)

LEMMA ConstantsType == Depth \in Nat /\ Width \in Nat /\ MaxLanterns \in Nat
                         /\ MaxLanterns >= 1 /\ MaxSpawned \in Nat
BY GridAssumption, CapacityAssumption, SpawnedAssumption

\* No lantern is in the array twice.
Distinct == \A i, j \in 1 .. Len(LanternArray) :
              LanternArray[i] = LanternArray[j] => i = j

\* A sky is only there in a session, and the save game only between two.
SkyInSession == ~running => LanternArray = <<>> /\ CurrentSky = EmptySky
DataBetween  == running => LanternDataArray = <<>> /\ saved = NothingSaved

\* The indices saved are those of lanterns that touched, and the save game says
\* what the sky was like.
DataRight ==
  /\ Len(LanternDataArray) <= MaxLanterns
  /\ \A i \in 1 .. Len(LanternDataArray) : \A k \in LanternDataArray[i].overlapped :
       /\ k \in 1 .. Len(LanternDataArray) /\ k # i
       /\ Touching(LanternDataArray[k].location, LanternDataArray[i].location)
  /\ Len(saved.location) = Len(LanternDataArray)
  /\ \A i \in 1 .. Len(LanternDataArray) :
       /\ saved.location[i] = LanternDataArray[i].location
       /\ \A j \in 1 .. Len(LanternDataArray) :
            <<i, j>> \in saved.pushes => j \in LanternDataArray[i].overlapped

SkyInv ==
  /\ TypeOK
  /\ SkyListed
  /\ Distinct
  /\ SkyType(CurrentSky) /\ Near(CurrentSky) /\ (~loaded => Settled(CurrentSky))
  /\ SkyInSession
  /\ DataBetween
  /\ DataRight

\* The properties follow.
LEMMA SkyInvNeighborsTouch ==
  ASSUME SkyInv
  PROVE  NeighborsTouch
<1> SUFFICES ASSUME NEW l \in Alive, NEW n \in NeighborArray[l]
             PROVE  n \in Alive /\ n # l /\ Touching(location[n], location[l])
  BY DEF NeighborsTouch
<1>1. l \in Lantern /\ location \in [Lantern -> Cell]
  BY ConstantsType DEF SkyInv, TypeOK, Alive, Lantern, Cell
<1>2. n \in Touch(location, l)
  BY <1>1 DEF SkyInv, Kept, Near, CurrentSky
<1>3. n \in Lantern /\ n # l /\ Touching(location[l], location[n])
  BY <1>2 DEF Touch
<1>4. l \in Touch(location, n)
  BY <1>1, <1>2, <1>3, TouchSymmetric
<1>5. location[n] # Nowhere
  BY <1>3 DEF Touching
<1> QED BY <1>3, <1>4, <1>5 DEF SkyInv, SkyListed, Touch

LEMMA SkyInvPairsSettled ==
  ASSUME SkyInv
  PROVE  PairsSettled
<1> SUFFICES ASSUME ~loaded, NEW a \in Alive, NEW b \in Alive, a # b,
                    Touching(location[a], location[b])
             PROVE  ExactlyOne(a \in NeighborArray[b], b \in NeighborArray[a], a \in level[b])
  BY DEF PairsSettled
<1>1. a \in Lantern /\ b \in Lantern
  BY ConstantsType DEF SkyInv, TypeOK, Alive, Lantern
<1>2. b \in Touch(location, a)
  BY <1>1 DEF Touch
<1> QED BY <1>1, <1>2 DEF SkyInv, Kept, Settled, CurrentSky

\* What is left to show of a step that leaves the save game alone.
LEMMA SessionStep ==
  ASSUME SkyInv, running, running', UNCHANGED <<loaded, LanternDataArray, saved>>,
         NEW s, SkyBecomes(s), Kept(CurrentSky, s),
         spawned' \in spawned .. MaxSpawned, LanternArray' \in Seq(1 .. spawned'),
         SkyListed', Distinct'
  PROVE  SkyInv'
<1>1. (SkyType(CurrentSky) /\ Near(CurrentSky) /\ (~loaded => Settled(CurrentSky)))'
  BY DEF SkyInv, SkyBecomes, CurrentSky, Kept, SkyType, Near, Settled
<1>2. TypeOK'
  <2>1. spawned' \in 0 .. MaxSpawned
    BY ConstantsType DEF SkyInv, TypeOK
  <2>2. /\ location' \in [Lantern -> Place \cup {Nowhere}]
        /\ NeighborArray' \in [Lantern -> SUBSET Lantern]
        /\ level' \in [Lantern -> SUBSET Lantern]
    BY DEF SkyBecomes, Kept, SkyType, Cell
  <2> QED BY <2>1, <2>2 DEF SkyInv, TypeOK
<1>3. SkyInSession' /\ DataBetween' /\ DataRight'
  BY DEF SkyInv, SkyInSession, DataBetween, DataRight
<1> QED BY <1>1, <1>2, <1>3 DEF SkyInv

\* Where a lantern may be after it has been pushed back or sideways.
LEMMA PushedCell ==
  ASSUME NEW p \in Place
  PROVE  AlongX(p) \subseteq Place /\ AlongY(p) \subseteq Place
BY DEF AlongX, AlongY

\* What a tick makes of the sky: only the lantern itself moves, and it is lost
\* only if it began the tick with a neighbour.
LEMMA TickKeeps ==
  ASSUME SkyInv, NEW l \in Lantern, Tick(l)
  PROVE  \E s : /\ SkyBecomes(s) /\ Kept(CurrentSky, s)
                /\ \E p \in Cell : /\ s.location = Put(location, l, p)
                                   /\ p = Nowhere => NeighborArray[l] # {}
<1>0. Kept(CurrentSky, CurrentSky) /\ location[l] \in Place
      /\ location \in [Lantern -> Cell]
  BY DEF SkyInv, Tick, TypeOK, Cell, Kept
<1>11. PICK p \in {q \in AlongX(location[l]) : q.x >= location[l].x} :
         \E q \in AlongY(p) :
           LET s == MovedTo(MovedTo(CurrentSky, l, p), l, q) IN
           IF NeighborArray[l] = {}
           THEN SkyBecomes(s)
           ELSE IF SeparationIsNumber(s, l)
           THEN \E r \in AlongX(q) : \E t \in AlongY(r) :
                  SkyBecomes(MovedTo(MovedTo(s, l, r), l, t))
           ELSE SkyBecomes(MovedTo(s, l, Nowhere))
  BY DEF Tick
<1>1. PICK q \in AlongY(p) :
        LET s == MovedTo(MovedTo(CurrentSky, l, p), l, q) IN
        \/ NeighborArray[l] = {} /\ SkyBecomes(s)
        \/ NeighborArray[l] # {} /\ \E r \in AlongX(q) : \E t \in AlongY(r) :
              SkyBecomes(MovedTo(MovedTo(s, l, r), l, t))
        \/ NeighborArray[l] # {} /\ SkyBecomes(MovedTo(s, l, Nowhere))
  BY <1>11
<1> DEFINE s == MovedTo(MovedTo(CurrentSky, l, p), l, q)
<1>2. p \in Place /\ q \in Place
  BY <1>0, PushedCell
<1>3. CurrentSky.location = location
  BY DEF CurrentSky
\* Two moves of the lantern one after the other.
<1>4. ASSUME NEW u, Kept(CurrentSky, u), NEW f \in [Lantern -> Cell],
             NEW g \in Cell, u.location = Put(f, l, g),
             NEW c \in Cell
      PROVE  /\ Kept(CurrentSky, MovedTo(u, l, c))
             /\ MovedTo(u, l, c).location = Put(f, l, c)
  <2>1. /\ Kept(CurrentSky, MovedTo(u, l, c))
        /\ MovedTo(u, l, c).location = Put(u.location, l, c)
    BY <1>0, <1>4, MovedToKeeps
  <2>2. Put(Put(f, l, g), l, c) = Put(f, l, c)
    BY DEF Put
  <2> QED BY <1>4, <2>1, <2>2
<1>5. /\ Kept(CurrentSky, MovedTo(CurrentSky, l, p))
      /\ MovedTo(CurrentSky, l, p).location = Put(location, l, p)
  BY <1>0, <1>2, <1>3, MovedToKeeps, PlaceNotNowhere
<1>6. Kept(CurrentSky, s) /\ s.location = Put(location, l, q)
  BY <1>0, <1>2, <1>4, <1>5, PlaceNotNowhere
<1> HIDE DEF s
<1>7. q # Nowhere /\ q \in Cell
  BY <1>2, PlaceNotNowhere
<1>8. CASE NeighborArray[l] = {} /\ SkyBecomes(s)
  BY <1>6, <1>7, <1>8
<1>9. CASE NeighborArray[l] # {} /\ SkyBecomes(MovedTo(s, l, Nowhere))
  <2>1. Nowhere \in Cell
    BY DEF Cell
  <2>2. /\ Kept(CurrentSky, MovedTo(s, l, Nowhere))
        /\ MovedTo(s, l, Nowhere).location = Put(location, l, Nowhere)
    BY <1>0, <1>4, <1>6, <1>7, <2>1
  <2> QED BY <1>9, <2>1, <2>2
<1>10. ASSUME NEW r \in AlongX(q), NEW t \in AlongY(r),
              SkyBecomes(MovedTo(MovedTo(s, l, r), l, t))
       PROVE  \E v : /\ SkyBecomes(v) /\ Kept(CurrentSky, v)
                     /\ \E c \in Cell : /\ v.location = Put(location, l, c)
                                        /\ c = Nowhere => NeighborArray[l] # {}
  <2>1. r \in Cell /\ t \in Cell /\ t # Nowhere
    BY <1>2, PushedCell, PlaceNotNowhere
  <2>2. /\ Kept(CurrentSky, MovedTo(s, l, r))
        /\ MovedTo(s, l, r).location = Put(location, l, r)
    BY <1>0, <1>4, <1>6, <1>7, <2>1
  <2>3. /\ Kept(CurrentSky, MovedTo(MovedTo(s, l, r), l, t))
        /\ MovedTo(MovedTo(s, l, r), l, t).location = Put(location, l, t)
    BY <1>0, <1>4, <2>1, <2>2
  <2> QED BY <1>10, <2>1, <2>3
<1> QED BY <1>1, <1>8, <1>9, <1>10 DEF s

LEMMA TickStep ==
  ASSUME SkyInv, NEW l \in Lantern, Tick(l)
  PROVE  SkyInv'
<1>1. PICK s : /\ SkyBecomes(s) /\ Kept(CurrentSky, s)
               /\ \E p \in Cell : /\ s.location = Put(location, l, p)
                                  /\ p = Nowhere => NeighborArray[l] # {}
  BY TickKeeps
<1>2. /\ running /\ running' /\ l \in Alive
      /\ UNCHANGED <<spawned, LanternArray, loaded, LanternDataArray, saved>>
  BY DEF Tick, SkyInv, TypeOK
<1>3. SkyListed'
  <2>1. PICK p \in Cell : location' = Put(location, l, p)
    BY <1>1 DEF SkyBecomes
  <2>2. location \in [Lantern -> Cell]
    BY DEF SkyInv, TypeOK, Cell
  <2>3. Alive' = Alive
    BY <1>2 DEF Alive
  <2>4. ASSUME NEW a \in Lantern, location'[a] # Nowhere PROVE a \in Alive
    BY <1>2, <2>1, <2>2, <2>4 DEF SkyInv, SkyListed, Put
  <2> QED BY <1>2, <2>3, <2>4 DEF SkyInv, SkyListed
<1>4. Distinct'
  BY <1>2 DEF SkyInv, Distinct
<1>5. spawned' \in spawned .. MaxSpawned /\ LanternArray' \in Seq(1 .. spawned')
  BY <1>2, ConstantsType DEF SkyInv, TypeOK
<1> QED BY <1>1, <1>2, <1>3, <1>4, <1>5, SessionStep


-----------------------------------------------------------------------------
(* ALanternManager *)

\* A lantern of the old array is in the new one, unless it is taken out.
LEMMA SpawnArray ==
  ASSUME NEW n \in Nat, NEW arr \in Seq(1 .. n),
         \A i, j \in 1 .. Len(arr) : arr[i] = arr[j] => i = j
  PROVE  /\ LET new == Append(arr, n + 1) IN
            /\ new \in Seq(1 .. n + 1) /\ Len(new) = Len(arr) + 1
            /\ \A i, j \in 1 .. Len(new) : new[i] = new[j] => i = j
            /\ new[Len(new)] = n + 1
            /\ \A i \in 1 .. Len(arr) : new[i] = arr[i]
         /\ arr # <<>> =>
            LET new == Append(Tail(arr), n + 1) IN
            /\ new \in Seq(1 .. n + 1) /\ Len(new) = Len(arr)
            /\ \A i, j \in 1 .. Len(new) : new[i] = new[j] => i = j
            /\ new[Len(new)] = n + 1
            /\ \A i \in 2 .. Len(arr) : new[i - 1] = arr[i]
            /\ \A i \in 1 .. Len(new) : new[i] # arr[1]
<1>0. /\ Len(arr) \in Nat /\ arr \in Seq(1 .. n + 1)
      /\ \A i \in 1 .. Len(arr) : arr[i] \in 1 .. n
  OBVIOUS
<1>1. ASSUME NEW old \in Seq(1 .. n + 1), \A i \in 1 .. Len(old) : old[i] \in 1 .. n,
             \A i, j \in 1 .. Len(old) : old[i] = old[j] => i = j
      PROVE  LET new == Append(old, n + 1) IN
             /\ new \in Seq(1 .. n + 1) /\ Len(new) = Len(old) + 1
             /\ \A i, j \in 1 .. Len(new) : new[i] = new[j] => i = j
             /\ new[Len(new)] = n + 1
             /\ \A i \in 1 .. Len(old) : new[i] = old[i]
  <2> DEFINE new == Append(old, n + 1)
  <2>1. /\ new \in Seq(1 .. n + 1) /\ Len(new) = Len(old) + 1 /\ Len(old) \in Nat
        /\ new[Len(old) + 1] = n + 1
        /\ \A i \in 1 .. Len(old) : new[i] = old[i]
    OBVIOUS
  <2> HIDE DEF new
  <2>2. ASSUME NEW i \in 1 .. Len(new), NEW j \in 1 .. Len(new), new[i] = new[j]
        PROVE  i = j
    <3>1. CASE i = Len(old) + 1
      <4>1. ASSUME j \in 1 .. Len(old) PROVE FALSE
        <5>1. new[j] = old[j] /\ old[j] \in 1 .. n /\ new[i] = n + 1
          BY <1>1, <2>1, <3>1, <4>1
        <5>2. old[j] = n + 1
          BY <2>2, <5>1
        <5> QED BY <5>1, <5>2
      <4> QED BY <2>1, <3>1, <4>1
    <3>2. CASE j = Len(old) + 1
      <4>1. ASSUME i \in 1 .. Len(old) PROVE FALSE
        <5>1. new[i] = old[i] /\ old[i] \in 1 .. n /\ new[j] = n + 1
          BY <1>1, <2>1, <3>2, <4>1
        <5>2. old[i] = n + 1
          BY <2>2, <5>1
        <5> QED BY <5>1, <5>2
      <4> QED BY <2>1, <3>2, <4>1
    <3>3. CASE i \in 1 .. Len(old) /\ j \in 1 .. Len(old)
      BY <1>1, <2>1, <2>2, <3>3
    <3> QED BY <2>1, <3>1, <3>2, <3>3
  <2>3. new[Len(new)] = n + 1
    BY <2>1
  <2> QED BY <2>1, <2>2, <2>3 DEF new
<1>2. ASSUME arr # <<>>
      PROVE  /\ Tail(arr) \in Seq(1 .. n + 1) /\ Len(Tail(arr)) = Len(arr) - 1
             /\ Len(arr) >= 1
             /\ \A i \in 1 .. Len(arr) - 1 : Tail(arr)[i] = arr[i + 1]
  BY <1>0, <1>2
<1>3. ASSUME arr # <<>>
      PROVE  LET new == Append(Tail(arr), n + 1) IN
             /\ new \in Seq(1 .. n + 1) /\ Len(new) = Len(arr)
             /\ \A i, j \in 1 .. Len(new) : new[i] = new[j] => i = j
             /\ new[Len(new)] = n + 1
             /\ \A i \in 2 .. Len(arr) : new[i - 1] = arr[i]
             /\ \A i \in 1 .. Len(new) : new[i] # arr[1]
  <2> DEFINE old == Tail(arr)
             new == Append(old, n + 1)
  <2>1. /\ old \in Seq(1 .. n + 1) /\ Len(old) = Len(arr) - 1 /\ Len(arr) >= 1
        /\ \A i \in 1 .. Len(arr) - 1 : old[i] = arr[i + 1]
    BY <1>2, <1>3
  <2> HIDE DEF old
  <2>2. ASSUME NEW i \in 1 .. Len(old)
        PROVE  old[i] = arr[i + 1] /\ old[i] \in 1 .. n /\ i + 1 \in 1 .. Len(arr)
    <3>1. i + 1 \in 1 .. Len(arr) /\ i \in 1 .. Len(arr) - 1
      BY <1>0, <2>1
    <3> QED BY <1>0, <2>1, <3>1
  <2>3. ASSUME NEW i \in 1 .. Len(old), NEW j \in 1 .. Len(old), old[i] = old[j]
        PROVE  i = j
    <3>1. i + 1 = j + 1
      BY <2>2, <2>3
    <3> QED BY <1>0, <2>1, <3>1
  <2>4. /\ new \in Seq(1 .. n + 1) /\ Len(new) = Len(old) + 1
        /\ \A i, j \in 1 .. Len(new) : new[i] = new[j] => i = j
        /\ new[Len(new)] = n + 1
        /\ \A i \in 1 .. Len(old) : new[i] = old[i]
    BY <1>1, <2>1, <2>2, <2>3
  <2> HIDE DEF new
  <2>5. \A i \in 2 .. Len(arr) : new[i - 1] = arr[i]
    <3> SUFFICES ASSUME NEW i \in 2 .. Len(arr) PROVE new[i - 1] = arr[i]
      OBVIOUS
    <3>1. i - 1 \in 1 .. Len(old) /\ i - 1 \in 1 .. Len(arr) - 1 /\ (i - 1) + 1 = i
      BY <1>0, <2>1
    <3> QED BY <2>1, <2>4, <3>1
  <2>6. ASSUME NEW i \in 1 .. Len(new) PROVE new[i] # arr[1]
    <3>1. CASE i = Len(new)
      BY <1>0, <2>1, <2>4, <3>1
    <3>2. CASE i \in 1 .. Len(old)
      <4>1. new[i] = arr[i + 1] /\ i + 1 \in 1 .. Len(arr)
        BY <2>2, <2>4, <3>2
      <4>2. 1 \in 1 .. Len(arr) /\ i + 1 # 1
        BY <1>0, <2>1
      <4>3. arr[i + 1] # arr[1]
        BY <4>1, <4>2
      <4> QED BY <4>1, <4>3
    <3>3. i = Len(new) \/ i \in 1 .. Len(old)
      BY <1>0, <2>1, <2>4
    <3> QED BY <3>1, <3>2, <3>3
  <2>7. Len(new) = Len(arr)
    BY <1>0, <2>1, <2>4
  <2> QED BY <2>4, <2>5, <2>6, <2>7 DEF new, old
<1> QED BY <1>0, <1>1, <1>3

\* What SpawnLantern makes of the sky: the new lantern is put at its place, and
\* when the array is full the oldest nowhere.
LEMMA SpawnKeeps ==
  ASSUME SkyInv, SpawnLantern
  PROVE  \E s : /\ SkyBecomes(s) /\ Kept(CurrentSky, s)
                /\ \/ /\ s.location = Put(location, spawned + 1, SpawnLocation)
                      /\ Len(LanternArray) < MaxLanterns
                      /\ LanternArray' = Append(LanternArray, spawned + 1)
                   \/ /\ s.location = Put(Put(location, spawned + 1, SpawnLocation),
                                          LanternArray[1], Nowhere)
                      /\ LanternArray # <<>> /\ Len(LanternArray) <= MaxLanterns
                      /\ LanternArray' = Append(Tail(LanternArray), spawned + 1)
<1> DEFINE s == MovedTo(CurrentSky, spawned + 1, SpawnLocation)
<1>1. /\ spawned + 1 \in Lantern /\ spawned \in Nat
      /\ LanternArray \in Seq(1 .. spawned) /\ Len(LanternArray) \in Nat
      /\ Len(LanternArray) <= MaxLanterns
  BY ConstantsType DEF SkyInv, TypeOK, SpawnLantern, Lantern, SkyListed
<1>2. SpawnLocation \in Cell /\ Nowhere \in Cell
  BY ConstantsType DEF SpawnLocation, Cell, Place
<1>3. Kept(CurrentSky, CurrentSky) /\ CurrentSky.location = location
  BY DEF SkyInv, Kept, CurrentSky
<1>4. Kept(CurrentSky, s) /\ s.location = Put(location, spawned + 1, SpawnLocation)
  BY <1>1, <1>2, <1>3, MovedToKeeps
<1>5. CASE Len(LanternArray) = MaxLanterns
  <2>1. LanternArray # <<>> /\ LanternArray[1] \in Lantern
    <3>1. 1 \in 1 .. Len(LanternArray)
      BY <1>1, <1>5, ConstantsType
    <3> QED BY <1>1, <3>1, ConstantsType DEF Lantern
  <2>2. /\ Kept(CurrentSky, MovedTo(s, LanternArray[1], Nowhere))
        /\ MovedTo(s, LanternArray[1], Nowhere).location
             = Put(Put(location, spawned + 1, SpawnLocation), LanternArray[1], Nowhere)
    BY <1>2, <1>4, <2>1, MovedToKeeps
  <2>3. /\ SkyBecomes(MovedTo(s, LanternArray[1], Nowhere))
        /\ LanternArray' = Append(Tail(LanternArray), spawned + 1)
    BY <1>5 DEF SpawnLantern
  <2> QED BY <1>1, <2>1, <2>2, <2>3
<1>6. CASE Len(LanternArray) # MaxLanterns
  <2>1. SkyBecomes(s) /\ LanternArray' = Append(LanternArray, spawned + 1)
    BY <1>6 DEF SpawnLantern
  <2>2. Len(LanternArray) < MaxLanterns
    BY <1>1, <1>6, ConstantsType
  <2> QED BY <1>4, <2>1, <2>2
<1> QED BY <1>5, <1>6

LEMMA SpawnStep ==
  ASSUME SkyInv, SpawnLantern
  PROVE  SkyInv'
<1> DEFINE with == Put(location, spawned + 1, SpawnLocation)
<1>1. PICK s : /\ SkyBecomes(s) /\ Kept(CurrentSky, s)
               /\ \/ /\ s.location = with
                     /\ Len(LanternArray) < MaxLanterns
                     /\ LanternArray' = Append(LanternArray, spawned + 1)
                  \/ /\ s.location = Put(with, LanternArray[1], Nowhere)
                     /\ LanternArray # <<>> /\ Len(LanternArray) <= MaxLanterns
                     /\ LanternArray' = Append(Tail(LanternArray), spawned + 1)
  BY SpawnKeeps
<1>2. /\ running /\ running' /\ spawned' = spawned + 1 /\ spawned' \in spawned .. MaxSpawned
      /\ spawned \in Nat /\ LanternArray \in Seq(1 .. spawned)
      /\ UNCHANGED <<loaded, LanternDataArray, saved>>
  BY ConstantsType DEF SpawnLantern, SkyInv, TypeOK
<1>3. \A i, j \in 1 .. Len(LanternArray) : LanternArray[i] = LanternArray[j] => i = j
  BY DEF SkyInv, Distinct
<1>4. location \in [Lantern -> Cell]
  BY DEF SkyInv, TypeOK, Cell
<1>5. \A a \in Lantern : a # spawned + 1 => with[a] = location[a]
  BY <1>4 DEF Put
<1>6. with \in [Lantern -> Cell]
  <2>1. SpawnLocation \in Cell
    BY ConstantsType DEF SpawnLocation, Cell, Place
  <2> QED BY <1>4, <2>1 DEF Put
<1> HIDE DEF with
<1>7. location' = s.location
  BY <1>1 DEF SkyBecomes
<1>8. \A a \in Lantern : location[a] # Nowhere =>
        \E i \in 1 .. Len(LanternArray) : LanternArray[i] = a
  BY DEF SkyInv, SkyListed, Alive
<1>9. CASE /\ s.location = with
           /\ Len(LanternArray) < MaxLanterns
           /\ LanternArray' = Append(LanternArray, spawned + 1)
  <2>1. /\ LanternArray' \in Seq(1 .. spawned') /\ Len(LanternArray') = Len(LanternArray) + 1
        /\ \A i, j \in 1 .. Len(LanternArray') : LanternArray'[i] = LanternArray'[j] => i = j
        /\ LanternArray'[Len(LanternArray')] = spawned + 1
        /\ \A i \in 1 .. Len(LanternArray) : LanternArray'[i] = LanternArray[i]
        /\ Len(LanternArray) \in Nat
    <3> DEFINE new == Append(LanternArray, spawned + 1)
    <3>1. /\ new \in Seq(1 .. spawned + 1) /\ Len(new) = Len(LanternArray) + 1
          /\ \A i, j \in 1 .. Len(new) : new[i] = new[j] => i = j
          /\ new[Len(new)] = spawned + 1
          /\ \A i \in 1 .. Len(LanternArray) : new[i] = LanternArray[i]
      BY <1>2, <1>3, SpawnArray
    <3>2. LanternArray' = new
      BY <1>9
    <3>3. Len(LanternArray) \in Nat
      BY <1>2
    <3> HIDE DEF new
    <3> QED BY <1>2, <3>1, <3>2, <3>3
  <2>2. ASSUME NEW a \in Lantern, location'[a] # Nowhere PROVE a \in Alive'
    <3>1. CASE a = spawned + 1
      BY <2>1, <3>1 DEF Alive
    <3>2. CASE a # spawned + 1
      <4>1. PICK i \in 1 .. Len(LanternArray) : LanternArray[i] = a
        BY <1>5, <1>7, <1>8, <1>9, <2>2, <3>2
      <4> QED BY <2>1, <4>1 DEF Alive
    <3> QED BY <3>1, <3>2
  <2>3. SkyListed'
    BY <1>9, <2>1, <2>2, ConstantsType DEF SkyListed
  <2>4. Distinct'
    BY <2>1 DEF Distinct
  <2> QED BY <1>1, <1>2, <2>1, <2>3, <2>4, SessionStep
<1>10. CASE /\ s.location = Put(with, LanternArray[1], Nowhere)
            /\ LanternArray # <<>> /\ Len(LanternArray) <= MaxLanterns
            /\ LanternArray' = Append(Tail(LanternArray), spawned + 1)
  <2>1. /\ LanternArray' \in Seq(1 .. spawned') /\ Len(LanternArray') = Len(LanternArray)
        /\ \A i, j \in 1 .. Len(LanternArray') : LanternArray'[i] = LanternArray'[j] => i = j
        /\ LanternArray'[Len(LanternArray')] = spawned + 1
        /\ \A i \in 2 .. Len(LanternArray) : LanternArray'[i - 1] = LanternArray[i]
    <3> DEFINE new == Append(Tail(LanternArray), spawned + 1)
    <3>1. /\ new \in Seq(1 .. spawned + 1) /\ Len(new) = Len(LanternArray)
          /\ \A i, j \in 1 .. Len(new) : new[i] = new[j] => i = j
          /\ new[Len(new)] = spawned + 1
          /\ \A i \in 2 .. Len(LanternArray) : new[i - 1] = LanternArray[i]
      BY <1>2, <1>3, <1>10, SpawnArray
    <3>2. LanternArray' = new
      BY <1>10
    <3> HIDE DEF new
    <3> QED BY <1>2, <3>1, <3>2
  <2>0. Len(LanternArray) \in Nat /\ Len(LanternArray) >= 1
    BY <1>2, <1>10
  <2>2. ASSUME NEW a \in Lantern, location'[a] # Nowhere PROVE a \in Alive'
    <3>1. CASE a = spawned + 1
      BY <2>0, <2>1, <3>1 DEF Alive
    <3>2. CASE a # spawned + 1
      <4>1. a # LanternArray[1] /\ with[a] # Nowhere
        BY <1>6, <1>7, <1>10, <2>2 DEF Put
      <4>2. PICK i \in 1 .. Len(LanternArray) : LanternArray[i] = a
        BY <1>5, <1>8, <3>2, <4>1
      <4>3. i \in 2 .. Len(LanternArray) /\ i - 1 \in 1 .. Len(LanternArray)
        BY <2>0, <4>1, <4>2
      <4> QED BY <2>1, <4>2, <4>3 DEF Alive
    <3> QED BY <3>1, <3>2
  <2>3. SkyListed'
    BY <1>10, <2>1, <2>2 DEF SkyListed
  <2>4. Distinct'
    BY <2>1 DEF Distinct
  <2> QED BY <1>1, <1>2, <2>1, <2>3, <2>4, SessionStep
<1> QED BY <1>1, <1>9, <1>10

LEMMA RemoveStep ==
  ASSUME SkyInv, RemoveAllLantern
  PROVE  SkyInv'
<1> DEFINE at == [l \in Lantern |-> IF l \in Alive THEN Nowhere ELSE location[l]]
           s == Moved(CurrentSky, at)
<1>1. at \in [Lantern -> Cell]
  BY DEF SkyInv, TypeOK, Cell
<1>2. Kept(CurrentSky, s) /\ s.location = at
  BY <1>1, MovedKeeps DEF SkyInv, Kept
<1>3. /\ SkyBecomes(s) /\ LanternArray' = <<>> /\ running /\ running' /\ spawned' = spawned
      /\ UNCHANGED <<loaded, LanternDataArray, saved>>
  BY DEF RemoveAllLantern, SkyInv, TypeOK
<1>4. location' = at
  BY <1>2, <1>3 DEF SkyBecomes
<1>5. Len(<<>>) = 0
  OBVIOUS
<1>6. SkyListed'
  <2>1. \A l \in Lantern : at[l] = Nowhere
    BY DEF SkyInv, SkyListed
  <2> QED BY <1>3, <1>4, <1>5, <2>1, ConstantsType DEF SkyListed
<1>7. Distinct'
  BY <1>3, <1>5 DEF Distinct
<1>8. spawned' \in spawned .. MaxSpawned /\ LanternArray' \in Seq(1 .. spawned')
  BY <1>3, ConstantsType DEF SkyInv, TypeOK
<1> HIDE DEF s
<1> QED BY <1>2, <1>3, <1>6, <1>7, <1>8, SessionStep


-----------------------------------------------------------------------------
(* The sessions *)

LEMMA EmptySkyKept ==
  /\ SkyType(EmptySky) /\ Near(EmptySky) /\ Settled(EmptySky)
  /\ \A l \in Lantern : /\ EmptySky.location[l] = Nowhere
                         /\ EmptySky.NeighborArray[l] = {} /\ EmptySky.level[l] = {}
BY DEF EmptySky, SkyType, Near, Settled, Touch, Touching, Cell

\* What LoadLantern leaves of the lanterns that were saved.
LEMMA LoadFields ==
  ASSUME SkyInv, StartSession
  PROVE  LET n   == Len(LanternDataArray)
             New == spawned + 1 .. spawned + n
         IN /\ n \in Nat /\ spawned \in Nat /\ New \subseteq Lantern
            /\ spawned' = spawned + n /\ spawned' \in 0 .. MaxSpawned
            /\ LanternArray' = [i \in 1 .. n |-> spawned + i]
            /\ \A l \in New : l - spawned \in 1 .. n
            /\ location' \in [Lantern -> Cell]
            /\ NeighborArray' \in [Lantern -> SUBSET Lantern]
            /\ \A l \in New : location'[l] = LanternDataArray[l - spawned].location
            /\ \A l \in Lantern \ New : location'[l] = Nowhere /\ NeighborArray'[l] = {}
            /\ \A l \in New : NeighborArray'[l] \subseteq Touch(location', l)
            /\ \A l \in New : {spawned + k : k \in LanternDataArray[l - spawned].overlapped}
                                \subseteq NeighborArray'[l]
            /\ level' = level
<1> DEFINE n     == Len(LanternDataArray)
           New   == spawned + 1 .. spawned + n
           At(l) == LanternDataArray[l - spawned].location
           MetAtX(a, b) == IF Touching(ManagerLocation, At(a)) THEN ManagerLocation.x
                                                               ELSE At(b).x
           Behind(o, l) == /\ o # l /\ Touching(At(o), At(l))
                           /\ IF o < l THEN At(o).x < MetAtX(o, l)
                                       ELSE MetAtX(l, o) < At(l).x
           Added(l) == AddNeighborLantern(spawned + 1, LanternDataArray[l - spawned].overlapped)
           N == [l \in Lantern |-> IF l \in New THEN {o \in New : Behind(o, l)} \cup Added(l)
                                              ELSE NeighborArray[l]]
           loc == [l \in Lantern |-> IF l \in New THEN At(l) ELSE location[l]]
<1>1. /\ spawned' = spawned + n
      /\ LanternArray' = [i \in 1 .. n |-> spawned + i]
      /\ location' = loc
      /\ NeighborArray' = N
      /\ level' = level
      /\ spawned + n <= MaxSpawned
  <2>1. LoadLantern(LanternDataArray) /\ spawned + n <= MaxSpawned
    BY DEF StartSession
  <2>2. spawned' = spawned + n /\ LanternArray' = [i \in 1 .. n |-> spawned + i]
    BY <2>1 DEF LoadLantern
  <2>3. location' = loc /\ level' = level
    BY <2>1 DEF LoadLantern
  <2>4. NeighborArray' = N
    BY <2>1 DEF LoadLantern
  <2> QED BY <2>1, <2>2, <2>3, <2>4
<1>2. /\ LanternDataArray \in Seq([location: Cell, overlapped: SUBSET Nat])
      /\ spawned \in Nat
  BY ConstantsType DEF SkyInv, TypeOK, Cell
<1>3. n \in Nat /\ \A i \in 1 .. n : LanternDataArray[i] \in [location: Cell, overlapped: SUBSET Nat]
  <2>1. ASSUME NEW S, NEW q \in Seq(S)
        PROVE  Len(q) \in Nat /\ \A i \in 1 .. Len(q) : q[i] \in S
    OBVIOUS
  <2> QED BY <1>2, <2>1
<1>4. /\ New \subseteq Lantern /\ \A l \in New : l - spawned \in 1 .. n
      /\ spawned + n \in 0 .. MaxSpawned
  BY <1>1, <1>2, <1>3, ConstantsType DEF Lantern
<1>5. /\ \A l \in Lantern : location[l] = Nowhere /\ NeighborArray[l] = {}
      /\ location \in [Lantern -> Cell]
  BY EmptySkyKept DEF SkyInv, SkyInSession, StartSession, CurrentSky, EmptySky, TypeOK, Cell
<1>6. \A l \in New : At(l) \in Cell
  BY <1>3, <1>4
<1>7. loc \in [Lantern -> Cell]
  BY <1>5, <1>6
<1>8. /\ \A l \in New : loc[l] = At(l)
      /\ \A l \in Lantern \ New : loc[l] = Nowhere
  BY <1>4, <1>5
<1>9. /\ \A l \in New : N[l] = {o \in New : Behind(o, l)} \cup Added(l)
      /\ \A l \in Lantern \ New : N[l] = {}
  BY <1>4, <1>5
<1>10. ASSUME NEW l \in New, NEW o \in New, Behind(o, l) PROVE o \in Touch(loc, l)
  <2>1. o # l /\ Touching(loc[o], loc[l])
    BY <1>8, <1>10
  <2> HIDE DEF Behind, loc
  <2>2. l \in Touch(loc, o)
    BY <1>4, <2>1 DEF Touch
  <2> QED BY <1>4, <1>7, <2>2, TouchSymmetric
<1>11. ASSUME NEW l \in New, NEW o, o \in Added(l) PROVE o \in Touch(loc, l)
  <2>1. PICK k \in LanternDataArray[l - spawned].overlapped : o = (spawned + 1) - 1 + k
    BY <1>11 DEF AddNeighborLantern
  <2>2. /\ k \in 1 .. n /\ k # l - spawned
        /\ Touching(LanternDataArray[k].location, LanternDataArray[l - spawned].location)
    BY <1>4 DEF SkyInv, DataRight
  <2>3. o \in New /\ o # l /\ o - spawned = k
    BY <1>2, <1>3, <2>1, <2>2
  <2>4. Touching(loc[o], loc[l])
    BY <1>8, <2>2, <2>3
  <2> HIDE DEF loc
  <2>5. l \in Touch(loc, o)
    BY <1>4, <2>3, <2>4 DEF Touch
  <2> QED BY <1>4, <1>7, <2>3, <2>5, TouchSymmetric
<1> HIDE DEF Behind, loc
<1>12. ASSUME NEW l \in New PROVE N[l] \subseteq Touch(loc, l)
  BY <1>9, <1>10, <1>11
<1>13. \A l \in New : {spawned + k : k \in LanternDataArray[l - spawned].overlapped} \subseteq N[l]
  <2> SUFFICES ASSUME NEW l \in New, NEW k \in LanternDataArray[l - spawned].overlapped
               PROVE  spawned + k \in Added(l)
    BY <1>9
  <2>1. k \in Nat
    BY <1>3, <1>4
  <2> QED BY <1>2, <2>1 DEF AddNeighborLantern
<1>14. N \in [Lantern -> SUBSET Lantern]
  <2>1. ASSUME NEW l \in Lantern PROVE N[l] \subseteq Lantern
    BY <1>9, <1>12 DEF Touch
  <2>2. N = [l \in Lantern |-> N[l]]
    OBVIOUS
  <2> HIDE DEF N
  <2> QED BY <2>1, <2>2
<1> HIDE DEF N
<1> QED BY <1>1, <1>2, <1>3, <1>4, <1>7, <1>8, <1>9, <1>12, <1>13, <1>14

LEMMA StartStep ==
  ASSUME SkyInv, StartSession
  PROVE  SkyInv'
<1> DEFINE n   == Len(LanternDataArray)
           New == spawned + 1 .. spawned + n
<1>1. /\ n \in Nat /\ spawned \in Nat /\ New \subseteq Lantern
      /\ spawned' = spawned + n /\ spawned' \in 0 .. MaxSpawned
      /\ LanternArray' = [i \in 1 .. n |-> spawned + i]
      /\ location' \in [Lantern -> Cell]
      /\ NeighborArray' \in [Lantern -> SUBSET Lantern]
      /\ \A l \in Lantern \ New : location'[l] = Nowhere /\ NeighborArray'[l] = {}
      /\ \A l \in New : NeighborArray'[l] \subseteq Touch(location', l)
      /\ level' = level
  BY LoadFields
<1>2. /\ running' = TRUE /\ LanternDataArray' = <<>> /\ saved' = NothingSaved
      /\ loaded' = (LanternDataArray # <<>>)
      /\ CurrentSky = EmptySky
  BY DEF StartSession, SkyInv, SkyInSession
<1>3. \A l \in Lantern : level'[l] = {}
  BY <1>1, <1>2, EmptySkyKept DEF CurrentSky
<1>4. level' \in [Lantern -> SUBSET Lantern]
  BY <1>1 DEF SkyInv, TypeOK
<1>5. Len(<<>>) = 0
  OBVIOUS
<1>6. LanternArray' \in Seq(1 .. spawned') /\ Len(LanternArray') = n
      /\ \A i \in 1 .. n : LanternArray'[i] = spawned + i
  BY <1>1
<1>7. SkyType(CurrentSky')
  BY <1>1, <1>4 DEF SkyType, CurrentSky
<1>8. Near(CurrentSky')
  <2>1. ASSUME NEW a \in Lantern PROVE NeighborArray'[a] \subseteq Touch(location', a)
    BY <1>1
  <2> QED BY <1>3, <2>1 DEF Near, CurrentSky
<1>9. ~loaded' => Settled(CurrentSky')
  <2> SUFFICES ASSUME LanternDataArray = <<>> PROVE Settled(CurrentSky')
    BY <1>2
  <2>1. \A l \in Lantern : location'[l] = Nowhere
    BY <1>1, <1>5
  <2>2. \A a \in Lantern : Touch(location', a) = {}
    BY <2>1 DEF Touch, Touching
  <2> QED BY <2>2 DEF Settled, CurrentSky
<1>10. SkyListed'
  <2>1. ASSUME NEW a \in Lantern, location'[a] # Nowhere PROVE a \in Alive'
    <3>1. a \in New
      BY <1>1, <2>1
    <3>2. a - spawned \in 1 .. n /\ a = spawned + (a - spawned)
      BY <1>1, <3>1
    <3>3. LanternArray'[a - spawned] = a
      BY <1>6, <3>2
    <3> QED BY <1>6, <3>2, <3>3 DEF Alive
  <2> QED BY <1>6, <2>1 DEF SkyListed, SkyInv, DataRight
<1>11. Distinct'
  BY <1>1, <1>6 DEF Distinct
<1>12. SkyInSession' /\ DataBetween'
  BY <1>2 DEF SkyInSession, DataBetween
<1>13. DataRight'
  BY <1>2, <1>5, ConstantsType DEF DataRight, NothingSaved
<1>14. TypeOK'
  <2>1. LanternDataArray' \in Seq([location: Place \cup {Nowhere}, overlapped: SUBSET Nat])
    BY <1>2
  <2>2. saved' \in [location: Seq(Place \cup {Nowhere}), pushes: SUBSET (Nat \X Nat)]
    BY <1>2 DEF NothingSaved
  <2>3. loaded' \in BOOLEAN /\ running' \in BOOLEAN
    BY <1>2
  <2> QED BY <1>1, <1>4, <1>6, <2>1, <2>2, <2>3 DEF TypeOK, Cell
<1> QED BY <1>7, <1>8, <1>9, <1>10, <1>11, <1>12, <1>13, <1>14 DEF SkyInv

\* What a session leaves when it ends.
LEMMA SkyGone ==
  ASSUME SkyInv, SkyBecomes(EmptySky), LanternArray' = <<>>, running' = FALSE,
         UNCHANGED <<spawned, loaded>>
  PROVE  /\ SkyListed' /\ Distinct' /\ SkyInSession' /\ DataBetween'
         /\ SkyType(CurrentSky') /\ Near(CurrentSky') /\ Settled(CurrentSky')
         /\ spawned' \in 0 .. MaxSpawned /\ LanternArray' \in Seq(1 .. spawned')
         /\ location' \in [Lantern -> Place \cup {Nowhere}]
         /\ NeighborArray' \in [Lantern -> SUBSET Lantern]
         /\ level' \in [Lantern -> SUBSET Lantern]
         /\ loaded' \in BOOLEAN /\ running' \in BOOLEAN
<1>1. CurrentSky' = EmptySky /\ location' = EmptySky.location
      /\ NeighborArray' = EmptySky.NeighborArray /\ level' = EmptySky.level
  BY DEF SkyBecomes, CurrentSky, EmptySky
<1>2. Len(<<>>) = 0
  OBVIOUS
<1>3. SkyListed' /\ Distinct'
  BY <1>1, <1>2, EmptySkyKept, ConstantsType DEF SkyListed, Distinct
<1>4. SkyInSession' /\ DataBetween'
  BY <1>1 DEF SkyInSession, DataBetween
<1>5. SkyType(CurrentSky') /\ Near(CurrentSky') /\ Settled(CurrentSky')
  BY <1>1, EmptySkyKept
<1>6. spawned' \in 0 .. MaxSpawned /\ LanternArray' \in Seq(1 .. spawned')
  BY DEF SkyInv, TypeOK
<1>7. loaded' \in BOOLEAN /\ running' \in BOOLEAN
  BY DEF SkyInv, TypeOK
<1> QED BY <1>1, <1>3, <1>4, <1>5, <1>6, <1>7, EmptySkyKept DEF SkyType, Cell

LEMMA EndStep ==
  ASSUME SkyInv, EndSession
  PROVE  SkyInv'
<1> DEFINE n == Len(LanternArray)
           Data == [i \in 1 .. n |->
                      [location   |-> location[LanternArray[i]],
                       overlapped |-> {SetLanternArrayIndex(m) : m \in NeighborArray[LanternArray[i]]}]]
           locations == [i \in 1 .. n |-> location[LanternArray[i]]]
           pushes == {p \in (1 .. n) \X (1 .. n) :
                        LanternArray[p[2]] \in NeighborArray[LanternArray[p[1]]]}
<1>0. /\ LanternArray \in Seq(Lantern) /\ n \in Nat /\ n <= MaxLanterns
      /\ \A i \in 1 .. n : LanternArray[i] \in Lantern /\ LanternArray[i] \in Alive
      /\ location \in [Lantern -> Cell]
  BY ConstantsType DEF SkyInv, TypeOK, SkyListed, Alive, Lantern, Cell
<1>1. /\ running /\ running' = FALSE /\ SkyBecomes(EmptySky) /\ LanternArray' = <<>>
      /\ UNCHANGED <<spawned, loaded>>
      /\ saved' = [location |-> locations, pushes |-> pushes]
      /\ LanternDataArray' = LanternDataArray \o Data
  BY DEF EndSession, SaveLanternArray
\* The index of a neighbour.
<1>2. ASSUME NEW i \in 1 .. n, NEW m \in NeighborArray[LanternArray[i]]
      PROVE  /\ SetLanternArrayIndex(m) \in 1 .. n
             /\ LanternArray[SetLanternArrayIndex(m)] = m
             /\ SetLanternArrayIndex(m) # i
             /\ Touching(location[m], location[LanternArray[i]])
  <2>1. m \in Alive /\ m # LanternArray[i] /\ Touching(location[m], location[LanternArray[i]])
    BY <1>0, SkyInvNeighborsTouch DEF NeighborsTouch
  <2>2. \E j \in 1 .. n : LanternArray[j] = m
    BY <2>1 DEF Alive
  <2>3. SetLanternArrayIndex(m) \in 1 .. n /\ LanternArray[SetLanternArrayIndex(m)] = m
    BY <2>2 DEF SetLanternArrayIndex
  <2> QED BY <2>1, <2>3
<1>3. \A i \in 1 .. n : /\ location[LanternArray[i]] \in Cell
                        /\ {SetLanternArrayIndex(m) : m \in NeighborArray[LanternArray[i]]}
                             \subseteq 1 .. n
  BY <1>0, <1>2
<1>4. /\ Data \in Seq([location: Cell, overlapped: SUBSET Nat]) /\ Len(Data) = n
      /\ \A i \in 1 .. n :
           /\ Data[i].location = location[LanternArray[i]]
           /\ Data[i].overlapped
                = {SetLanternArrayIndex(m) : m \in NeighborArray[LanternArray[i]]}
  <2>1. \A i \in 1 .. n : Data[i] \in [location: Cell, overlapped: SUBSET Nat]
    BY <1>3
  <2>2. Data \in [1 .. n -> [location: Cell, overlapped: SUBSET Nat]]
    BY <2>1
  <2>3. \A i \in 1 .. n :
           /\ Data[i].location = location[LanternArray[i]]
           /\ Data[i].overlapped
                = {SetLanternArrayIndex(m) : m \in NeighborArray[LanternArray[i]]}
    OBVIOUS
  <2>4. n \in Nat
    BY <1>0
  <2>5. ASSUME NEW S, NEW q \in [1 .. n -> S] PROVE q \in Seq(S) /\ Len(q) = n
    BY <2>4
  <2> HIDE DEF Data
  <2> QED BY <2>2, <2>3, <2>5
<1> HIDE DEF Data
<1>5. LanternDataArray' = Data
  <2>1. LanternDataArray = <<>>
    BY <1>1 DEF SkyInv, DataBetween
  <2>2. <<>> \o Data = Data
    BY <1>4
  <2> QED BY <1>1, <2>1, <2>2
<1>6. /\ locations \in Seq(Cell) /\ Len(locations) = n
      /\ \A i \in 1 .. n : locations[i] = location[LanternArray[i]]
  BY <1>0, <1>3
<1>7. /\ pushes \in SUBSET (Nat \X Nat)
      /\ \A i, j \in 1 .. n : <<i, j>> \in pushes => LanternArray[j] \in NeighborArray[LanternArray[i]]
  BY <1>0
<1> HIDE DEF locations, pushes
<1>8. saved'.location = locations /\ saved'.pushes = pushes
  BY <1>1
<1>9. DataRight'
  <2>1. ASSUME NEW i \in 1 .. n, NEW k \in Data[i].overlapped
        PROVE  k \in 1 .. n /\ k # i /\ Touching(Data[k].location, Data[i].location)
    <3>1. PICK m \in NeighborArray[LanternArray[i]] : k = SetLanternArrayIndex(m)
      BY <1>4
    <3> QED BY <1>2, <1>4, <3>1
  <2>2. ASSUME NEW i \in 1 .. n, NEW j \in 1 .. n, <<i, j>> \in pushes
        PROVE  j \in Data[i].overlapped
    <3>1. LanternArray[j] \in NeighborArray[LanternArray[i]]
      BY <1>7, <2>2
    <3>2. SetLanternArrayIndex(LanternArray[j]) = j
      BY <1>2, <3>1 DEF SkyInv, Distinct
    <3> QED BY <1>4, <3>1, <3>2
  <2>3. \A i \in 1 .. n : locations[i] = Data[i].location
    BY <1>4, <1>6
  <2> QED BY <1>0, <1>4, <1>5, <1>6, <1>8, <2>1, <2>2, <2>3 DEF DataRight
<1>10. TypeOK'
  <2>1. LanternDataArray' \in Seq([location: Place \cup {Nowhere}, overlapped: SUBSET Nat])
    BY <1>4, <1>5 DEF Cell
  <2>2. saved' \in [location: Seq(Place \cup {Nowhere}), pushes: SUBSET (Nat \X Nat)]
    BY <1>1, <1>6, <1>7 DEF Cell
  <2> QED BY <1>1, <2>1, <2>2, SkyGone DEF TypeOK
<1> QED BY <1>1, <1>9, <1>10, SkyGone DEF SkyInv

LEMMA CrashStep ==
  ASSUME SkyInv, Crash
  PROVE  SkyInv'
<1>1. /\ SkyBecomes(EmptySky) /\ LanternArray' = <<>> /\ running' = FALSE
      /\ UNCHANGED <<spawned, loaded, LanternDataArray, saved>>
  BY DEF Crash
<1>2. DataRight'
  BY <1>1 DEF SkyInv, DataRight
<1>3. TypeOK'
  BY <1>1, SkyGone DEF SkyInv, TypeOK
<1> QED BY <1>1, <1>2, <1>3, SkyGone DEF SkyInv

LEMMA SkyStutter ==
  ASSUME SkyInv, UNCHANGED vars
  PROVE  SkyInv'
<1>1. CurrentSky' = CurrentSky
  BY DEF vars, sky, CurrentSky
<1> QED BY <1>1 DEF SkyInv, TypeOK, SkyListed, Alive, Distinct, SkyInSession, DataBetween,
                    DataRight, vars, sky

-----------------------------------------------------------------------------
(* The theorems *)

\* The types are kept, and what the following theorems rest on: the array lists
\* every lantern once, who is pushed is touched, and the save game says who.
THEOREM TypeCorrect == Spec => [](TypeOK /\ SkyInv)
<1>1. Init => SkyInv
  <2> SUFFICES ASSUME Init PROVE SkyInv
    OBVIOUS
  <2>1. CurrentSky = EmptySky
    BY DEF Init, CurrentSky, EmptySky
  <2>2. Len(<<>>) = 0
    OBVIOUS
  <2>3. SkyListed /\ Distinct /\ SkyInSession /\ DataBetween
    BY <2>1, <2>2, EmptySkyKept, ConstantsType
       DEF Init, SkyListed, Distinct, SkyInSession, DataBetween
  <2>4. DataRight
    BY <2>2, ConstantsType DEF Init, DataRight
  <2>5. TypeOK
    <3>1. /\ location \in [Lantern -> Place \cup {Nowhere}]
          /\ NeighborArray \in [Lantern -> SUBSET Lantern]
          /\ level \in [Lantern -> SUBSET Lantern]
      BY EmptySkyKept DEF Init, SkyType, Cell
    <3>2. spawned \in 0 .. MaxSpawned /\ LanternArray \in Seq(1 .. spawned)
      BY ConstantsType DEF Init
    <3>3. LanternDataArray \in Seq([location: Place \cup {Nowhere}, overlapped: SUBSET Nat])
      BY DEF Init
    <3>4. saved \in [location: Seq(Place \cup {Nowhere}), pushes: SUBSET (Nat \X Nat)]
      BY DEF Init
    <3>5. loaded \in BOOLEAN /\ running \in BOOLEAN
      BY DEF Init
    <3> QED BY <3>1, <3>2, <3>3, <3>4, <3>5 DEF TypeOK
  <2> QED BY <2>1, <2>3, <2>4, <2>5, EmptySkyKept DEF SkyInv
<1>2. SkyInv /\ [Next]_vars => SkyInv'
  BY TickStep, SpawnStep, RemoveStep, StartStep, EndStep, CrashStep, SkyStutter DEF Next
<1>3. SkyInv => TypeOK
  BY DEF SkyInv
<1> QED BY <1>1, <1>2, <1>3, PTL DEF Spec

\* The array stays within its capacity and lists every lantern of the sky.
THEOREM ListedCorrect == Spec => []SkyListed
<1>1. SkyInv => SkyListed
  BY DEF SkyInv
<1> QED BY <1>1, TypeCorrect, PTL

\* Every neighbour a lantern is pushed by exists and is touched.
THEOREM NeighborsCorrect == Spec => []NeighborsTouch
BY TypeCorrect, SkyInvNeighborsTouch, PTL

\* Of two lanterns that touch exactly one is pushed, unless they met at the same
\* x or the sky was loaded.
THEOREM PairsCorrect == Spec => []PairsSettled
BY TypeCorrect, SkyInvPairsSettled, PTL


LEMMA LoadedStep ==
  ASSUME SkyInv, Next, ~running, running'
  PROVE  /\ Len(LanternArray') = Len(saved.location)
         /\ \A i \in 1 .. Len(saved.location) :
              /\ location'[LanternArray'[i]] = saved.location[i]
              /\ \A j \in 1 .. Len(saved.location) :
                   <<i, j>> \in saved.pushes =>
                     LanternArray'[j] \in NeighborArray'[LanternArray'[i]]
<1> DEFINE n   == Len(LanternDataArray)
           New == spawned + 1 .. spawned + n
<1>0. StartSession
  BY DEF Next, Tick, SpawnLantern, RemoveAllLantern, EndSession, Crash
<1>1. /\ n \in Nat /\ spawned \in Nat
      /\ LanternArray' = [i \in 1 .. n |-> spawned + i]
      /\ \A l \in New : location'[l] = LanternDataArray[l - spawned].location
      /\ \A l \in New : {spawned + k : k \in LanternDataArray[l - spawned].overlapped}
                          \subseteq NeighborArray'[l]
  BY <1>0, LoadFields
<1>2. /\ Len(saved.location) = n
      /\ \A i \in 1 .. n :
           /\ saved.location[i] = LanternDataArray[i].location
           /\ \A j \in 1 .. n :
                <<i, j>> \in saved.pushes => j \in LanternDataArray[i].overlapped
  BY DEF SkyInv, DataRight
<1>3. Len(LanternArray') = n
  BY <1>1
<1>4. ASSUME NEW i \in 1 .. n
      PROVE  /\ LanternArray'[i] = spawned + i /\ spawned + i \in New
             /\ (spawned + i) - spawned = i
  BY <1>1
<1> HIDE DEF n, New
<1>5. ASSUME NEW i \in 1 .. n PROVE location'[LanternArray'[i]] = saved.location[i]
  BY <1>1, <1>2, <1>4
<1>6. ASSUME NEW i \in 1 .. n, NEW j \in 1 .. n, <<i, j>> \in saved.pushes
      PROVE  LanternArray'[j] \in NeighborArray'[LanternArray'[i]]
  <2>1. j \in LanternDataArray[i].overlapped
    BY <1>2, <1>6
  <2>2. {spawned + k : k \in LanternDataArray[i].overlapped} \subseteq NeighborArray'[spawned + i]
    BY <1>1, <1>4
  <2> QED BY <1>4, <2>1, <2>2
<1> QED BY <1>2, <1>3, <1>5, <1>6

\* A sky is loaded as it was saved: as many lanterns, each at its place and
\* pushed by those that pushed it.
THEOREM LoadedCorrect == Spec => LoadedAsSaved
<1>1. ASSUME SkyInv, [Next]_vars
      PROVE  [~running /\ running' =>
                /\ Len(LanternArray') = Len(saved.location)
                /\ \A i \in 1 .. Len(saved.location) :
                     /\ location'[LanternArray'[i]] = saved.location[i]
                     /\ \A j \in 1 .. Len(saved.location) :
                          <<i, j>> \in saved.pushes =>
                            LanternArray'[j] \in NeighborArray'[LanternArray'[i]]]_vars
  BY <1>1, LoadedStep
<1> QED BY <1>1, TypeCorrect, PTL DEF Spec, LoadedAsSaved

=============================================================================
