---------------------------- MODULE PlayerProofs ----------------------------
(***************************************************************************)
(* Theorems about Player, for every set of tracks, every choice of the     *)
(* playable ones and all track lists.                                      *)
(*                                                                         *)
(* The methods of Player are operators on a player state, so each gets a   *)
(* lemma saying what it keeps and what it establishes; an action is then   *)
(* proved from the lemma of the method it calls.                           *)
(***************************************************************************)
EXTENDS Player, TLAPS, WellFoundedInduction

-----------------------------------------------------------------------------
(* The inductive invariant, as predicates on a player state.               *)

\* The current track's flags follow the player's (one way only: see
\* OutOfStepOnlyOnFirstStart for how the other way is lost).
FlagsFollow(p) ==
  /\ p.current.isPlaying => p.isPlaying
  /\ p.current.isGoingPlaying => p.isLoading

\* OnlyCurrentCellIsLit of a player state.
CellsLit(p) ==
  \A t \in Track :
    /\ p.cells[t].isPlaying => p.current.id = t /\ p.isPlaying
    /\ p.cells[t].isGoingPlaying => p.current.id = t /\ p.isLoading

CellsDark(p) ==
  \A t \in Track : ~ p.cells[t].isPlaying /\ ~ p.cells[t].isGoingPlaying

Sound(p) ==
  /\ p.rate = 1 => p.isPlaying
  /\ HasCurrent(p) => p.observe

\* Positions start at one.
Placed(p) == HasCurrent(p) => p.current.index >= 1

\* PositionIsCurrent of a player state.
AtPosition(p) ==
  (\A i \in DOMAIN p.playlist : p.playlist[i] \in HasUrl) /\ HasCurrent(p) =>
    /\ p.current.index \in DOMAIN p.playlist
    /\ p.playlist[p.current.index] = p.current.id

\* Without a track nothing of the last one is left.
Blank(p) == ~ HasCurrent(p) => p.current = NoCurrent

\* A small player that has been told shows the current track's flags.
SmallsFollow(p) ==
  \A s \in Screen : p.small[s].told =>
    /\ p.small[s].shown
    /\ p.small[s].isPlaying = p.current.isPlaying
    /\ p.small[s].isGoingPlaying = p.current.isGoingPlaying

SmallsShown(p) == \A s \in Screen : p.small[s].told => p.small[s].shown

\* What the setters and the pausing methods need and keep.
Core(p) ==
  p \in PlayerState /\ FlagsFollow(p) /\ Blank(p) /\ CellsLit(p) /\ SmallsFollow(p)

\* What every complete call keeps.
Good(p) == Core(p) /\ Sound(p) /\ Placed(p) /\ AtPosition(p)

\* The same track at the same place of the same list.
SamePlace(p, q) ==
  /\ q.playlist = p.playlist
  /\ q.current.id = p.current.id
  /\ q.current.index = p.current.index

IInv ==
  /\ Good(player)
  /\ pendingEnd \in Track \cup {NoTrack}
  /\ trapped \in BOOLEAN
  /\ trapped => ~ PlayableList

-----------------------------------------------------------------------------
(* The first index of a track in a list.                                   *)

\* firstIndex(where:) finds a track that is in the list: the least of its
\* indices exists because < is well-founded on the naturals.
LEMMA FirstIndexIsIndex ==
  ASSUME NEW list \in Seq(Track), NEW k \in DOMAIN list
  PROVE  /\ FirstIndex(list, list[k]) \in DOMAIN list
         /\ list[FirstIndex(list, list[k])] = list[k]
<1> DEFINE T == {i \in DOMAIN list : list[i] = list[k]}
<1>1. DOMAIN list = 1 .. Len(list) /\ Len(list) \in Nat
  OBVIOUS
<1>2. T \subseteq Nat /\ T # {}
  BY <1>1
<1>3. PICK m \in T : \A j \in T : ~ (<<j, m>> \in OpToRel(<, Nat))
  <2> HIDE DEF T
  <2> QED BY <1>2, NatLessThanWellFounded, WFMin
<1>4. ASSUME NEW j \in 1 .. m - 1 PROVE list[j] # list[k]
  <2>1. m \in 1 .. Len(list)
    BY <1>1
  <2>2. j \in Nat /\ m \in Nat /\ j < m /\ j \in DOMAIN list
    BY <1>1, <2>1
  <2>3. <<j, m>> \in OpToRel(<, Nat)
    BY <2>2 DEF OpToRel
  <2>4. j \notin T
    BY <1>3, <2>3
  <2> QED BY <2>2, <2>4
<1>5. m \in DOMAIN list /\ list[m] = list[k] /\ \A j \in 1 .. m - 1 : list[j] # list[k]
  BY <1>4
<1> QED BY <1>5 DEF FirstIndex

-----------------------------------------------------------------------------
(* The methods.                                                            *)

\* A notification lights or darkens the current track's cell only, as the
\* current track's flags say.
LEMMA NotifyKeeps ==
  ASSUME NEW p, p \in PlayerState, FlagsFollow(p), Blank(p),
         \A t \in Track \ {p.current.id} :
           ~ p.cells[t].isPlaying /\ ~ p.cells[t].isGoingPlaying,
         SmallsShown(p), ~ HasCurrent(p) => SmallsFollow(p)
  PROVE  /\ Core(Notify(p))
         /\ SamePlace(p, Notify(p))
         /\ Notify(p).current = p.current
         /\ Notify(p).isPlaying = p.isPlaying
         /\ Notify(p).isLoading = p.isLoading
         /\ Notify(p).observe = p.observe
         /\ Notify(p).rate = p.rate
<1>1. CASE HasCurrent(p)
  <2>1. p.current.id \in Track
    BY <1>1 DEF HasCurrent, PlayerState, TrackState
  <2> DEFINE cell == [isPlaying      |-> p.current.isPlaying,
                      isGoingPlaying |-> p.current.isGoingPlaying]
             lit == [p.cells EXCEPT ![p.current.id] = cell]
             small == ToldSmall(p)
             q == [p EXCEPT !.panel = p.current, !.cells = lit, !.small = small]
  <2>2. Notify(p) = q
    BY <1>1 DEF Notify
  <2>7. small \in [Screen -> SmallState]
    BY DEF PlayerState, TrackState, SmallState, ToldSmall
  <2>8. \A s \in Screen : small[s].told =>
          /\ small[s].shown
          /\ small[s].isPlaying = p.current.isPlaying
          /\ small[s].isGoingPlaying = p.current.isGoingPlaying
    BY DEF ToldSmall, SmallsShown
  <2> HIDE DEF small
  <2>3. /\ cell \in CellState
        /\ cell.isPlaying = p.current.isPlaying
        /\ cell.isGoingPlaying = p.current.isGoingPlaying
    BY DEF PlayerState, TrackState, CellState
  <2> HIDE DEF cell
  <2>4. /\ lit \in [Track -> CellState]
        /\ \A t \in Track : lit[t] = IF t = p.current.id THEN cell ELSE p.cells[t]
    BY <2>1, <2>3 DEF PlayerState
  <2> HIDE DEF lit
  <2>5. /\ q \in PlayerState /\ q.cells = lit /\ q.current = p.current
        /\ q.isPlaying = p.isPlaying /\ q.isLoading = p.isLoading
        /\ q.observe = p.observe /\ q.rate = p.rate /\ q.playlist = p.playlist
        /\ q.small = small
    BY <2>4, <2>7 DEF PlayerState
  <2> HIDE DEF q
  <2>6. CellsLit(q)
    BY <2>3, <2>4, <2>5 DEF CellsLit, SmallsFollow, FlagsFollow
  <2>9. SmallsFollow(q)
    BY <2>5, <2>8 DEF SmallsFollow
  <2> QED
    BY <2>2, <2>5, <2>6, <2>9 DEF Core, FlagsFollow, Blank, HasCurrent, SamePlace
<1>2. CASE ~ HasCurrent(p)
  <2>1. \A t \in Track : t # p.current.id
    BY <1>2, PlayerAssumption DEF HasCurrent
  <2> QED
    BY <1>2, <2>1 DEF Notify, Core, CellsLit, SmallsFollow, SamePlace
<1> QED BY <1>1, <1>2

\* A setter changes its flag, and of the place nothing.
LEMMA SetIsPlayingKeeps ==
  ASSUME NEW p, NEW b \in BOOLEAN, Core(p)
  PROVE  /\ Core(SetIsPlaying(p, b))
         /\ SamePlace(p, SetIsPlaying(p, b))
         /\ SetIsPlaying(p, b).isPlaying = b
         /\ SetIsPlaying(p, b).isLoading = p.isLoading
         /\ SetIsPlaying(p, b).observe = p.observe
         /\ SetIsPlaying(p, b).rate = p.rate
<1>1. CASE p.isPlaying = b
  BY <1>1 DEF SetIsPlaying, SamePlace
<1>2. CASE p.isPlaying # b
  <2> DEFINE c == IF HasCurrent(p) THEN [p.current EXCEPT !.isPlaying = b] ELSE p.current
             q == [p EXCEPT !.isPlaying = b, !.current = c]
  <2>1. /\ c \in TrackState /\ c.id = p.current.id /\ c.index = p.current.index
        /\ c.isGoingPlaying = p.current.isGoingPlaying
        /\ c.isPlaying => b
        /\ ~ HasCurrent(p) => c = NoCurrent
    <3>1. p.current \in TrackState
      BY DEF Core, PlayerState
    <3>2. CASE HasCurrent(p)
      BY <3>1, <3>2 DEF TrackState
    <3>3. CASE ~ HasCurrent(p)
      <4>1. c = NoCurrent /\ p.current = NoCurrent
        BY <3>3 DEF Core, Blank
      <4> QED
        BY <3>1, <4>1 DEF NoCurrent, TrackAt
    <3> QED BY <3>2, <3>3
  <2>2. /\ q \in PlayerState /\ SamePlace(p, q) /\ q.current = c /\ q.isPlaying = b
        /\ q.isLoading = p.isLoading /\ q.observe = p.observe /\ q.rate = p.rate
        /\ q.cells = p.cells /\ q.small = p.small
    <3> HIDE DEF c
    <3> QED BY <2>1 DEF Core, PlayerState, SamePlace
  <2>3. SetIsPlaying(p, b) = Notify(q)
    BY <1>2 DEF SetIsPlaying
  <2>4. FlagsFollow(q) /\ Blank(q)
    <3> HIDE DEF c, q
    <3> QED BY <2>1, <2>2 DEF Core, FlagsFollow, Blank, HasCurrent
  <2>5. \A t \in Track \ {q.current.id} :
          ~ q.cells[t].isPlaying /\ ~ q.cells[t].isGoingPlaying
    <3> HIDE DEF c, q
    <3> QED BY <2>1, <2>2 DEF Core, CellsLit
  <2>6. SmallsShown(q) /\ (~ HasCurrent(q) => SmallsFollow(q))
    <3>1. SmallsShown(q)
      <4> HIDE DEF c, q
      <4> QED BY <2>2 DEF Core, SmallsFollow, SmallsShown
    <3>2. ASSUME ~ HasCurrent(q) PROVE SmallsFollow(q)
      <4>1. c = NoCurrent /\ p.current = NoCurrent
        <5> HIDE DEF c, q
        <5> QED BY <2>1, <2>2, <3>2 DEF Core, Blank, HasCurrent
      <4> HIDE DEF c, q
      <4> QED BY <2>2, <4>1 DEF Core, SmallsFollow
    <3> QED BY <3>1, <3>2
  <2> HIDE DEF c, q
  <2> QED BY <2>2, <2>3, <2>4, <2>5, <2>6, NotifyKeeps DEF SamePlace
<1> QED BY <1>1, <1>2

\* A small player that is built has been told nothing yet.
LEMMA PresentSmallKeeps ==
  ASSUME NEW p, Core(p)
  PROVE  LET q == PresentSmall(p)
         IN  /\ Core(q) /\ SamePlace(p, q) /\ q.isPlaying = p.isPlaying
             /\ q.isLoading = p.isLoading /\ q.observe = p.observe /\ q.rate = p.rate
<1>1. CASE ~ HasCurrent(p)
  BY <1>1 DEF PresentSmall, SamePlace
<1>2. CASE HasCurrent(p)
  <2> DEFINE small == [s \in Screen |-> IF p.small[s].shown THEN p.small[s] ELSE BuiltSmall]
             q == [p EXCEPT !.small = small]
  <2>1. PresentSmall(p) = q
    BY <1>2 DEF PresentSmall
  <2>2. small \in [Screen -> SmallState]
    BY DEF Core, PlayerState, SmallState, BuiltSmall
  <2>3. \A s \in Screen : small[s].told => small[s] = p.small[s]
    BY DEF BuiltSmall
  <2> HIDE DEF small
  <2>4. /\ q \in PlayerState /\ q.small = small /\ q.current = p.current
        /\ q.cells = p.cells /\ q.isPlaying = p.isPlaying /\ q.isLoading = p.isLoading
        /\ q.observe = p.observe /\ q.rate = p.rate /\ q.playlist = p.playlist
    BY <2>2 DEF Core, PlayerState
  <2> HIDE DEF q
  <2>5. SmallsFollow(q)
    BY <2>3, <2>4 DEF Core, SmallsFollow
  <2> QED
    BY <2>1, <2>4, <2>5 DEF Core, FlagsFollow, Blank, CellsLit, HasCurrent, SamePlace
<1> QED BY <1>1, <1>2

LEMMA SetIsLoadingKeeps ==
  ASSUME NEW p, NEW b \in BOOLEAN, Core(p)
  PROVE  /\ Core(SetIsLoading(p, b))
         /\ SamePlace(p, SetIsLoading(p, b))
         /\ SetIsLoading(p, b).isLoading = b
         /\ SetIsLoading(p, b).isPlaying = p.isPlaying
         /\ SetIsLoading(p, b).observe = p.observe
         /\ SetIsLoading(p, b).rate = p.rate
<1>1. CASE p.isLoading = b
  BY <1>1 DEF SetIsLoading, SamePlace
<1>2. CASE p.isLoading # b
  <2> DEFINE c == IF HasCurrent(p) THEN [p.current EXCEPT !.isGoingPlaying = b]
                  ELSE p.current
             q == [p EXCEPT !.isLoading = b, !.current = c]
  <2>1. /\ c \in TrackState /\ c.id = p.current.id /\ c.index = p.current.index
        /\ c.isPlaying = p.current.isPlaying
        /\ c.isGoingPlaying => b
        /\ ~ HasCurrent(p) => c = NoCurrent
    <3>1. p.current \in TrackState
      BY DEF Core, PlayerState
    <3>2. CASE HasCurrent(p)
      BY <3>1, <3>2 DEF TrackState
    <3>3. CASE ~ HasCurrent(p)
      <4>1. c = NoCurrent /\ p.current = NoCurrent
        BY <3>3 DEF Core, Blank
      <4> QED
        BY <3>1, <4>1 DEF NoCurrent, TrackAt
    <3> QED BY <3>2, <3>3
  <2>2. /\ q \in PlayerState /\ SamePlace(p, q) /\ q.current = c /\ q.isLoading = b
        /\ q.isPlaying = p.isPlaying /\ q.observe = p.observe /\ q.rate = p.rate
        /\ q.cells = p.cells /\ q.small = p.small
    <3> HIDE DEF c
    <3> QED BY <2>1 DEF Core, PlayerState, SamePlace
  <2>3. SetIsLoading(p, b) = IF b THEN PresentSmall(Notify(q)) ELSE Notify(q)
    BY <1>2 DEF SetIsLoading
  <2>4. FlagsFollow(q) /\ Blank(q)
    <3> HIDE DEF c, q
    <3> QED BY <2>1, <2>2 DEF Core, FlagsFollow, Blank, HasCurrent
  <2>5. \A t \in Track \ {q.current.id} :
          ~ q.cells[t].isPlaying /\ ~ q.cells[t].isGoingPlaying
    <3> HIDE DEF c, q
    <3> QED BY <2>1, <2>2 DEF Core, CellsLit
  <2>6. SmallsShown(q) /\ (~ HasCurrent(q) => SmallsFollow(q))
    <3>1. SmallsShown(q)
      <4> HIDE DEF c, q
      <4> QED BY <2>2 DEF Core, SmallsFollow, SmallsShown
    <3>2. ASSUME ~ HasCurrent(q) PROVE SmallsFollow(q)
      <4>1. c = NoCurrent /\ p.current = NoCurrent
        <5> HIDE DEF c, q
        <5> QED BY <2>1, <2>2, <3>2 DEF Core, Blank, HasCurrent
      <4> HIDE DEF c, q
      <4> QED BY <2>2, <4>1 DEF Core, SmallsFollow
    <3> QED BY <3>1, <3>2
  <2> HIDE DEF c, q
  <2> DEFINE r == Notify(q)
  <2>7. /\ Core(r) /\ SamePlace(q, r) /\ r.isPlaying = q.isPlaying
        /\ r.isLoading = q.isLoading /\ r.observe = q.observe /\ r.rate = q.rate
    BY <2>2, <2>4, <2>5, <2>6, NotifyKeeps
  <2> HIDE DEF r
  <2> QED BY <2>2, <2>3, <2>7, PresentSmallKeeps DEF SamePlace, r
<1> QED BY <1>1, <1>2

\* Neither AVPlayer's rate nor the observer is seen by a cell.
LEMMA SetRateKeeps ==
  ASSUME NEW p, NEW r \in {0, 1}, Core(p)
  PROVE  LET q == [p EXCEPT !.rate = r]
         IN  /\ Core(q) /\ SamePlace(p, q) /\ q.rate = r
             /\ q.isPlaying = p.isPlaying /\ q.isLoading = p.isLoading
             /\ q.observe = p.observe
BY DEF Core, PlayerState, FlagsFollow, Blank, CellsLit, SmallsFollow, SamePlace, HasCurrent

LEMMA UpdatePlayerStateKeeps ==
  ASSUME NEW p, Core(p)
  PROVE  LET q == UpdatePlayerState(p)
         IN  /\ Core(q) /\ SamePlace(p, q) /\ q.rate = p.rate
             /\ q.isPlaying = p.isPlaying /\ q.isLoading = p.isLoading
             /\ q.observe = p.observe
<1>1. CASE ~ HasCurrent(p)
  BY <1>1 DEF UpdatePlayerState, SamePlace
<1>2. CASE HasCurrent(p)
  <2> DEFINE first == FirstIn(p.playlist, p.current.id)
             last  == LastIn(p.playlist, p.current.id)
             c == [p.current EXCEPT !.isFirst = first, !.isLast = last]
             q == [p EXCEPT !.current = c]
  <2>1. UpdatePlayerState(p) = q
    BY <1>2 DEF UpdatePlayerState
  <2>2. first \in BOOLEAN /\ last \in BOOLEAN
    BY DEF FirstIn, LastIn
  <2>3. /\ c \in TrackState /\ c.id = p.current.id /\ c.index = p.current.index
        /\ c.isPlaying = p.current.isPlaying
        /\ c.isGoingPlaying = p.current.isGoingPlaying
    <3> HIDE DEF first, last
    <3> QED BY <2>2 DEF Core, PlayerState, TrackState
  <2> HIDE DEF c
  <2>4. /\ q \in PlayerState /\ q.current = c /\ SamePlace(p, q) /\ q.rate = p.rate
        /\ q.isPlaying = p.isPlaying /\ q.isLoading = p.isLoading
        /\ q.observe = p.observe /\ q.cells = p.cells /\ q.small = p.small
    BY <2>3 DEF Core, PlayerState, SamePlace
  <2> HIDE DEF q
  <2>5. FlagsFollow(q) /\ Blank(q) /\ CellsLit(q) /\ SmallsFollow(q)
    BY <1>2, <2>3, <2>4 DEF Core, FlagsFollow, Blank, CellsLit, SmallsFollow, HasCurrent
  <2> QED BY <2>1, <2>4, <2>5 DEF Core
<1> QED BY <1>1, <1>2

\* Pausing turns every flag and the sound off, and every cell dark.
LEMMA PauseKeeps ==
  ASSUME NEW p, Core(p)
  PROVE  LET q == Pause(p)
         IN  /\ Core(q) /\ SamePlace(p, q) /\ q.rate = 0
             /\ ~ q.isPlaying /\ ~ q.isLoading /\ q.observe = p.observe
             /\ CellsDark(q)
<1> DEFINE q1 == [p EXCEPT !.rate = 0]
           q2 == UpdatePlayerState(q1)
           q3 == SetIsPlaying(q2, FALSE)
           q4 == SetIsLoading(q3, FALSE)
<1>1. Pause(p) = q4
  BY DEF Pause
<1>2. Core(q1) /\ SamePlace(p, q1) /\ q1.rate = 0 /\ q1.observe = p.observe
  BY SetRateKeeps
<1> HIDE DEF q1
<1>3. Core(q2) /\ SamePlace(q1, q2) /\ q2.rate = 0 /\ q2.observe = q1.observe
  BY <1>2, UpdatePlayerStateKeeps
<1> HIDE DEF q2
<1>4. /\ Core(q3) /\ SamePlace(q2, q3) /\ q3.rate = 0 /\ q3.observe = q2.observe
      /\ q3.isPlaying = FALSE
  BY <1>3, SetIsPlayingKeeps
<1> HIDE DEF q3
<1>5. /\ Core(q4) /\ SamePlace(q3, q4) /\ q4.rate = 0 /\ q4.observe = q3.observe
      /\ q4.isPlaying = FALSE /\ q4.isLoading = FALSE
  BY <1>4, SetIsLoadingKeeps
<1> HIDE DEF q4
<1>6. CellsDark(q4)
  BY <1>5 DEF Core, CellsLit, SmallsFollow, CellsDark
<1> QED BY <1>1, <1>2, <1>3, <1>4, <1>5, <1>6 DEF SamePlace

\* Playing turns the sound, the flag and the observer on.
LEMMA PlayKeeps ==
  ASSUME NEW p, Core(p)
  PROVE  LET q == Play(p)
         IN  /\ Core(q) /\ SamePlace(p, q)
             /\ q.isPlaying /\ q.observe
<1> DEFINE q1 == [p EXCEPT !.rate = 1]
           q2 == UpdatePlayerState(q1)
           q3 == AddTimeObserve(q2)
           q4 == SetIsPlaying(q3, TRUE)
<1>1. Play(p) = q4
  BY DEF Play
<1>2. Core(q1) /\ SamePlace(p, q1)
  BY SetRateKeeps
<1> HIDE DEF q1
<1>3. Core(q2) /\ SamePlace(q1, q2)
  BY <1>2, UpdatePlayerStateKeeps
<1> HIDE DEF q2
<1>4. Core(q3) /\ SamePlace(q2, q3) /\ q3.observe = TRUE
  BY <1>3 DEF AddTimeObserve, Core, PlayerState, FlagsFollow, Blank, CellsLit, SmallsFollow,
              SamePlace, HasCurrent
<1> HIDE DEF q3
<1>5. Core(q4) /\ SamePlace(q3, q4) /\ q4.isPlaying = TRUE /\ q4.observe = TRUE
  BY <1>4, SetIsPlayingKeeps
<1> HIDE DEF q4
<1> QED BY <1>1, <1>2, <1>3, <1>4, <1>5 DEF SamePlace

\* Stopping leaves no cell lit, and a track only if nothing observes it.
LEMMA StopCurrentKeeps ==
  ASSUME NEW p, Core(p), Sound(p)
  PROVE  LET q == StopCurrent(p)
         IN  Core(q) /\ CellsDark(q) /\ q.playlist = p.playlist /\ ~ HasCurrent(q)
<1>1. CASE ~ HasCurrent(p)
  <2>1. \A t \in Track : t # p.current.id
    BY <1>1, PlayerAssumption DEF HasCurrent
  <2> QED BY <1>1, <2>1 DEF StopCurrent, Core, CellsLit, SmallsFollow, CellsDark
<1>2. CASE HasCurrent(p)
  <2> DEFINE q == Pause(p)
             r == [q EXCEPT !.observe = FALSE, !.current = NoCurrent]
  <2>1. /\ Core(q) /\ CellsDark(q) /\ q.observe /\ q.playlist = p.playlist
        /\ ~ q.isPlaying /\ ~ q.isLoading
    BY <1>2, PauseKeeps DEF Sound, SamePlace
  <2>2. StopCurrent(p) = r
    BY <1>2, <2>1 DEF StopCurrent, RemoveTimeObserve
  <2> HIDE DEF q
  <2>3. /\ r \in PlayerState /\ r.current = NoCurrent
        /\ r.cells = q.cells /\ r.playlist = q.playlist /\ r.small = q.small
    <3>1. NoCurrent \in TrackState
      BY DEF NoCurrent, TrackAt, TrackState
    <3> QED BY <2>1, <3>1 DEF Core, PlayerState
  <2> HIDE DEF r
  <2>4. ~ HasCurrent(r) /\ ~ r.current.isPlaying /\ ~ r.current.isGoingPlaying
        /\ r.current.isPlaying \in BOOLEAN /\ r.current.isGoingPlaying \in BOOLEAN
    BY <2>3 DEF HasCurrent, NoCurrent, TrackAt, PlayerState, TrackState
  <2>5. SmallsFollow(r)
    <3>1. /\ ~ q.current.isPlaying /\ ~ q.current.isGoingPlaying
          /\ q.current.isPlaying \in BOOLEAN /\ q.current.isGoingPlaying \in BOOLEAN
      BY <2>1 DEF Core, FlagsFollow, PlayerState, TrackState
    <3> QED BY <2>1, <2>3, <2>4, <3>1 DEF Core, SmallsFollow
  <2>6. Core(r) /\ CellsDark(r)
    BY <2>1, <2>3, <2>4, <2>5 DEF Core, FlagsFollow, Blank, CellsLit, CellsDark
  <2> QED BY <2>1, <2>2, <2>3, <2>4, <2>6
<1> QED BY <1>1, <1>2

\* Starting a playable track: the player is good as soon as the index is
\* that of the track in the list, or the list has an unplayable one.
LEMMA StartPlayAtKeeps ==
  ASSUME NEW p, Core(p), Sound(p), NEW t \in HasUrl, NEW i \in Nat \ {0},
         (\A j \in DOMAIN p.playlist : p.playlist[j] \in HasUrl) =>
            i \in DOMAIN p.playlist /\ p.playlist[i] = t
  PROVE  LET q == StartPlayAt(p, t, i)
         IN  Good(q) /\ q.playlist = p.playlist
<1> DEFINE q1 == StopCurrent(p)
           q2 == [q1 EXCEPT !.current = TrackAt(t, i)]
           q3 == SetIsLoading(q2, TRUE)
           q4 == EnableRemote(q3)
           q5 == Play(q4)
<1>1. StartPlayAt(p, t, i) = q5
  BY DEF StartPlayAt
<1>2. Core(q1) /\ CellsDark(q1) /\ q1.playlist = p.playlist /\ ~ HasCurrent(q1)
  BY StopCurrentKeeps
<1> HIDE DEF q1
<1>3. /\ Core(q2) /\ q2.playlist = p.playlist
      /\ q2.current.id = t /\ q2.current.index = i
  <2>1. TrackAt(t, i) \in TrackState
    BY PlayerAssumption DEF TrackAt, TrackState
  <2>2. /\ q2 \in PlayerState /\ q2.current = TrackAt(t, i)
        /\ q2.cells = q1.cells /\ q2.playlist = q1.playlist /\ q2.small = q1.small
    BY <1>2, <2>1 DEF Core, PlayerState
  <2>3. q2.current.id = t /\ q2.current.index = i
        /\ ~ q2.current.isPlaying /\ ~ q2.current.isGoingPlaying
    BY <2>2 DEF TrackAt
  <2>4. HasCurrent(q2)
    BY <2>3, PlayerAssumption DEF HasCurrent
  <2> HIDE DEF q2
  <2>5. /\ q2.current.isPlaying = q1.current.isPlaying
        /\ q2.current.isGoingPlaying = q1.current.isGoingPlaying
    <3>1. q1.current = NoCurrent
      BY <1>2 DEF Core, Blank
    <3> QED BY <2>2, <3>1 DEF NoCurrent, TrackAt
  <2>6. SmallsFollow(q2)
    BY <1>2, <2>2, <2>5 DEF Core, SmallsFollow
  <2> QED
    BY <1>2, <2>2, <2>3, <2>4, <2>6 DEF Core, FlagsFollow, Blank, CellsLit, CellsDark
<1> HIDE DEF q2
<1>4. Core(q3) /\ SamePlace(q2, q3)
  BY <1>3, SetIsLoadingKeeps
<1> HIDE DEF q3
<1>5. Core(q4) /\ SamePlace(q3, q4)
  BY <1>4 DEF EnableRemote, AtLast, AtFirst, Core, PlayerState, FlagsFollow, Blank,
              CellsLit, SmallsFollow, SamePlace, HasCurrent
<1> HIDE DEF q4
<1>6. Core(q5) /\ SamePlace(q4, q5) /\ q5.isPlaying /\ q5.observe
  BY <1>5, PlayKeeps
<1> HIDE DEF q5
<1>7. q5.playlist = p.playlist /\ q5.current.id = t /\ q5.current.index = i
  BY <1>3, <1>4, <1>5, <1>6 DEF SamePlace
<1> QED BY <1>1, <1>6, <1>7 DEF Good, Sound, Placed, AtPosition

\* Pausing, playing and the seeking that ends in playing are complete calls.
LEMMA PauseIsGood ==
  ASSUME NEW p, Good(p)
  PROVE  Good(Pause(p)) /\ Pause(p).playlist = p.playlist
<1> DEFINE q == Pause(p)
<1>1. /\ Core(q) /\ SamePlace(p, q) /\ q.rate = 0 /\ q.observe = p.observe
  BY PauseKeeps DEF Good
<1> HIDE DEF q
<1>2. Good(q) /\ q.playlist = p.playlist
  BY <1>1 DEF Good, Sound, Placed, AtPosition, SamePlace, HasCurrent
<1> QED BY <1>2 DEF q

LEMMA PlayIsGood ==
  ASSUME NEW p, Core(p), Placed(p), AtPosition(p)
  PROVE  Good(Play(p)) /\ Play(p).playlist = p.playlist
<1> DEFINE q == Play(p)
<1>1. Core(q) /\ SamePlace(p, q) /\ q.isPlaying /\ q.observe
  BY PlayKeeps
<1> HIDE DEF q
<1>2. Good(q) /\ q.playlist = p.playlist
  BY <1>1 DEF Good, Sound, Placed, AtPosition, SamePlace, HasCurrent
<1> QED BY <1>2 DEF q

LEMMA PlayOrPauseIsGood ==
  ASSUME NEW p, Good(p)
  PROVE  Good(PlayOrPause(p)) /\ PlayOrPause(p).playlist = p.playlist
BY PauseIsGood, PlayIsGood DEF PlayOrPause, Good

LEMMA PlayerSeekIsGood ==
  ASSUME NEW p, Good(p)
  PROVE  Good(PlayerSeek(p)) /\ PlayerSeek(p).playlist = p.playlist
<1> DEFINE q == SetIsLoading(p, TRUE)
<1>1. Core(q) /\ SamePlace(p, q)
  BY SetIsLoadingKeeps DEF Good
<1>2. PlayerSeek(p) = Play(q)
  BY DEF PlayerSeek
<1> HIDE DEF q
<1>3. Placed(q) /\ AtPosition(q) /\ q.playlist = p.playlist
  BY <1>1 DEF Good, Placed, AtPosition, SamePlace, HasCurrent
<1> QED BY <1>1, <1>2, <1>3, PlayIsGood

\* Next and previous, where the subscript is in range.
LEMMA PlayNextIsGood ==
  ASSUME NEW p, Good(p), ~ AdvanceTraps(p)
  PROVE  Good(PlayNext(p)) /\ PlayNext(p).playlist = p.playlist
<1>1. CASE ~ CanAdvance(p)
  BY <1>1, PauseIsGood DEF PlayNext
<1>2. CASE CanAdvance(p)
  <2> DEFINE i == p.current.index + 1
             t == p.playlist[i]
  <2>1. p.playlist \in Seq(Track) /\ p.current.index \in Nat
    BY DEF Good, Core, PlayerState, TrackState
  <2>2. i \in Nat \ {0} /\ i \in DOMAIN p.playlist
    BY <1>2, <2>1 DEF AdvanceTraps
  <2>3. PlayNext(p) = StartPlayAt(p, t, i)
    BY <1>2 DEF PlayNext
  <2> HIDE DEF i
  <2>4. CASE t \in HasUrl
    BY <2>2, <2>3, <2>4, StartPlayAtKeeps DEF Good
  <2>5. CASE t \notin HasUrl
    BY <2>3, <2>5 DEF StartPlayAt
  <2> QED BY <2>4, <2>5
<1> QED BY <1>1, <1>2

LEMMA PlayPreviousIsGood ==
  ASSUME NEW p, Good(p), ~ BackTraps(p)
  PROVE  Good(PlayPrevious(p)) /\ PlayPrevious(p).playlist = p.playlist
<1>1. CASE ~ CanGoBack(p)
  BY <1>1 DEF PlayPrevious
<1>2. CASE CanGoBack(p)
  <2> DEFINE i == p.current.index - 1
             t == p.playlist[i]
  <2>1. p.playlist \in Seq(Track) /\ p.current.index \in Nat
    BY DEF Good, Core, PlayerState, TrackState
  <2>2. i \in Nat \ {0} /\ i \in DOMAIN p.playlist
    BY <1>2, <2>1 DEF BackTraps, CanGoBack, AtFirst, Good, Placed
  <2>3. PlayPrevious(p) = StartPlayAt(p, t, i)
    BY <1>2 DEF PlayPrevious
  <2> HIDE DEF i
  <2>4. CASE t \in HasUrl
    BY <2>2, <2>3, <2>4, StartPlayAtKeeps DEF Good
  <2>5. CASE t \notin HasUrl
    BY <2>3, <2>5 DEF StartPlayAt
  <2> QED BY <2>4, <2>5
<1> QED BY <1>1, <1>2

\* A cell's play button: the new list is in place whether or not its track
\* can start, which is why the position is only good in playable lists.
LEMMA ConformIsGood ==
  ASSUME NEW p, Good(p), NEW list \in Playlists, NEW k \in DOMAIN list
  PROVE  Good(ConformTrack(p, list[k], list))
<1> DEFINE t == list[k]
<1>1. list \in Seq(Track) /\ t \in Track
  BY PlayerAssumption
<1>2. CASE p.current.id = t
  BY <1>2, PlayOrPauseIsGood DEF ConformTrack
<1>3. CASE p.current.id # t
  <2> DEFINE i == FirstIndex(list, t)
             q == [p EXCEPT !.playlist = list]
             r == UpdatePlayerState(q)
  <2>1. i \in DOMAIN list /\ list[i] = t
    BY <1>1, FirstIndexIsIndex
  <2>2. i \in Nat \ {0}
    BY <1>1, <2>1
  <2>3. ConformTrack(p, t, list) = StartPlayAt(r, t, i)
    BY <1>3 DEF ConformTrack, StartPlayList
  <2> HIDE DEF i
  <2>4. /\ Core(q) /\ Sound(q) /\ Placed(q) /\ q.playlist = list
    BY <1>1 DEF Good, Core, PlayerState, FlagsFollow, Blank, CellsLit, SmallsFollow, Sound, Placed,
                HasCurrent
  <2> HIDE DEF q
  <2>5. Core(r) /\ Sound(r) /\ Placed(r) /\ r.playlist = list
    BY <2>4, UpdatePlayerStateKeeps DEF Sound, Placed, SamePlace, HasCurrent
  <2> HIDE DEF r
  <2>6. CASE t \in HasUrl
    BY <2>1, <2>2, <2>3, <2>5, <2>6, StartPlayAtKeeps
  <2>7. CASE t \notin HasUrl
    <3>1. ConformTrack(p, t, list) = r
      BY <2>3, <2>7 DEF StartPlayAt
    <3>2. AtPosition(r)
      BY <2>5, <2>7 DEF AtPosition
    <3> QED BY <2>5, <3>1, <3>2 DEF Good
  <2> QED BY <2>6, <2>7
<1> QED BY <1>2, <1>3

LEMMA TickIsGood ==
  ASSUME NEW p, Good(p)
  PROVE  Good(TickBody(p)) /\ TickBody(p).playlist = p.playlist
<1> DEFINE q == SetIsLoading(p, FALSE)
           r == Notify(q)
<1>1. /\ Core(q) /\ SamePlace(p, q) /\ q.isPlaying = p.isPlaying
      /\ q.observe = p.observe /\ q.rate = p.rate
  BY SetIsLoadingKeeps DEF Good
<1>2. TickBody(p) = r
  BY DEF TickBody
<1> HIDE DEF q
<1>3. \A t \in Track \ {q.current.id} :
        ~ q.cells[t].isPlaying /\ ~ q.cells[t].isGoingPlaying
  BY <1>1 DEF Core, CellsLit, SmallsFollow
<1>4. /\ Core(r) /\ SamePlace(q, r) /\ r.isPlaying = q.isPlaying
      /\ r.observe = q.observe /\ r.rate = q.rate
  BY <1>1, <1>3, NotifyKeeps DEF Core, SmallsFollow, SmallsShown
<1> HIDE DEF r
<1>5. Good(r) /\ r.playlist = p.playlist
  BY <1>1, <1>4 DEF Good, Sound, Placed, AtPosition, SamePlace, HasCurrent
<1> QED BY <1>2, <1>5

-----------------------------------------------------------------------------
(* The invariant.                                                          *)

\* A subscript out of range means that the list is not playable: in a
\* playable list the position is that of the current track.
LEMMA TrapsUnplayable ==
  ASSUME NEW p, Good(p), AdvanceTraps(p) \/ BackTraps(p)
  PROVE  ~ \A i \in DOMAIN p.playlist : p.playlist[i] \in HasUrl
<1>1. p.playlist \in Seq(Track) /\ p.current.index \in Nat /\ HasCurrent(p)
  BY DEF Good, Core, PlayerState, TrackState, AdvanceTraps, BackTraps, CanAdvance,
         CanGoBack
<1> SUFFICES ASSUME p.current.index \in 1 .. Len(p.playlist) PROVE FALSE
  BY <1>1 DEF Good, AtPosition
<1> QED
  BY <1>1 DEF AdvanceTraps, BackTraps, CanAdvance, AtLast

LEMMA InitialPlayerIsGood == Good(InitialPlayer)
<1>1. InitialPlayer \in PlayerState
  BY DEF InitialPlayer, PlayerState, NoCurrent, TrackAt, TrackState, CellState,
         SmallState, NoSmall, Screen
<1> QED
  BY <1>1, PlayerAssumption
     DEF InitialPlayer, Good, Core, FlagsFollow, Blank, CellsLit, SmallsFollow, Sound, Placed,
         AtPosition, HasCurrent, NoCurrent, NoSmall, TrackAt

LEMMA InitialIsGood == Init => IInv
BY InitialPlayerIsGood DEF Init, IInv

\* A call keeps the invariant when it returns a good player.
LEMMA CallsKeep ==
  ASSUME IInv, NEW p, Calls(p), Good(p)
  PROVE  IInv'
BY DEF IInv, Calls, PlayableList

LEMMA StepIsGood == IInv /\ [Next]_vars => IInv'
<1> SUFFICES ASSUME IInv, [Next]_vars PROVE IInv'
  OBVIOUS
<1>0. Good(player)
  BY DEF IInv
<1>1. CASE Conform
  <2>1. PICK list \in Playlists :
          \E k \in DOMAIN list : Calls(ConformTrack(player, list[k], list))
    BY <1>1 DEF Conform
  <2>2. PICK k \in DOMAIN list : Calls(ConformTrack(player, list[k], list))
    BY <2>1
  <2> QED BY <1>0, <2>2, ConformIsGood, CallsKeep
<1>2. CASE TogglePlayPause
  BY <1>0, <1>2, PlayOrPauseIsGood, CallsKeep DEF TogglePlayPause
<1>3. CASE ScrubBegins
  BY <1>0, <1>3, PauseIsGood, CallsKeep DEF ScrubBegins
<1>4. CASE Seek
  BY <1>0, <1>4, PlayerSeekIsGood, CallsKeep DEF Seek
<1>5. CASE NextTapped
  <2>1. CASE AdvanceTraps(player)
    BY <1>0, <1>5, <2>1, TrapsUnplayable DEF NextTapped, Trap, IInv, PlayableList
  <2>2. CASE ~ AdvanceTraps(player)
    BY <1>0, <1>5, <2>2, PlayNextIsGood, CallsKeep DEF NextTapped
  <2> QED BY <2>1, <2>2
<1>6. CASE PreviousTapped
  <2>1. CASE BackTraps(player)
    BY <1>0, <1>6, <2>1, TrapsUnplayable DEF PreviousTapped, Trap, IInv, PlayableList
  <2>2. CASE ~ BackTraps(player)
    BY <1>0, <1>6, <2>2, PlayPreviousIsGood, CallsKeep DEF PreviousTapped
  <2> QED BY <2>1, <2>2
<1>7. ASSUME NEW t \in Track, CellAppears(t) PROVE IInv'
  <2> DEFINE cell == [isPlaying      |-> player.current.id = t /\ player.isPlaying,
                      isGoingPlaying |-> player.current.id = t /\ player.isLoading]
             lit == [player.cells EXCEPT ![t] = cell]
             q == [player EXCEPT !.cells = lit]
  <2>1. Calls(q)
    BY <1>7 DEF CellAppears
  <2>2. /\ cell \in CellState
        /\ cell.isPlaying => player.current.id = t /\ player.isPlaying
        /\ cell.isGoingPlaying => player.current.id = t /\ player.isLoading
    BY <1>0 DEF Good, Core, PlayerState, CellState
  <2> HIDE DEF cell
  <2>3. /\ lit \in [Track -> CellState]
        /\ \A u \in Track : lit[u] = IF u = t THEN cell ELSE player.cells[u]
    BY <1>0, <2>2 DEF Good, Core, PlayerState
  <2> HIDE DEF lit
  <2>4. Core(q)
    BY <1>0, <2>2, <2>3
       DEF Good, Core, PlayerState, FlagsFollow, Blank, CellsLit, SmallsFollow, HasCurrent
  <2>5. Good(q)
    BY <1>0, <2>4 DEF Good, Core, PlayerState, Sound, Placed, AtPosition, HasCurrent
  <2> HIDE DEF q
  <2> QED BY <2>1, <2>5, CallsKeep
<1>8. CASE BigPlayerOpens
  <2> DEFINE q == [player EXCEPT !.panel = player.current]
  <2>1. Good(q)
    BY <1>0 DEF Good, Core, PlayerState, FlagsFollow, Blank, CellsLit, SmallsFollow, Sound, Placed,
                AtPosition, HasCurrent
  <2>2. Calls(q)
    BY <1>8 DEF BigPlayerOpens
  <2> HIDE DEF q
  <2> QED BY <2>1, <2>2, CallsKeep
<1>9. CASE Tick
  BY <1>0, <1>9, TickIsGood, CallsKeep DEF Tick
<1>10. ASSUME player.rate = 1, player' = [player EXCEPT !.rate = 0]
       PROVE  Good(player') /\ player'.playlist = player.playlist
               /\ player'.current = player.current
  BY <1>0, <1>10 DEF Good, Core, PlayerState, FlagsFollow, Blank, CellsLit, SmallsFollow, Sound,
                     Placed, AtPosition, HasCurrent
<1>11. CASE ItemEnds
  <2>1. pendingEnd' \in Track
    BY <1>0, <1>11 DEF ItemEnds, HasCurrent, Good, Core, PlayerState, TrackState
  <2> QED BY <1>10, <1>11, <2>1 DEF ItemEnds, IInv, PlayableList
<1>12. CASE EndDelivered
  <2>1. CASE AdvanceTraps(player)
    BY <1>0, <1>12, <2>1, TrapsUnplayable DEF EndDelivered, Trap, IInv, PlayableList
  <2>2. CASE ~ AdvanceTraps(player)
    BY <1>0, <1>12, <2>2, PlayNextIsGood DEF EndDelivered, IInv
  <2> QED BY <2>1, <2>2
<1>13. CASE Interrupted
  BY <1>10, <1>13, CallsKeep DEF Interrupted, Calls, IInv, PlayableList
<1>14. CASE Relaunch
  BY <1>14, InitialPlayerIsGood DEF Relaunch, IInv
<1>15. CASE DetailOpens
  <2> DEFINE small == [player.small EXCEPT !["detail"] =
                         IF HasCurrent(player) THEN BuiltSmall ELSE NoSmall]
             q == [player EXCEPT !.small = small]
  <2>1. Calls(q)
    BY <1>15 DEF DetailOpens
  <2>2. /\ small \in [Screen -> SmallState]
        /\ \A s \in Screen : small[s].told => small[s] = player.small[s]
    BY <1>0 DEF Good, Core, PlayerState, SmallState, BuiltSmall, NoSmall, Screen
  <2> HIDE DEF small
  <2>3. Good(q)
    BY <1>0, <2>2 DEF Good, Core, PlayerState, FlagsFollow, Blank, CellsLit,
                      SmallsFollow, Sound, Placed, AtPosition, HasCurrent
  <2> HIDE DEF q
  <2> QED BY <2>1, <2>3, CallsKeep
<1>16. CASE UNCHANGED vars
  BY <1>16 DEF vars, IInv, PlayableList
<1> QED
  BY <1>1, <1>2, <1>3, <1>4, <1>5, <1>6, <1>7, <1>8, <1>9, <1>11, <1>12, <1>13,
     <1>14, <1>15, <1>16 DEF Next

\* The invariant holds of every reachable state.
THEOREM Inductive == Spec => []IInv
BY InitialIsGood, StepIsGood, PTL DEF Spec

\* The player, its cells and its panel always have the declared types.
THEOREM TypeCorrect == Spec => []TypeOK
<1>1. IInv => TypeOK
  BY DEF IInv, Good, Core, TypeOK
<1> QED BY <1>1, Inductive, PTL

\* Only the current track's cell shows that it plays or loads.
THEOREM CellsAreRight == Spec => []OnlyCurrentCellIsLit
<1>1. IInv => OnlyCurrentCellIsLit
  BY DEF IInv, Good, Core, CellsLit, SmallsFollow, OnlyCurrentCellIsLit
<1> QED BY <1>1, Inductive, PTL

\* Sound only while isPlaying, a current track only with its observer.
THEOREM SoundIsRight == Spec => []SoundIsAccountedFor
<1>1. IInv => SoundIsAccountedFor
  BY DEF IInv, Good, Sound, SoundIsAccountedFor
<1> QED BY <1>1, Inductive, PTL

\* In playable lists the position is that of the current track.
THEOREM PositionIsRight == Spec => []PositionIsCurrent
<1>1. IInv => PositionIsCurrent
  BY DEF IInv, Good, AtPosition, PositionIsCurrent, PlayableList
<1> QED BY <1>1, Inductive, PTL

\* The unchecked subscripts are out of range only in unplayable lists.
THEOREM TrapsAreExplained == Spec => []TrapsOnlyOnUnplayableList
<1>1. IInv => TrapsOnlyOnUnplayableList
  BY DEF IInv, TrapsOnlyOnUnplayableList
<1> QED BY <1>1, Inductive, PTL

\* The small players show what the current track does.
THEOREM SmallPlayersAreRight == Spec => []SmallPlayersFollow
<1>1. IInv => SmallPlayersFollow
  BY DEF IInv, Good, Core, SmallsFollow, SmallPlayersFollow
<1> QED BY <1>1, Inductive, PTL

-----------------------------------------------------------------------------
(* The steps: what one call may do to the agreement of the player with its *)
(* track, to the small players on show and to the big player.  Every       *)
(* method keeps the first two, except that the start of a first track      *)
(* meets whatever commands without a track have left behind.               *)

AllShown(p) == \A s \in Screen : p.small[s].shown

\* What every method keeps.
Moves(p, q) ==
  /\ InStep(p) => InStep(q)
  /\ AllShown(p) => AllShown(q)

\* The start of a track that follows another, or nothing that was going on.
Starts(p, q) ==
  /\ HasCurrent(p) \/ ~ p.isPlaying => InStep(q)
  /\ HasCurrent(p) \/ ~ p.isLoading => AllShown(q)

-----------------------------------------------------------------------------
(* The methods.                                                            *)

\* An announcement leaves the player alone and hides no small player.
LEMMA NotifyMoves ==
  ASSUME NEW p, p \in PlayerState
  PROVE  LET q == Notify(p)
         IN  /\ q.current = p.current /\ q.isPlaying = p.isPlaying
             /\ AllShown(p) => AllShown(q)
BY DEF Notify, ToldSmall, AllShown, PlayerState

\* A change of isPlaying reaches the current track, if there is one.
LEMMA SetIsPlayingMoves ==
  ASSUME NEW p, NEW b \in BOOLEAN, Core(p)
  PROVE  Moves(p, SetIsPlaying(p, b))
<1>1. CASE p.isPlaying = b
  BY <1>1 DEF SetIsPlaying, Moves
<1>2. CASE p.isPlaying # b
  <2> DEFINE c == IF HasCurrent(p) THEN [p.current EXCEPT !.isPlaying = b] ELSE p.current
             q == [p EXCEPT !.isPlaying = b, !.current = c]
             r == Notify(q)
  <2>1. /\ c \in TrackState /\ c.id = p.current.id
        /\ HasCurrent(p) => c.isPlaying = b
    BY DEF Core, PlayerState, TrackState
  <2>2. SetIsPlaying(p, b) = r
    BY <1>2 DEF SetIsPlaying
  <2> HIDE DEF c
  <2>3. /\ q \in PlayerState /\ q.current = c /\ q.isPlaying = b /\ q.small = p.small
    BY <2>1 DEF Core, PlayerState
  <2> HIDE DEF q
  <2>4. /\ r.current = c /\ r.isPlaying = b
        /\ AllShown(q) => AllShown(r)
    BY <2>3, NotifyMoves
  <2> HIDE DEF r
  <2>5. InStep(r)
    BY <2>1, <2>4 DEF InStep, HasCurrent
  <2>6. AllShown(p) => AllShown(q)
    BY <2>3 DEF AllShown
  <2> QED BY <2>2, <2>4, <2>5, <2>6 DEF Moves
<1> QED BY <1>1, <1>2

\* Loading that starts brings up every small player.
LEMMA SetIsLoadingMoves ==
  ASSUME NEW p, NEW b \in BOOLEAN, Core(p)
  PROVE  /\ Moves(p, SetIsLoading(p, b))
         /\ b /\ ~ p.isLoading /\ HasCurrent(p) => AllShown(SetIsLoading(p, b))
<1>1. CASE p.isLoading = b
  BY <1>1 DEF SetIsLoading, Moves
<1>2. CASE p.isLoading # b
  <2> DEFINE c == IF HasCurrent(p) THEN [p.current EXCEPT !.isGoingPlaying = b]
                  ELSE p.current
             q == [p EXCEPT !.isLoading = b, !.current = c]
             r == Notify(q)
             t == IF b THEN PresentSmall(r) ELSE r
  <2>1. /\ c \in TrackState /\ c.id = p.current.id /\ c.isPlaying = p.current.isPlaying
    BY DEF Core, PlayerState, TrackState
  <2>2. SetIsLoading(p, b) = t
    BY <1>2 DEF SetIsLoading
  <2> HIDE DEF c
  <2>3. /\ q \in PlayerState /\ q.current = c /\ q.isPlaying = p.isPlaying
        /\ q.small = p.small
    BY <2>1 DEF Core, PlayerState
  <2> HIDE DEF q
  <2>4. /\ r.current = c /\ r.isPlaying = p.isPlaying
        /\ AllShown(q) => AllShown(r)
    BY <2>3, NotifyMoves
  <2>5. "small" \in DOMAIN r /\ r = [r EXCEPT !.small = r.small]
    BY <2>3 DEF r, Notify, PlayerState
  <2> HIDE DEF r
  <2>6. /\ t.current = c /\ t.isPlaying = p.isPlaying
        /\ AllShown(r) => AllShown(t)
        /\ b /\ HasCurrent(r) => AllShown(t)
    BY <2>4, <2>5 DEF PresentSmall, AllShown, BuiltSmall
  <2> HIDE DEF t
  <2>7. InStep(p) => InStep(t)
    BY <2>1, <2>6 DEF InStep, HasCurrent
  <2>8. AllShown(p) => AllShown(q)
    BY <2>3 DEF AllShown
  <2>9. HasCurrent(p) => HasCurrent(r)
    BY <2>1, <2>4 DEF HasCurrent
  <2> QED BY <2>2, <2>4, <2>6, <2>7, <2>8, <2>9 DEF Moves
<1> QED BY <1>1, <1>2

LEMMA UpdatePlayerStateMoves ==
  ASSUME NEW p, Core(p)
  PROVE  Moves(p, UpdatePlayerState(p))
<1> DEFINE first == FirstIn(p.playlist, p.current.id)
           last  == LastIn(p.playlist, p.current.id)
           c == [p.current EXCEPT !.isFirst = first, !.isLast = last]
           q == [p EXCEPT !.current = c]
<1>1. UpdatePlayerState(p) = IF HasCurrent(p) THEN q ELSE p
  BY DEF UpdatePlayerState
<1>2. c.id = p.current.id /\ c.isPlaying = p.current.isPlaying
  BY DEF Core, PlayerState, TrackState
<1> HIDE DEF c
<1>3. q.current = c /\ q.isPlaying = p.isPlaying /\ q.small = p.small
  BY DEF Core, PlayerState
<1> HIDE DEF q
<1> QED BY <1>1, <1>2, <1>3 DEF Moves, InStep, AllShown, HasCurrent

\* Neither the rate nor the observer matters here.
LEMMA PlayMoves ==
  ASSUME NEW p, Core(p)
  PROVE  Moves(p, Play(p))
<1> DEFINE q1 == [p EXCEPT !.rate = 1]
           q2 == UpdatePlayerState(q1)
           q3 == AddTimeObserve(q2)
           q4 == SetIsPlaying(q3, TRUE)
<1>1. Play(p) = q4
  BY DEF Play
<1>2. Core(q1) /\ Moves(p, q1)
  <2>1. Moves(p, q1)
    BY DEF Moves, InStep, AllShown, HasCurrent, Core, PlayerState
  <2> QED BY <2>1, SetRateKeeps
<1> HIDE DEF q1
<1>3. Core(q2) /\ Moves(q1, q2)
  BY <1>2, UpdatePlayerStateKeeps, UpdatePlayerStateMoves
<1> HIDE DEF q2
<1>4. Core(q3) /\ Moves(q2, q3)
  BY <1>3 DEF AddTimeObserve, Core, PlayerState, FlagsFollow, Blank, CellsLit,
              SmallsFollow, Moves, InStep, AllShown, HasCurrent
<1> HIDE DEF q3
<1>5. Moves(q3, q4)
  BY <1>4, SetIsPlayingMoves
<1> HIDE DEF q4
<1> QED BY <1>1, <1>2, <1>3, <1>4, <1>5 DEF Moves

LEMMA PauseMoves ==
  ASSUME NEW p, Core(p)
  PROVE  Moves(p, Pause(p))
<1> DEFINE q1 == [p EXCEPT !.rate = 0]
           q2 == UpdatePlayerState(q1)
           q3 == SetIsPlaying(q2, FALSE)
           q4 == SetIsLoading(q3, FALSE)
<1>1. Pause(p) = q4
  BY DEF Pause
<1>2. Core(q1) /\ Moves(p, q1)
  <2>1. Moves(p, q1)
    BY DEF Moves, InStep, AllShown, HasCurrent, Core, PlayerState
  <2> QED BY <2>1, SetRateKeeps
<1> HIDE DEF q1
<1>3. Core(q2) /\ Moves(q1, q2)
  BY <1>2, UpdatePlayerStateKeeps, UpdatePlayerStateMoves
<1> HIDE DEF q2
<1>4. Core(q3) /\ Moves(q2, q3)
  BY <1>3, SetIsPlayingKeeps, SetIsPlayingMoves
<1> HIDE DEF q3
<1>5. Moves(q3, q4)
  BY <1>4, SetIsLoadingMoves
<1> HIDE DEF q4
<1> QED BY <1>1, <1>2, <1>3, <1>4, <1>5 DEF Moves

LEMMA PlayOrPauseMoves ==
  ASSUME NEW p, Core(p)
  PROVE  Moves(p, PlayOrPause(p))
BY PlayMoves, PauseMoves DEF PlayOrPause

LEMMA PlayerSeekMoves ==
  ASSUME NEW p, Core(p)
  PROVE  Moves(p, PlayerSeek(p))
<1> DEFINE q == SetIsLoading(p, TRUE)
<1>1. Core(q) /\ Moves(p, q)
  BY SetIsLoadingKeeps, SetIsLoadingMoves
<1>2. PlayerSeek(p) = Play(q)
  BY DEF PlayerSeek
<1> HIDE DEF q
<1>3. Moves(q, Play(q))
  BY <1>1, PlayMoves
<1> QED BY <1>1, <1>2, <1>3 DEF Moves

\* A track that is stopped leaves neither playing nor loading on.
LEMMA StopCurrentQuiet ==
  ASSUME NEW p, Core(p), Sound(p)
  PROVE  LET q == StopCurrent(p)
         IN  /\ HasCurrent(p) \/ ~ p.isPlaying => ~ q.isPlaying
             /\ HasCurrent(p) \/ ~ p.isLoading => ~ q.isLoading
<1>1. CASE ~ HasCurrent(p)
  BY <1>1 DEF StopCurrent
<1>2. CASE HasCurrent(p)
  <2> DEFINE q == Pause(p)
             r == IF q.observe THEN [q EXCEPT !.observe = FALSE, !.current = NoCurrent]
                  ELSE q
  <2>1. /\ q \in PlayerState /\ ~ q.isPlaying /\ ~ q.isLoading
    BY PauseKeeps DEF Core
  <2>2. StopCurrent(p) = r
    BY <1>2 DEF StopCurrent, RemoveTimeObserve
  <2> HIDE DEF q
  <2>3. ~ r.isPlaying /\ ~ r.isLoading
    BY <2>1 DEF PlayerState
  <2> HIDE DEF r
  <2> QED BY <2>2, <2>3
<1> QED BY <1>1, <1>2

LEMMA StartPlayAtSteps ==
  ASSUME NEW p, Core(p), Sound(p), NEW t \in HasUrl, NEW i \in Nat \ {0}
  PROVE  Starts(p, StartPlayAt(p, t, i))
<1> DEFINE q1 == StopCurrent(p)
           q2 == [q1 EXCEPT !.current = TrackAt(t, i)]
           q3 == SetIsLoading(q2, TRUE)
           q4 == EnableRemote(q3)
           q5 == Play(q4)
<1>1. StartPlayAt(p, t, i) = q5
  BY DEF StartPlayAt
<1>2. /\ Core(q1) /\ CellsDark(q1) /\ ~ HasCurrent(q1)
      /\ HasCurrent(p) \/ ~ p.isPlaying => ~ q1.isPlaying
      /\ HasCurrent(p) \/ ~ p.isLoading => ~ q1.isLoading
  BY StopCurrentKeeps, StopCurrentQuiet
<1> HIDE DEF q1
<1>3. /\ Core(q2) /\ HasCurrent(q2)
      /\ HasCurrent(p) \/ ~ p.isPlaying => InStep(q2)
      /\ q2.isLoading = q1.isLoading
  <2>1. TrackAt(t, i) \in TrackState
    BY PlayerAssumption DEF TrackAt, TrackState
  <2>2. /\ q2 \in PlayerState /\ q2.current = TrackAt(t, i)
        /\ q2.cells = q1.cells /\ q2.small = q1.small
        /\ q2.isPlaying = q1.isPlaying /\ q2.isLoading = q1.isLoading
    BY <1>2, <2>1 DEF Core, PlayerState
  <2> HIDE DEF q2
  <2>3. HasCurrent(q2)
    BY <2>2, PlayerAssumption DEF HasCurrent, TrackAt
  <2>4. /\ q2.current.isPlaying = FALSE /\ q2.current.isGoingPlaying = FALSE
        /\ q1.current.isPlaying = FALSE /\ q1.current.isGoingPlaying = FALSE
    BY <1>2, <2>2 DEF Core, Blank, NoCurrent, TrackAt
  <2>5. SmallsFollow(q2)
    BY <1>2, <2>2, <2>4 DEF Core, SmallsFollow
  <2>6. Core(q2)
    BY <1>2, <2>2, <2>3, <2>4, <2>5 DEF Core, FlagsFollow, Blank, CellsLit, CellsDark
  <2>7. q1.isPlaying = FALSE => InStep(q2)
    BY <2>2, <2>4 DEF InStep
  <2>8. q1.isPlaying \in BOOLEAN
    BY <1>2 DEF Core, PlayerState
  <2> QED BY <1>2, <2>2, <2>3, <2>6, <2>7, <2>8
<1> HIDE DEF q2
<1>4. /\ Core(q3)
      /\ HasCurrent(p) \/ ~ p.isPlaying => InStep(q3)
      /\ HasCurrent(p) \/ ~ p.isLoading => AllShown(q3)
  BY <1>2, <1>3, SetIsLoadingKeeps, SetIsLoadingMoves DEF Moves
<1> HIDE DEF q3
<1>5. Core(q4) /\ Moves(q3, q4)
  BY <1>4 DEF EnableRemote, AtLast, AtFirst, Core, PlayerState, FlagsFollow, Blank,
              CellsLit, SmallsFollow, Moves, InStep, AllShown, HasCurrent
<1> HIDE DEF q4
<1>6. Moves(q4, q5)
  BY <1>5, PlayMoves
<1> HIDE DEF q5
<1> QED BY <1>1, <1>4, <1>5, <1>6 DEF Moves, Starts

-----------------------------------------------------------------------------
(* The steps.                                                              *)

\* What one complete call does: with a track it keeps everything, without one
\* it leaves none or starts one.
Steps(p, q) ==
  IF HasCurrent(p)
  THEN HasCurrent(q) => Moves(p, q)
  ELSE HasCurrent(q) => Starts(p, q)

LEMMA MovesSteps ==
  ASSUME NEW p, NEW q, Moves(p, q), q.current.id = p.current.id
  PROVE  Steps(p, q)
BY DEF Steps, HasCurrent

LEMMA StartsSteps ==
  ASSUME NEW p, NEW q, Starts(p, q)
  PROVE  Steps(p, q)
BY DEF Steps, Moves, Starts

LEMMA PauseSteps ==
  ASSUME NEW p, Core(p)
  PROVE  Steps(p, Pause(p))
BY PauseMoves, PauseKeeps, MovesSteps DEF SamePlace

LEMMA PlayOrPauseSteps ==
  ASSUME NEW p, Core(p)
  PROVE  Steps(p, PlayOrPause(p))
BY PlayOrPauseMoves, PauseKeeps, PlayKeeps, MovesSteps DEF SamePlace, PlayOrPause

LEMMA PlayerSeekSteps ==
  ASSUME NEW p, Core(p)
  PROVE  Steps(p, PlayerSeek(p))
<1> DEFINE q == SetIsLoading(p, TRUE)
<1>1. Core(q) /\ q.current.id = p.current.id
  BY SetIsLoadingKeeps DEF SamePlace
<1>2. PlayerSeek(p) = Play(q)
  BY DEF PlayerSeek
<1> HIDE DEF q
<1>3. PlayerSeek(p).current.id = p.current.id
  BY <1>1, <1>2, PlayKeeps DEF SamePlace
<1> QED BY <1>3, PlayerSeekMoves, MovesSteps

\* A track without url changes nothing.
LEMMA StartPlayAtAnySteps ==
  ASSUME NEW p, Core(p), Sound(p), NEW t, NEW i \in Nat \ {0}
  PROVE  Steps(p, StartPlayAt(p, t, i))
<1>1. CASE t \in HasUrl
  BY <1>1, StartPlayAtSteps, StartsSteps
<1>2. CASE t \notin HasUrl
  BY <1>2 DEF StartPlayAt, Steps, Moves
<1> QED BY <1>1, <1>2

LEMMA PlayNextSteps ==
  ASSUME NEW p, Good(p)
  PROVE  Steps(p, PlayNext(p))
<1>1. CASE CanAdvance(p)
  <2>1. p.current.index + 1 \in Nat \ {0}
    BY DEF Good, Core, PlayerState, TrackState
  <2> QED BY <1>1, <2>1, StartPlayAtAnySteps DEF PlayNext, Good
<1>2. CASE ~ CanAdvance(p)
  BY <1>2, PauseSteps DEF PlayNext, Good
<1> QED BY <1>1, <1>2

LEMMA PlayPreviousSteps ==
  ASSUME NEW p, Good(p)
  PROVE  Steps(p, PlayPrevious(p))
<1>1. CASE CanGoBack(p)
  <2>1. p.current.index - 1 \in Nat \ {0}
    BY <1>1 DEF CanGoBack, AtFirst, Good, Placed, Core, PlayerState, TrackState
  <2> QED BY <1>1, <2>1, StartPlayAtAnySteps DEF PlayPrevious, Good
<1>2. CASE ~ CanGoBack(p)
  BY <1>2 DEF PlayPrevious, Steps, Moves
<1> QED BY <1>1, <1>2

LEMMA ConformSteps ==
  ASSUME NEW p, Good(p), NEW list \in Playlists, NEW k \in DOMAIN list
  PROVE  Steps(p, ConformTrack(p, list[k], list))
<1> DEFINE t == list[k]
<1>1. CASE p.current.id = t
  BY <1>1, PlayOrPauseSteps DEF ConformTrack, Good
<1>2. CASE p.current.id # t
  <2> DEFINE i == FirstIndex(list, t)
             q == [p EXCEPT !.playlist = list]
             r == UpdatePlayerState(q)
  <2>1. list \in Seq(Track)
    BY PlayerAssumption
  <2>2. i \in Nat \ {0}
    BY <2>1, FirstIndexIsIndex
  <2>3. ConformTrack(p, t, list) = StartPlayAt(r, t, i)
    BY <1>2 DEF ConformTrack, StartPlayList
  <2> HIDE DEF i
  <2>4. /\ Core(q) /\ Sound(q) /\ q.current = p.current /\ q.small = p.small
        /\ q.isPlaying = p.isPlaying /\ q.isLoading = p.isLoading
    BY <2>1 DEF Good, Core, PlayerState, FlagsFollow, Blank, CellsLit, SmallsFollow,
                Sound, HasCurrent
  <2> HIDE DEF q
  <2>5. /\ Core(r) /\ Sound(r) /\ Moves(q, r) /\ r.current.id = q.current.id
        /\ r.isPlaying = q.isPlaying /\ r.isLoading = q.isLoading
    BY <2>4, UpdatePlayerStateKeeps, UpdatePlayerStateMoves
       DEF Sound, SamePlace, HasCurrent
  <2> HIDE DEF r
  <2>6. Steps(r, StartPlayAt(r, t, i))
    BY <2>2, <2>5, StartPlayAtAnySteps
  <2>7. Moves(p, r)
    BY <2>4, <2>5 DEF Moves, InStep, AllShown, HasCurrent
  <2> QED BY <2>3, <2>4, <2>5, <2>6, <2>7 DEF Steps, Moves, Starts, HasCurrent
<1> QED BY <1>1, <1>2

LEMMA TickSteps ==
  ASSUME NEW p, Core(p)
  PROVE  Steps(p, TickBody(p))
<1> DEFINE q == SetIsLoading(p, FALSE)
           r == Notify(q)
<1>1. TickBody(p) = r
  BY DEF TickBody
<1>2. Core(q) /\ Moves(p, q) /\ q.current.id = p.current.id
  BY SetIsLoadingKeeps, SetIsLoadingMoves DEF SamePlace
<1> HIDE DEF q
<1>3. /\ r.current = q.current /\ r.isPlaying = q.isPlaying
      /\ AllShown(q) => AllShown(r)
  BY <1>2, NotifyMoves DEF Core
<1> HIDE DEF r
<1>4. Moves(p, r) /\ r.current.id = p.current.id
  BY <1>2, <1>3 DEF Moves, InStep, HasCurrent
<1> QED BY <1>1, <1>4, MovesSteps

LEMMA EveryStep ==
  ASSUME IInv, [Next]_vars
  PROVE  Steps(player, player')
<1>0. Good(player) /\ Core(player)
  BY DEF IInv, Good
<1>a. ASSUME player' = player PROVE Steps(player, player')
  BY <1>a DEF Steps, Moves
<1>1. CASE Conform
  <2>1. PICK list \in Playlists :
          \E k \in DOMAIN list : Calls(ConformTrack(player, list[k], list))
    BY <1>1 DEF Conform
  <2>2. PICK k \in DOMAIN list : Calls(ConformTrack(player, list[k], list))
    BY <2>1
  <2> QED BY <1>0, <2>2, ConformSteps DEF Calls
<1>2. CASE TogglePlayPause
  BY <1>0, <1>2, PlayOrPauseSteps DEF TogglePlayPause, Calls
<1>3. CASE ScrubBegins
  BY <1>0, <1>3, PauseSteps DEF ScrubBegins, Calls
<1>4. CASE Seek
  BY <1>0, <1>4, PlayerSeekSteps DEF Seek, Calls
<1>5. CASE NextTapped
  BY <1>0, <1>a, <1>5, PlayNextSteps DEF NextTapped, Trap, Calls
<1>6. CASE PreviousTapped
  BY <1>0, <1>a, <1>6, PlayPreviousSteps DEF PreviousTapped, Trap, Calls
<1>7. ASSUME player'.current = player.current, player'.isPlaying = player.isPlaying,
             HasCurrent(player) /\ AllShown(player) => AllShown(player')
      PROVE  Steps(player, player')
  BY <1>7 DEF Steps, Moves, InStep, HasCurrent
<1>8. ASSUME NEW t \in Track, CellAppears(t) PROVE Steps(player, player')
  BY <1>0, <1>7, <1>8 DEF CellAppears, Calls, Core, PlayerState, AllShown
<1>9. CASE BigPlayerOpens
  BY <1>0, <1>7, <1>9 DEF BigPlayerOpens, Calls, Core, PlayerState, AllShown
<1>10. CASE DetailOpens
  BY <1>0, <1>7, <1>10 DEF DetailOpens, Calls, Core, PlayerState, AllShown, BuiltSmall,
                           Screen
<1>11. CASE Tick
  BY <1>0, <1>11, TickSteps DEF Tick, Calls
<1>12. CASE ItemEnds \/ Interrupted
  BY <1>0, <1>7, <1>12 DEF ItemEnds, Interrupted, Calls, Core, PlayerState, AllShown
<1>13. CASE EndDelivered
  BY <1>0, <1>a, <1>13, PlayNextSteps DEF EndDelivered, Trap
<1>14. CASE Relaunch
  <2>1. ~ HasCurrent(player')
    BY <1>14 DEF Relaunch, InitialPlayer, NoCurrent, TrackAt, HasCurrent
  <2> QED BY <2>1 DEF Steps
<1>15. CASE UNCHANGED vars
  BY <1>a, <1>15 DEF vars
<1> QED
  BY <1>1, <1>2, <1>3, <1>4, <1>5, <1>6, <1>8, <1>9, <1>10, <1>11, <1>12, <1>13,
     <1>14, <1>15 DEF Next

\* The player and its track part only when a first track is started after
\* playing was turned on without one.
THEOREM OutOfStepIsExplained == Spec => OutOfStepOnlyOnFirstStart
<1>1. IInv /\ [Next]_vars =>
        [InStep(player) /\ ~ InStep(player') =>
           ~ HasCurrent(player) /\ player.isPlaying /\ HasCurrent(player')]_vars
  BY EveryStep DEF Steps, Moves, Starts, InStep
<1> QED BY <1>1, Inductive, PTL DEF Spec, OutOfStepOnlyOnFirstStart

\* A screen is without small player while there is a track only after a seek
\* without a track had turned loading on.
THEOREM HiddenSmallPlayersAreExplained == Spec => OnlySeeksHideSmallPlayers
<1>1. IInv /\ [Next]_vars =>
        [HasCurrent(player') /\ (\E s \in Screen : ~ player'.small[s].shown) =>
           IF HasCurrent(player) THEN \E s \in Screen : ~ player.small[s].shown
           ELSE player.isLoading]_vars
  BY EveryStep DEF Steps, Moves, Starts, AllShown
<1> QED BY <1>1, Inductive, PTL DEF Spec, OnlySeeksHideSmallPlayers

-----------------------------------------------------------------------------
(***************************************************************************)
(* The big player shows the current track.                                 *)
(*                                                                         *)
(* That it does is not inductive.  pause and play compute the track's      *)
(* place in the list anew and announce it only when something else         *)
(* changes; so the place has to be right before already (Flagged), whoever *)
(* replaced the list.                                                      *)
(***************************************************************************)

\* The track knows whether it is the first or the last of the list.
Flagged(p) ==
  HasCurrent(p) =>
    /\ p.current.isFirst = FirstIn(p.playlist, p.current.id)
    /\ p.current.isLast = LastIn(p.playlist, p.current.id)

\* The big player shows the track, unless that disagrees with the player.
Shown(p) == HasCurrent(p) /\ p.current.isPlaying = p.isPlaying => p.panel = p.current

\* What every method keeps that does not replace the list.
Keeps(p, q) ==
  /\ q.playlist = p.playlist
  /\ Flagged(p) => Flagged(q)
  /\ Flagged(p) /\ Shown(p) => Shown(q)

IsPlayable(list) == \A i \in DOMAIN list : list[i] \in HasUrl

PanelInv(p) == Flagged(p) /\ (IsPlayable(p.playlist) => Shown(p))

-----------------------------------------------------------------------------
(* The methods.                                                            *)

LEMMA KeepsTwice ==
  ASSUME NEW p, NEW q, NEW r, Keeps(p, q), Keeps(q, r)
  PROVE  Keeps(p, r)
BY DEF Keeps

\* Nothing that is looked at here changes.
LEMMA SameKeeps ==
  ASSUME NEW p, NEW q, q.playlist = p.playlist, q.current = p.current,
         q.isPlaying = p.isPlaying, q.panel = p.panel
  PROVE  Keeps(p, q)
BY DEF Keeps, Flagged, Shown, HasCurrent

\* An announcement reaches the big player.
LEMMA NotifyShows ==
  ASSUME NEW p, p \in PlayerState
  PROVE  LET q == Notify(p)
         IN  /\ q.playlist = p.playlist /\ q.current = p.current
             /\ q.isPlaying = p.isPlaying
             /\ HasCurrent(p) => q.panel = p.current
             /\ Shown(q)
BY DEF Notify, PlayerState, Shown, HasCurrent

\* A track whose place is right stays as it is.
LEMMA UpdatePlayerStateShows ==
  ASSUME NEW p, Core(p)
  PROVE  LET q == UpdatePlayerState(p)
         IN  /\ Keeps(p, q) /\ Flagged(q)
             /\ q.current.isPlaying = p.current.isPlaying
<1> DEFINE first == FirstIn(p.playlist, p.current.id)
           last  == LastIn(p.playlist, p.current.id)
           c == [p.current EXCEPT !.isFirst = first, !.isLast = last]
           q == [p EXCEPT !.current = c]
<1>1. UpdatePlayerState(p) = IF HasCurrent(p) THEN q ELSE p
  BY DEF UpdatePlayerState
<1>2. /\ c.id = p.current.id /\ c.isPlaying = p.current.isPlaying
      /\ c.isFirst = first /\ c.isLast = last
      /\ p.current.isFirst = first /\ p.current.isLast = last => c = p.current
  BY DEF Core, PlayerState, TrackState
<1> HIDE DEF c
<1>3. /\ q.current = c /\ q.isPlaying = p.isPlaying /\ q.playlist = p.playlist
      /\ q.panel = p.panel
  BY DEF Core, PlayerState
<1> HIDE DEF q
<1>4. CASE ~ HasCurrent(p)
  BY <1>1, <1>4 DEF Keeps, Flagged
<1>5. CASE HasCurrent(p)
  <2>1. Flagged(q)
    BY <1>2, <1>3 DEF Flagged
  <2>2. Flagged(p) => q.current = p.current
    BY <1>2, <1>3, <1>5 DEF Flagged
  <2>3. Keeps(p, q)
    BY <1>3, <2>1, <2>2 DEF Keeps, Shown, HasCurrent
  <2> QED BY <1>1, <1>2, <1>3, <1>5, <2>1, <2>3
<1> QED BY <1>4, <1>5

\* A change of isPlaying is announced.
LEMMA SetIsPlayingShows ==
  ASSUME NEW p, NEW b \in BOOLEAN, Core(p)
  PROVE  LET q == SetIsPlaying(p, b)
         IN  /\ Keeps(p, q)
             /\ p.isPlaying # b \/ (HasCurrent(p) /\ p.current.isPlaying # b) => Shown(q)
<1>1. CASE p.isPlaying = b
  BY <1>1 DEF SetIsPlaying, Keeps, Shown
<1>2. CASE p.isPlaying # b
  <2> DEFINE c == IF HasCurrent(p) THEN [p.current EXCEPT !.isPlaying = b] ELSE p.current
             q == [p EXCEPT !.isPlaying = b, !.current = c]
             r == Notify(q)
  <2>1. /\ c.id = p.current.id /\ c.isFirst = p.current.isFirst
        /\ c.isLast = p.current.isLast /\ c \in TrackState
    BY DEF Core, PlayerState, TrackState
  <2>2. SetIsPlaying(p, b) = r
    BY <1>2 DEF SetIsPlaying
  <2> HIDE DEF c
  <2>3. q \in PlayerState /\ q.current = c /\ q.playlist = p.playlist
    BY <2>1 DEF Core, PlayerState
  <2> HIDE DEF q
  <2>4. r.current = c /\ r.playlist = p.playlist /\ Shown(r)
    BY <2>3, NotifyShows
  <2> HIDE DEF r
  <2>5. Flagged(p) => Flagged(r)
    BY <2>1, <2>4 DEF Flagged, HasCurrent
  <2> QED BY <2>2, <2>4, <2>5 DEF Keeps
<1> QED BY <1>1, <1>2

\* So is a change of isLoading, which leaves playing alone.
LEMMA SetIsLoadingShows ==
  ASSUME NEW p, NEW b \in BOOLEAN, Core(p)
  PROVE  LET q == SetIsLoading(p, b)
         IN  Keeps(p, q) /\ q.current.isPlaying = p.current.isPlaying
<1>1. CASE p.isLoading = b
  BY <1>1 DEF SetIsLoading, Keeps
<1>2. CASE p.isLoading # b
  <2> DEFINE c == IF HasCurrent(p) THEN [p.current EXCEPT !.isGoingPlaying = b]
                  ELSE p.current
             q == [p EXCEPT !.isLoading = b, !.current = c]
             r == Notify(q)
             t == IF b THEN PresentSmall(r) ELSE r
  <2>1. /\ c.id = p.current.id /\ c.isFirst = p.current.isFirst
        /\ c.isLast = p.current.isLast /\ c.isPlaying = p.current.isPlaying
        /\ c \in TrackState
    BY DEF Core, PlayerState, TrackState
  <2>2. SetIsLoading(p, b) = t
    BY <1>2 DEF SetIsLoading
  <2> HIDE DEF c
  <2>3. q \in PlayerState /\ q.current = c /\ q.playlist = p.playlist
    BY <2>1 DEF Core, PlayerState
  <2> HIDE DEF q
  <2>4. r.current = c /\ r.playlist = p.playlist /\ Shown(r)
    BY <2>3, NotifyShows
  <2>5. "panel" \in DOMAIN r /\ r = [r EXCEPT !.small = r.small]
    BY <2>3 DEF r, Notify, PlayerState
  <2> HIDE DEF r
  <2>6. /\ t.current = r.current /\ t.playlist = r.playlist
        /\ t.isPlaying = r.isPlaying /\ t.panel = r.panel
    BY <2>5 DEF PresentSmall
  <2> HIDE DEF t
  <2>7. Shown(t)
    BY <2>4, <2>6 DEF Shown, HasCurrent
  <2>8. Flagged(p) => Flagged(t)
    BY <2>1, <2>4, <2>6 DEF Flagged, HasCurrent
  <2> QED BY <2>1, <2>2, <2>4, <2>6, <2>7, <2>8 DEF Keeps
<1> QED BY <1>1, <1>2

\* play leaves a shown track, or one that disagrees with the player.
LEMMA PlayShows ==
  ASSUME NEW p, Core(p)
  PROVE  /\ Keeps(p, Play(p)) /\ Flagged(Play(p))
         /\ HasCurrent(p) /\ ~ p.current.isPlaying => Shown(Play(p))
<1> DEFINE q1 == [p EXCEPT !.rate = 1]
           q2 == UpdatePlayerState(q1)
           q3 == AddTimeObserve(q2)
           q4 == SetIsPlaying(q3, TRUE)
<1>1. Play(p) = q4
  BY DEF Play
<1>2. /\ Core(q1) /\ q1.playlist = p.playlist /\ q1.current = p.current
      /\ q1.isPlaying = p.isPlaying /\ q1.panel = p.panel
  <2>1. /\ q1.playlist = p.playlist /\ q1.current = p.current
        /\ q1.isPlaying = p.isPlaying /\ q1.panel = p.panel
    BY DEF Core, PlayerState
  <2> QED BY <2>1, SetRateKeeps
<1> HIDE DEF q1
<1>3. /\ Core(q2) /\ Keeps(q1, q2) /\ Flagged(q2)
      /\ q2.current.isPlaying = q1.current.isPlaying /\ q2.current.id = q1.current.id
  BY <1>2, UpdatePlayerStateKeeps, UpdatePlayerStateShows DEF SamePlace
<1> HIDE DEF q2
<1>4. /\ Core(q3) /\ q3.playlist = q2.playlist /\ q3.current = q2.current
      /\ q3.isPlaying = q2.isPlaying /\ q3.panel = q2.panel
  BY <1>3 DEF AddTimeObserve, Core, PlayerState, FlagsFollow, Blank, CellsLit,
              SmallsFollow, HasCurrent
<1> HIDE DEF q3
<1>5. Keeps(p, q1) /\ Keeps(q2, q3) /\ Flagged(q3)
  BY <1>2, <1>3, <1>4, SameKeeps DEF Keeps
<1>6. /\ Keeps(q3, q4)
      /\ HasCurrent(q3) /\ ~ q3.current.isPlaying => Shown(q4)
  BY <1>4, SetIsPlayingShows
<1> HIDE DEF q4
<1>7. Keeps(p, q4)
  BY <1>3, <1>5, <1>6, KeepsTwice
<1>8. Flagged(q4)
  BY <1>5, <1>6 DEF Keeps
<1>9. HasCurrent(p) /\ ~ p.current.isPlaying => HasCurrent(q3) /\ ~ q3.current.isPlaying
  BY <1>2, <1>3, <1>4 DEF HasCurrent
<1> QED BY <1>1, <1>6, <1>7, <1>8, <1>9

LEMMA PauseShows ==
  ASSUME NEW p, Core(p)
  PROVE  Keeps(p, Pause(p))
<1> DEFINE q1 == [p EXCEPT !.rate = 0]
           q2 == UpdatePlayerState(q1)
           q3 == SetIsPlaying(q2, FALSE)
           q4 == SetIsLoading(q3, FALSE)
<1>1. Pause(p) = q4
  BY DEF Pause
<1>2. Core(q1) /\ Keeps(p, q1)
  <2>1. /\ q1.playlist = p.playlist /\ q1.current = p.current
        /\ q1.isPlaying = p.isPlaying /\ q1.panel = p.panel
    BY DEF Core, PlayerState
  <2> HIDE DEF q1
  <2>2. Keeps(p, q1)
    BY <2>1, SameKeeps
  <2> QED BY <2>2, SetRateKeeps DEF q1
<1> HIDE DEF q1
<1>3. Core(q2) /\ Keeps(q1, q2)
  BY <1>2, UpdatePlayerStateKeeps, UpdatePlayerStateShows
<1> HIDE DEF q2
<1>4. Core(q3) /\ Keeps(q2, q3)
  BY <1>3, SetIsPlayingKeeps, SetIsPlayingShows
<1> HIDE DEF q3
<1>5. Keeps(q3, q4)
  BY <1>4, SetIsLoadingShows
<1> HIDE DEF q4
<1> QED BY <1>1, <1>2, <1>3, <1>4, <1>5, KeepsTwice

LEMMA PlayerSeekShows ==
  ASSUME NEW p, Core(p)
  PROVE  Keeps(p, PlayerSeek(p))
<1> DEFINE q == SetIsLoading(p, TRUE)
<1>1. Core(q) /\ Keeps(p, q)
  BY SetIsLoadingKeeps, SetIsLoadingShows
<1>2. PlayerSeek(p) = Play(q)
  BY DEF PlayerSeek
<1> HIDE DEF q
<1> QED BY <1>1, <1>2, PlayShows, KeepsTwice

\* A track that starts is shown: it is announced when playing goes on, or
\* disagrees with a player that was playing nothing.
LEMMA StartPlayAtShows ==
  ASSUME NEW p, Core(p), Sound(p), NEW t \in HasUrl, NEW i \in Nat
  PROVE  LET q == StartPlayAt(p, t, i)
         IN  q.playlist = p.playlist /\ Flagged(q) /\ Shown(q)
<1> DEFINE q1 == StopCurrent(p)
           q2 == [q1 EXCEPT !.current = TrackAt(t, i)]
           q3 == SetIsLoading(q2, TRUE)
           q4 == EnableRemote(q3)
           q5 == Play(q4)
<1>1. StartPlayAt(p, t, i) = q5
  BY DEF StartPlayAt
<1>2. Core(q1) /\ CellsDark(q1) /\ q1.playlist = p.playlist /\ ~ HasCurrent(q1)
  BY StopCurrentKeeps
<1> HIDE DEF q1
<1>3. /\ Core(q2) /\ HasCurrent(q2) /\ ~ q2.current.isPlaying
      /\ q2.playlist = q1.playlist
  <2>1. TrackAt(t, i) \in TrackState
    BY PlayerAssumption DEF TrackAt, TrackState
  <2>2. /\ q2 \in PlayerState /\ q2.current = TrackAt(t, i)
        /\ q2.cells = q1.cells /\ q2.small = q1.small /\ q2.playlist = q1.playlist
    BY <1>2, <2>1 DEF Core, PlayerState
  <2> HIDE DEF q2
  <2>3. HasCurrent(q2)
    BY <2>2, PlayerAssumption DEF HasCurrent, TrackAt
  <2>4. /\ q2.current.isPlaying = FALSE /\ q2.current.isGoingPlaying = FALSE
        /\ q1.current.isPlaying = FALSE /\ q1.current.isGoingPlaying = FALSE
    BY <1>2, <2>2 DEF Core, Blank, NoCurrent, TrackAt
  <2>5. SmallsFollow(q2)
    BY <1>2, <2>2, <2>4 DEF Core, SmallsFollow
  <2>6. Core(q2)
    BY <1>2, <2>2, <2>3, <2>4, <2>5 DEF Core, FlagsFollow, Blank, CellsLit, CellsDark
  <2> QED BY <2>2, <2>3, <2>4, <2>6
<1> HIDE DEF q2
<1>4. /\ Core(q3) /\ HasCurrent(q3) /\ ~ q3.current.isPlaying
      /\ q3.playlist = q2.playlist
  BY <1>3, SetIsLoadingKeeps, SetIsLoadingShows DEF SamePlace, HasCurrent
<1> HIDE DEF q3
<1>5. /\ Core(q4) /\ HasCurrent(q4) /\ ~ q4.current.isPlaying
      /\ q4.playlist = q3.playlist
  BY <1>4 DEF EnableRemote, AtLast, AtFirst, Core, PlayerState, FlagsFollow, Blank,
              CellsLit, SmallsFollow, HasCurrent
<1> HIDE DEF q4
<1>6. q5.playlist = q4.playlist /\ Flagged(q5) /\ Shown(q5)
  BY <1>5, PlayShows DEF Keeps
<1> HIDE DEF q5
<1> QED BY <1>1, <1>2, <1>3, <1>4, <1>5, <1>6

-----------------------------------------------------------------------------
(* The calls.                                                              *)

LEMMA KeepsPanel ==
  ASSUME NEW p, NEW q, PanelInv(p), Keeps(p, q)
  PROVE  PanelInv(q)
BY DEF PanelInv, Keeps

\* A track without url changes nothing.
LEMMA StartPlayAtPanel ==
  ASSUME NEW p, Core(p), Sound(p), PanelInv(p), NEW t, NEW i \in Nat
  PROVE  PanelInv(StartPlayAt(p, t, i))
<1>1. CASE t \in HasUrl
  BY <1>1, StartPlayAtShows DEF PanelInv
<1>2. CASE t \notin HasUrl
  BY <1>2 DEF StartPlayAt
<1> QED BY <1>1, <1>2

LEMMA PlayOrPausePanel ==
  ASSUME NEW p, Core(p), PanelInv(p)
  PROVE  PanelInv(PlayOrPause(p))
BY PlayShows, PauseShows, KeepsPanel DEF PlayOrPause

LEMMA PlayNextPanel ==
  ASSUME NEW p, Good(p), PanelInv(p)
  PROVE  PanelInv(PlayNext(p))
<1>1. CASE CanAdvance(p)
  <2>1. p.current.index + 1 \in Nat
    BY DEF Good, Core, PlayerState, TrackState
  <2> QED BY <1>1, <2>1, StartPlayAtPanel DEF PlayNext, Good
<1>2. CASE ~ CanAdvance(p)
  BY <1>2, PauseShows, KeepsPanel DEF PlayNext, Good
<1> QED BY <1>1, <1>2

LEMMA PlayPreviousPanel ==
  ASSUME NEW p, Good(p), PanelInv(p)
  PROVE  PanelInv(PlayPrevious(p))
<1>1. CASE CanGoBack(p)
  <2>1. p.current.index - 1 \in Nat
    BY <1>1 DEF CanGoBack, AtFirst, Good, Placed, Core, PlayerState, TrackState
  <2> QED BY <1>1, <2>1, StartPlayAtPanel DEF PlayPrevious, Good
<1>2. CASE ~ CanGoBack(p)
  BY <1>2 DEF PlayPrevious
<1> QED BY <1>1, <1>2

\* A list that is replaced for a track that cannot start is not playable.
LEMMA ConformPanel ==
  ASSUME NEW p, Good(p), PanelInv(p), NEW list \in Playlists, NEW k \in DOMAIN list
  PROVE  PanelInv(ConformTrack(p, list[k], list))
<1> DEFINE t == list[k]
<1>1. CASE p.current.id = t
  BY <1>1, PlayOrPausePanel DEF ConformTrack, Good
<1>2. CASE p.current.id # t
  <2> DEFINE i == FirstIndex(list, t)
             q == [p EXCEPT !.playlist = list]
             r == UpdatePlayerState(q)
  <2>1. list \in Seq(Track)
    BY PlayerAssumption
  <2>2. i \in Nat
    BY <2>1, FirstIndexIsIndex
  <2>3. ConformTrack(p, t, list) = StartPlayAt(r, t, i)
    BY <1>2 DEF ConformTrack, StartPlayList
  <2> HIDE DEF i
  <2>4. Core(q) /\ Sound(q) /\ q.playlist = list
    BY <2>1 DEF Good, Core, PlayerState, FlagsFollow, Blank, CellsLit, SmallsFollow,
                Sound, HasCurrent
  <2> HIDE DEF q
  <2>5. Core(r) /\ Sound(r) /\ Flagged(r) /\ r.playlist = list
    BY <2>4, UpdatePlayerStateKeeps, UpdatePlayerStateShows
       DEF Sound, SamePlace, HasCurrent
  <2> HIDE DEF r
  <2>6. CASE t \in HasUrl
    BY <2>2, <2>3, <2>5, <2>6, StartPlayAtShows DEF PanelInv
  <2>7. CASE t \notin HasUrl
    <3>1. ~ IsPlayable(r.playlist)
      BY <2>5, <2>7 DEF IsPlayable
    <3> QED BY <2>3, <2>5, <2>7, <3>1 DEF StartPlayAt, PanelInv
  <2> QED BY <2>6, <2>7
<1> QED BY <1>1, <1>2

LEMMA TickPanel ==
  ASSUME NEW p, Core(p), PanelInv(p)
  PROVE  PanelInv(TickBody(p))
<1> DEFINE q == SetIsLoading(p, FALSE)
           r == Notify(q)
<1>1. TickBody(p) = r
  BY DEF TickBody
<1>2. Core(q) /\ PanelInv(q)
  BY SetIsLoadingKeeps, SetIsLoadingShows, KeepsPanel
<1> HIDE DEF q
<1>3. r.playlist = q.playlist /\ r.current = q.current /\ Shown(r)
  BY <1>2, NotifyShows DEF Core
<1> HIDE DEF r
<1> QED BY <1>1, <1>2, <1>3 DEF PanelInv, Flagged, HasCurrent

-----------------------------------------------------------------------------
(* The steps.                                                              *)

LEMMA InitialPanel == Init => PanelInv(player)
BY DEF Init, PanelInv, Flagged, Shown, HasCurrent, InitialPlayer, NoCurrent, TrackAt

LEMMA StepPanel ==
  ASSUME IInv, PanelInv(player), [Next]_vars
  PROVE  PanelInv(player')
<1>0. Good(player) /\ Core(player)
  BY DEF IInv, Good
<1>1. CASE Conform
  <2>1. PICK list \in Playlists :
          \E k \in DOMAIN list : Calls(ConformTrack(player, list[k], list))
    BY <1>1 DEF Conform
  <2>2. PICK k \in DOMAIN list : Calls(ConformTrack(player, list[k], list))
    BY <2>1
  <2> QED BY <1>0, <2>2, ConformPanel DEF Calls
<1>2. CASE TogglePlayPause
  BY <1>0, <1>2, PlayOrPausePanel DEF TogglePlayPause, Calls
<1>3. CASE ScrubBegins
  BY <1>0, <1>3, PauseShows, KeepsPanel DEF ScrubBegins, Calls
<1>4. CASE Seek
  BY <1>0, <1>4, PlayerSeekShows, KeepsPanel DEF Seek, Calls
<1>5. CASE NextTapped
  BY <1>0, <1>5, PlayNextPanel DEF NextTapped, Trap, Calls
<1>6. CASE PreviousTapped
  BY <1>0, <1>6, PlayPreviousPanel DEF PreviousTapped, Trap, Calls
<1>7. ASSUME player'.playlist = player.playlist, player'.current = player.current,
             player'.isPlaying = player.isPlaying, player'.panel = player.panel
      PROVE  PanelInv(player')
  BY <1>7, SameKeeps, KeepsPanel
<1>8. ASSUME NEW t \in Track, CellAppears(t) PROVE PanelInv(player')
  BY <1>0, <1>7, <1>8 DEF CellAppears, Calls, Core, PlayerState
<1>9. CASE BigPlayerOpens
  <2>1. /\ player'.playlist = player.playlist /\ player'.current = player.current
        /\ player'.panel = player'.current
    BY <1>0, <1>9 DEF BigPlayerOpens, Calls, Core, PlayerState
  <2> QED BY <2>1 DEF PanelInv, Flagged, Shown, HasCurrent
<1>10. CASE DetailOpens
  BY <1>0, <1>7, <1>10 DEF DetailOpens, Calls, Core, PlayerState
<1>11. CASE Tick
  BY <1>0, <1>11, TickPanel DEF Tick, Calls
<1>12. CASE ItemEnds \/ Interrupted
  BY <1>0, <1>7, <1>12 DEF ItemEnds, Interrupted, Calls, Core, PlayerState
<1>13. CASE EndDelivered
  BY <1>0, <1>13, PlayNextPanel DEF EndDelivered, Trap
<1>14. CASE Relaunch
  BY <1>14 DEF Relaunch, PanelInv, Flagged, Shown, HasCurrent, InitialPlayer, NoCurrent,
               TrackAt
<1>15. CASE UNCHANGED vars
  BY <1>15 DEF vars
<1> QED
  BY <1>1, <1>2, <1>3, <1>4, <1>5, <1>6, <1>8, <1>9, <1>10, <1>11, <1>12, <1>13,
     <1>14, <1>15 DEF Next

\* The big player shows the current track, its state and its place in the list
\* after every call, as long as the list is playable and the track agrees with
\* the player about playing.
THEOREM PanelIsRight == Spec => []PanelIsCurrent
<1>1. Init => PanelInv(player)
  BY InitialPanel
<1>2. IInv /\ PanelInv(player) /\ [Next]_vars => PanelInv(player)'
  BY StepPanel
<1>3. PanelInv(player) => PanelIsCurrent
  BY DEF PanelInv, Shown, IsPlayable, PanelIsCurrent, PlayableList
<1> QED BY <1>1, <1>2, <1>3, Inductive, PTL DEF Spec
=============================================================================
