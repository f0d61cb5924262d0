------------------------------- MODULE Player -------------------------------
(***************************************************************************)
(* The audio player (Services/Player.swift): one object, shared by every   *)
(* screen, that wraps an AVPlayer.  It is driven on the main thread by     *)
(* cells, by the player screens and by the lock-screen remote commands,    *)
(* and it is called back by AVFoundation: a periodic time observer and a   *)
(* notification that an item has played to its end, which is delivered     *)
(* some time after the item ended.                                         *)
(*                                                                         *)
(* The Swift methods call one another, so each is an operator from a       *)
(* player state to a player state and an action is one complete call.      *)
(* Indices are those of TLA+ sequences: the code's index plus one.         *)
(***************************************************************************)
EXTENDS Integers, Sequences

CONSTANTS
  Track,      \* the podcasts that can be played
  HasUrl,     \* those for which the search service returned an episode url
  Playlists,  \* the track lists the cells pass to conform
  NoTrack     \* "nil" where a track is optional

ASSUME PlayerAssumption ==
  /\ HasUrl \subseteq Track
  /\ Playlists \subseteq Seq(Track)
  /\ NoTrack \notin Track

VARIABLES
  player,      \* the Player object and what its delegates show
  pendingEnd,  \* the track whose end-of-item notification is under way
  trapped      \* a subscript was out of range: the process is gone

vars == <<player, pendingEnd, trapped>>

-----------------------------------------------------------------------------
(* State.                                                                  *)

\* currentTrack: the Track and its index in the playlist, or nil.
TrackState ==
  [id : Track \cup {NoTrack}, index : Nat, isPlaying : BOOLEAN,
   isGoingPlaying : BOOLEAN, isFirst : BOOLEAN, isLast : BOOLEAN]

TrackAt(t, i) ==
  [id |-> t, index |-> i, isPlaying |-> FALSE, isGoingPlaying |-> FALSE,
   isFirst |-> FALSE, isLast |-> FALSE]

NoCurrent == TrackAt(NoTrack, 0)

\* What a podcast cell shows of the player.
CellState == [isPlaying : BOOLEAN, isGoingPlaying : BOOLEAN]

\* Two screens have a small player, which is built when it is first needed; a
\* page of a podcast is taken to be open from the start.
\* told: an announcement has reached it since then.
Screen == {"tabBar", "detail"}
SmallState ==
  [shown : BOOLEAN, told : BOOLEAN, isPlaying : BOOLEAN, isGoingPlaying : BOOLEAN]

NoSmall == [shown |-> FALSE, told |-> FALSE, isPlaying |-> FALSE, isGoingPlaying |-> FALSE]

\* It is built as loading, whatever its track does.
BuiltSmall ==
  [shown |-> TRUE, told |-> FALSE, isPlaying |-> FALSE, isGoingPlaying |-> TRUE]

\* rate is the AVPlayer's; panel is the snapshot the big player shows;
\* remote says which lock-screen commands are enabled.
PlayerState ==
  [playlist : Seq(Track), current : TrackState, isPlaying : BOOLEAN,
   isLoading : BOOLEAN, observe : BOOLEAN, rate : {0, 1},
   cells : [Track -> CellState], panel : TrackState, small : [Screen -> SmallState],
   remote : [next : BOOLEAN, previous : BOOLEAN]]

InitialPlayer ==
  [playlist |-> <<>>, current |-> NoCurrent, isPlaying |-> FALSE,
   isLoading |-> FALSE, observe |-> FALSE, rate |-> 0,
   cells |-> [t \in Track |-> [isPlaying |-> FALSE, isGoingPlaying |-> FALSE]],
   panel |-> NoCurrent, small |-> [s \in Screen |-> NoSmall],
   remote |-> [next |-> TRUE, previous |-> TRUE]]

HasCurrent(p) == p.current.id # NoTrack

\* Conditions of the "isFirst" and "isLast" of the playing position ...
AtFirst(p) == HasCurrent(p) /\ p.current.index = 1
AtLast(p)  == HasCurrent(p) /\ p.current.index = Len(p.playlist)

\* ... and of a track in a list, by the first place its id occurs at.
FirstIn(list, t) == list # <<>> /\ list[1] = t
LastIn(list, t) ==
  /\ list # <<>>
  /\ list[Len(list)] = t
  /\ \A i \in 1 .. Len(list) - 1 : list[i] # t

-----------------------------------------------------------------------------
(* The methods.                                                            *)

\* Mutant of ToldSmall: the place of the two flags is swapped.
ToldSmallSwapped(p) ==
  [s \in Screen |->
     IF p.small[s].shown
     THEN [shown |-> TRUE, told |-> TRUE, isPlaying |-> p.current.isGoingPlaying,
           isGoingPlaying |-> p.current.isPlaying]
     ELSE p.small[s]]

\* The small players that are shown copy the flags of any track.
ToldSmall(p) ==
  [s \in Screen |->
     IF p.small[s].shown
     THEN [shown |-> TRUE, told |-> TRUE, isPlaying |-> p.current.isPlaying,
           isGoingPlaying |-> p.current.isGoingPlaying]
     ELSE p.small[s]]

\* Every delegate callback carries the whole track: the cell of that track,
\* the big player and the small ones copy it.  Without a current track nobody
\* is called.
Notify(p) ==
  IF HasCurrent(p)
  THEN [p EXCEPT !.panel = p.current,
                 !.cells = [@ EXCEPT ![p.current.id] =
                      [isPlaying      |-> p.current.isPlaying,
                       isGoingPlaying |-> p.current.isGoingPlaying]],
                 !.small = ToldSmall(p)]
  ELSE p

\* Mutant of PresentSmall: the page does not listen for the start of loading.
PresentSmallOnTabBar(p) ==
  IF HasCurrent(p)
  THEN [p EXCEPT !.small = [@ EXCEPT !["tabBar"] = IF p.small["tabBar"].shown
                                                   THEN @ ELSE BuiltSmall]]
  ELSE p

\* The start of loading also makes the screens build the small players they
\* do not have yet; those are no delegates during this call.
PresentSmall(p) ==
  IF HasCurrent(p)
  THEN [p EXCEPT !.small = [s \in Screen |-> IF p.small[s].shown THEN p.small[s]
                                             ELSE BuiltSmall]]
  ELSE p

\* Mutant of SetIsPlaying: didSet does not copy the value into the track.
SetIsPlayingWithoutCopy(p, b) ==
  IF p.isPlaying = b THEN p ELSE Notify([p EXCEPT !.isPlaying = b])

\* The didSet observers: a change is copied into the current track, if there
\* is one, and announced.  Setting the value it already has does nothing.
SetIsPlaying(p, b) ==
  IF p.isPlaying = b THEN p
  ELSE Notify([p EXCEPT !.isPlaying = b,
                        !.current = IF HasCurrent(p)
                                    THEN [@ EXCEPT !.isPlaying = b] ELSE @])

SetIsLoading(p, b) ==
  IF p.isLoading = b THEN p
  ELSE LET q == Notify([p EXCEPT !.isLoading = b,
                                 !.current = IF HasCurrent(p)
                                             THEN [@ EXCEPT !.isGoingPlaying = b] ELSE @])
       IN  IF b THEN PresentSmall(q) ELSE q

UpdatePlayerState(p) ==
  IF HasCurrent(p)
  THEN [p EXCEPT !.current = [@ EXCEPT !.isFirst = FirstIn(p.playlist, p.current.id),
                                       !.isLast  = LastIn(p.playlist, p.current.id)]]
  ELSE p

AddTimeObserve(p) == [p EXCEPT !.observe = TRUE]

\* Removing the observer also forgets the current track.
RemoveTimeObserve(p) ==
  IF p.observe THEN [p EXCEPT !.observe = FALSE, !.current = NoCurrent] ELSE p

Pause(p) ==
  SetIsLoading(SetIsPlaying(UpdatePlayerState([p EXCEPT !.rate = 0]), FALSE), FALSE)

\* Mutant of Play: the place in the list is computed after the announcement.
PlayPlaceLate(p) ==
  UpdatePlayerState(SetIsPlaying(AddTimeObserve([p EXCEPT !.rate = 1]), TRUE))

Play(p) ==
  SetIsPlaying(AddTimeObserve(UpdatePlayerState([p EXCEPT !.rate = 1])), TRUE)

PlayOrPause(p) == IF p.rate = 1 THEN Pause(p) ELSE Play(p)

\* Mutant of PlayerSeek: the AVPlayer is started, not the player.
PlayerSeekRaw(p) == [SetIsLoading(p, TRUE) EXCEPT !.rate = 1]

PlayerSeek(p) == Play(SetIsLoading(p, TRUE))

\* Mutant of StopCurrent: the old track is forgotten without being paused.
StopCurrentSilently(p) == IF HasCurrent(p) THEN RemoveTimeObserve(p) ELSE p

\* The part of startPlay that stops what is playing.
StopCurrent(p) == IF HasCurrent(p) THEN RemoveTimeObserve(Pause(p)) ELSE p

\* The part that enables the lock-screen commands for the new position.
EnableRemote(p) ==
  [p EXCEPT !.remote = [next |-> ~ AtLast(p), previous |-> ~ AtFirst(p)]]

\* A track without url is not started, whatever was changed before.  The
\* flags a Track is built with are those of the previous position; play
\* overwrites them, and without a current track they are FALSE.
StartPlayAt(p, t, i) ==
  IF t \in HasUrl
  THEN Play(EnableRemote(
              SetIsLoading([StopCurrent(p) EXCEPT !.current = TrackAt(t, i)], TRUE)))
  ELSE p

FirstIndex(list, t) ==
  CHOOSE i \in DOMAIN list : list[i] = t /\ \A j \in 1 .. i - 1 : list[j] # t

\* The playlist is replaced before it is known whether the track can start.
StartPlayList(p, t, list) ==
  StartPlayAt(UpdatePlayerState([p EXCEPT !.playlist = list]), t, FirstIndex(list, t))

ConformTrack(p, t, list) ==
  IF p.current.id = t THEN PlayOrPause(p) ELSE StartPlayList(p, t, list)

\* Mutant of CanAdvance: the end of the list is not recognised.
CanAdvanceAlways(p) == p.playlist # <<>> /\ HasCurrent(p)

\* Next and previous read the playlist at a position next to the current one;
\* the end of the list pauses, its beginning does nothing.
CanAdvance(p) == p.playlist # <<>> /\ HasCurrent(p) /\ ~ AtLast(p)
CanGoBack(p)  == p.playlist # <<>> /\ HasCurrent(p) /\ ~ AtFirst(p)

AdvanceTraps(p) == CanAdvance(p) /\ p.current.index + 1 > Len(p.playlist)
BackTraps(p)    == CanGoBack(p) /\ p.current.index - 1 > Len(p.playlist)

\* Mutants of PlayNext: the position is kept; the end of the list does nothing.
PlayNextSamePlace(p) ==
  IF CanAdvance(p)
  THEN StartPlayAt(p, p.playlist[p.current.index + 1], p.current.index)
  ELSE Pause(p)

PlayNextOrNothing(p) ==
  IF CanAdvance(p)
  THEN StartPlayAt(p, p.playlist[p.current.index + 1], p.current.index + 1)
  ELSE p

PlayNext(p) ==
  IF CanAdvance(p)
  THEN StartPlayAt(p, p.playlist[p.current.index + 1], p.current.index + 1)
  ELSE Pause(p)

PlayPrevious(p) ==
  IF CanGoBack(p)
  THEN StartPlayAt(p, p.playlist[p.current.index - 1], p.current.index - 1)
  ELSE p

\* The body of the periodic time observer, once the duration is known.
TickBody(p) == Notify(SetIsLoading(p, FALSE))

-----------------------------------------------------------------------------
(* The actions.                                                            *)

Init == player = InitialPlayer /\ pendingEnd = NoTrack /\ trapped = FALSE

\* A call that returns normally and leaves the end notifications alone.
Calls(p) == ~ trapped /\ player' = p /\ UNCHANGED <<pendingEnd, trapped>>

\* The process is killed by the subscript; the notification dies with it.
Trap == trapped' = TRUE /\ pendingEnd' = NoTrack /\ UNCHANGED player

\* The play button of a cell: its podcast and the rows of its section.
Conform ==
  \E list \in Playlists : \E i \in DOMAIN list :
    Calls(ConformTrack(player, list[i], list))

\* Play/pause in the small or the big player, or on the headset.
TogglePlayPause == Calls(PlayOrPause(player))

\* The slider: touching it pauses, letting it go seeks.
ScrubBegins == HasCurrent(player) /\ Calls(Pause(player))

\* Letting the slider go, or skipping a minute (a remote command too).
Seek == Calls(PlayerSeek(player))

NextEnabled     == (HasCurrent(player) /\ ~ player.panel.isLast) \/ player.remote.next
PreviousEnabled == (HasCurrent(player) /\ ~ player.panel.isFirst) \/ player.remote.previous

NextTapped ==
  /\ ~ trapped
  /\ NextEnabled
  /\ IF AdvanceTraps(player) THEN Trap ELSE Calls(PlayNext(player))

PreviousTapped ==
  /\ ~ trapped
  /\ PreviousEnabled
  /\ IF BackTraps(player) THEN Trap ELSE Calls(PlayPrevious(player))

\* A new cell view model, or a new big player, reads the player's state.
CellAppears(t) ==
  LET current == player.current.id = t
  IN Calls([player EXCEPT !.cells = [@ EXCEPT ![t] =
              [isPlaying      |-> current /\ player.isPlaying,
               isGoingPlaying |-> current /\ player.isLoading]]])

BigPlayerOpens ==
  HasCurrent(player) /\ Calls([player EXCEPT !.panel = player.current])

\* A podcast's page opens, in place of the one before.
DetailOpens ==
  Calls([player EXCEPT !.small = [@ EXCEPT !["detail"] =
           IF HasCurrent(player) THEN BuiltSmall ELSE NoSmall]])

\* AVFoundation: the time observer fires.
Tick == player.observe /\ Calls(TickBody(player))

\* AVFoundation: the item ends; the notification is on its way.
ItemEnds ==
  /\ ~ trapped
  /\ player.rate = 1 /\ HasCurrent(player) /\ pendingEnd = NoTrack
  /\ player' = [player EXCEPT !.rate = 0]
  /\ pendingEnd' = player.current.id
  /\ UNCHANGED trapped

\* AVFoundation: the notification arrives, whatever plays by now.
EndDelivered ==
  /\ ~ trapped
  /\ pendingEnd # NoTrack
  /\ IF AdvanceTraps(player)
     THEN Trap
     ELSE player' = PlayNext(player) /\ pendingEnd' = NoTrack /\ UNCHANGED trapped

\* A phone call: the system stops the AVPlayer without telling Player.
Interrupted ==
  player.rate = 1 /\ Calls([player EXCEPT !.rate = 0])

\* The user starts the app again after it was killed.
Relaunch ==
  /\ trapped
  /\ player' = InitialPlayer /\ pendingEnd' = NoTrack /\ trapped' = FALSE

Next ==
  \/ Conform \/ TogglePlayPause \/ ScrubBegins \/ Seek
  \/ NextTapped \/ PreviousTapped
  \/ \E t \in Track : CellAppears(t)
  \/ BigPlayerOpens \/ DetailOpens \/ Tick \/ ItemEnds \/ EndDelivered \/ Interrupted
  \/ Relaunch

\* The notification centre delivers what was posted; users promise nothing.
\* Only EndDelivered and the end of the process take a notification away, and
\* EndDelivered can whenever there is one: this is its weak fairness.
NotificationLeaves == pendingEnd # NoTrack /\ pendingEnd' = NoTrack

Spec == Init /\ [][Next]_vars /\ WF_pendingEnd(NotificationLeaves)

-----------------------------------------------------------------------------
(* Properties.                                                             *)

\* The state of the player has the types of its declarations.
TypeOK ==
  /\ player \in PlayerState
  /\ pendingEnd \in Track \cup {NoTrack}
  /\ trapped \in BOOLEAN

\* However tracks were switched, paused, sought and ended, only the cell of
\* the current track can show the pause button or the loading spinner, and
\* only while the player itself says that it plays or loads: startPlay tells
\* the old track's cell before it forgets the track.
OnlyCurrentCellIsLit ==
  \A t \in Track :
    /\ player.cells[t].isPlaying => player.current.id = t /\ player.isPlaying
    /\ player.cells[t].isGoingPlaying => player.current.id = t /\ player.isLoading

\* Sound never comes out of a player that says it is paused, or that has a
\* track nobody observes the progress of.
SoundIsAccountedFor ==
  /\ player.rate = 1 => player.isPlaying
  /\ HasCurrent(player) => player.observe

\* While every track of the playlist has a url, the remembered position is
\* the position of the current track in the current playlist.
PlayableList == \A i \in DOMAIN player.playlist : player.playlist[i] \in HasUrl
PositionIsCurrent ==
  PlayableList /\ HasCurrent(player) =>
    /\ player.current.index \in DOMAIN player.playlist
    /\ player.playlist[player.current.index] = player.current.id

\* playNextPodcast and playPreviewsTrack index the playlist without checking:
\* that is out of range only after a list with an unplayable track replaced
\* the playlist under a position of the old one.
TrapsOnlyOnUnplayableList == trapped => ~ PlayableList

\* The big player shows the track that is current, its state and its place,
\* unless the playlist was replaced by a track that could not start or the
\* track was started while a remote command had already turned playing on.
PanelIsCurrent ==
  PlayableList /\ HasCurrent(player)
    /\ player.current.isPlaying = player.isPlaying => player.panel = player.current

\* A small player that has heard one announcement shows what the current track
\* does from then on, whichever track that is: the spinner it was built with can
\* only be wrong before, as it is on a page opened while the track is paused.
SmallPlayersFollow ==
  \A s \in Screen : player.small[s].told =>
    /\ player.small[s].isPlaying = player.current.isPlaying
    /\ player.small[s].isGoingPlaying = player.current.isGoingPlaying

\* While there is a track every screen has a small player, unless a seek
\* without a track had already turned loading on when the first one started.
OnlySeeksHideSmallPlayers ==
  [][HasCurrent(player') /\ (\E s \in Screen : ~ player'.small[s].shown) =>
       IF HasCurrent(player) THEN \E s \in Screen : ~ player.small[s].shown
       ELSE player.isLoading]_vars

\* The player and its current track come to disagree about playing only when
\* a first track is started after a remote command turned playing on without
\* a track: then isPlaying does not change and didSet copies nothing.
InStep(p) == HasCurrent(p) => p.current.isPlaying = p.isPlaying
OutOfStepOnlyOnFirstStart ==
  [][InStep(player) /\ ~ InStep(player') =>
       ~ HasCurrent(player) /\ player.isPlaying /\ HasCurrent(player')]_vars

\* When an item has ended the player does not stay silent in the playing
\* state: the next track starts or the player pauses, unless a list with an
\* unplayable track is in place.
SilenceEnds ==
  pendingEnd # NoTrack /\ PlayableList ~>
    player.rate = 1 \/ ~ player.isPlaying \/ ~ PlayableList

=============================================================================
