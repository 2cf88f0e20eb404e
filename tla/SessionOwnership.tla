-------------------------- MODULE SessionOwnership --------------------------
(***************************************************************************)
(* Which thread works on a WorldSession.                                   *)
(*                                                                         *)
(* The world thread updates the sessions World lists whose m_map is null;  *)
(* each map thread updates the sessions it lists whose m_map is that map.  *)
(* A login or a far teleport looks the account's session up and hands it   *)
(* over: SetMap, then AddSession on the target map, whose thread takes it  *)
(* from its addSessQueue.  SafeTeleport does so twice, and goes on with    *)
(* the player in between.  The threads run freely.  Two flags, both tested *)
(* and then set, are meant to keep two of them out of one session:         *)
(* m_sUpdate around Update and m_playerLogout around LogoutPlayer.         *)
(*                                                                         *)
(* The sessions here are successive connections of ONE account: World and  *)
(* the maps list sessions by account, so a new one takes the old one's     *)
(* place.  Sessions are shared pointers: the last reference runs the       *)
(* destructor, which logs a remaining player out.                          *)
(***************************************************************************)
EXTENDS Naturals, Sequences, FiniteSets

CONSTANTS Sessions, NoSession, Maps, NoMap, World,
          MaxHanded       \* bound on the sessions waiting in one map's queue

ASSUME OwnershipConstants ==
  /\ NoSession \notin Sessions
  /\ NoMap \notin Maps /\ World \notin Maps /\ World # NoMap
  /\ MaxHanded \in Nat

Threads == Maps \cup {World}

VARIABLES
  arrivals,    \* World::addSessQueue
  listed,      \* World::m_sessions, for the account
  mapQueue,    \* Map::addSessQueue of each map
  mapList,     \* Map::m_sessions of each map, for the account
  mapOf,       \* m_map of each session
  updating,    \* m_sUpdate
  loggingOut,  \* m_playerLogout
  canLogout,   \* canLogout
  player,      \* _player: "none", "loading", "loaded" (the query is answered), "in"
  offline,     \* the sockets: "open", "closed" by the client, "forced" by KickPlayer
  at, on, back,\* each thread: where it is, its pSession, where its call returns
  found, target,\* ... the session its SafeTeleport or login found, and the map
  run,         \* Main: "up", "kicked" (KickAll is done), "stopped", "unloaded"
  dead,        \* history: the sessions destroyed
  usurped,     \* ... those whose m_map was set by a thread that did not own them
  overtaken    \* ... those listed when another one was put into a map's queue

flagVars   == <<updating, loggingOut, canLogout>>
listVars   == <<listed, mapQueue, mapList, mapOf>>
callVars   == <<found, target>>
threadVars == <<at, on, back, callVars>>
lateVars   == <<usurped, overtaken>>
history    == <<dead, lateVars>>
vars == <<arrivals, listVars, flagVars, player, offline, threadVars, run, history>>

(***************************************************************************)
(* "spell": before HandleSpellInQueue, "enter": before the test of         *)
(* m_sUpdate, "set": before setting it, "loop": in Update's packet loop,   *)
(* "handler" / "handled": in a packet's handler, "callbacks" / "called":   *)
(* in ProcessQueryCallbacks, before / after the login, "tail": after it,   *)
(* "failed": Update returned false, "logout" / "body": LogoutPlayer before *)
(* setting its flag / in it, "erase": after it, "drop": pSession goes out  *)
(* of scope.  A hand-over is at "test" before the test of PlayerLogout, at *)
(* "map" before SetMap and at "add" before AddSession; SafeTeleport's      *)
(* first one is "test1" and so on, its second "2".  A login that has found *)
(* the session is at "login" before SetMap and then at "add2".             *)
(***************************************************************************)
HandOverPlaces == {"test1", "map1", "add1", "test2", "map2", "add2", "login"}

Places == {"idle", "spell", "enter", "set", "loop", "handler", "handled", "callbacks",
           "called", "tail", "failed", "logout", "body", "erase", "drop"}
          \cup HandOverPlaces

(* A visit is to a session; a hand-over, which the map itself may start,   *)
(* has found one and chosen a map.                                         *)
LocalsOK(t) ==
  IF at[t] \in HandOverPlaces
  THEN /\ found[t] # NoSession /\ target[t] # NoMap
       /\ t = World => at[t] \in {"login", "add2"}
       /\ at[t] = "login" => back[t] = "called"
       /\ back[t] \in {"idle", "enter", "handled", "called"}
       /\ back[t] = "idle" <=> on[t] = NoSession
  ELSE /\ found[t] = NoSession /\ target[t] = NoMap /\ back[t] \in {"tail", "erase"}
       /\ at[t] = "idle" <=> on[t] = NoSession

TypeOK ==
  /\ arrivals \in Seq(Sessions)
  /\ listed \in Sessions \cup {NoSession}
  /\ mapQueue \in [Maps -> Seq(Sessions)]
  /\ mapList \in [Maps -> Sessions \cup {NoSession}]
  /\ mapOf \in [Sessions -> Maps \cup {NoMap}]
  /\ updating \in [Sessions -> BOOLEAN] /\ loggingOut \in [Sessions -> BOOLEAN]
  /\ canLogout \in [Sessions -> BOOLEAN]
  /\ player \in [Sessions -> {"none", "loading", "loaded", "in"}]
  /\ offline \in [Sessions -> {"open", "closed", "forced"}]
  /\ at \in [Threads -> Places]
  /\ on \in [Threads -> Sessions \cup {NoSession}]
  /\ back \in [Threads -> {"tail", "erase", "idle", "enter", "handled", "called"}]
  /\ found \in [Threads -> Sessions \cup {NoSession}]
  /\ target \in [Threads -> Maps \cup {NoMap}]
  /\ \A t \in Threads : LocalsOK(t)
  /\ run \in {"up", "kicked", "stopped", "unloaded"}
  /\ dead \subseteq Sessions /\ usurped \subseteq Sessions /\ overtaken \subseteq Sessions

Init ==
  /\ arrivals = <<>> /\ listed = NoSession
  /\ mapQueue = [m \in Maps |-> <<>>]
  /\ mapList = [m \in Maps |-> NoSession]
  /\ mapOf = [s \in Sessions |-> NoMap]
  /\ updating = [s \in Sessions |-> FALSE]
  /\ loggingOut = [s \in Sessions |-> FALSE]
  /\ canLogout = [s \in Sessions |-> FALSE]
  /\ player = [s \in Sessions |-> "none"]
  /\ offline = [s \in Sessions |-> "open"]
  /\ at = [t \in Threads |-> "idle"]
  /\ on = [t \in Threads |-> NoSession]
  /\ back = [t \in Threads |-> "erase"]
  /\ found = [t \in Threads |-> NoSession]
  /\ target = [t \in Threads |-> NoMap]
  /\ run = "up" /\ dead = {} /\ usurped = {} /\ overtaken = {}

InSeq(s, q) == \E i \in 1..Len(q) : q[i] = s

(* The shared pointers to s: World's, the maps', the other threads'.       *)
Referenced(s, t) ==
  \/ InSeq(s, arrivals) \/ s = listed
  \/ \E m \in Maps : s = mapList[m] \/ InSeq(s, mapQueue[m])
  \/ \E u \in Threads \ {t} : s = on[u] \/ s = found[u]

Goto(t, place) == at' = [at EXCEPT ![t] = place] /\ UNCHANGED <<on, back, callVars>>

Take(t, s, place) ==
  /\ at' = [at EXCEPT ![t] = place] /\ on' = [on EXCEPT ![t] = s]
  /\ UNCHANGED <<back, callVars>>

(* LogoutPlayer saves and deletes a player that is in.                     *)
Gone(s) == IF player[s] = "in" THEN "none" ELSE player[s]

(* The map Update is called for.                                           *)
MapArgument(t) == IF t = World THEN NoMap ELSE t
-----------------------------------------------------------------------------
(* A new connection of the account is handed to World::AddSession.         *)
Arrive(s) ==
  /\ s \notin dead /\ ~Referenced(s, NoMap)
  /\ arrivals = <<>> /\ player[s] = "none" /\ offline[s] = "open"
  /\ arrivals' = <<s>>
  /\ UNCHANGED <<listVars, flagVars, player, offline, threadVars, run, history>>

Disconnect(s) ==
  /\ Referenced(s, NoMap) /\ offline[s] = "open"
  /\ offline' = [offline EXCEPT ![s] = "closed"]
  /\ UNCHANGED <<arrivals, listVars, flagVars, player, threadVars, run, history>>

(* The database answers the login query.                                   *)
QueryAnswered(s) ==
  /\ player[s] = "loading" /\ s \notin dead
  /\ player' = [player EXCEPT ![s] = "loaded"]
  /\ UNCHANGED <<arrivals, listVars, flagVars, offline, threadVars, run, history>>

(* World::AddSession_: the account's old session is taken off its map and  *)
(* kicked, and loses World's reference.                                    *)
WorldAdds ==
  /\ at[World] = "idle" /\ run \in {"up", "kicked"} /\ arrivals # <<>>
  /\ arrivals' = Tail(arrivals)
  /\ listed' = Head(arrivals)
  /\ IF listed = NoSession
     THEN UNCHANGED <<mapOf, offline, threadVars>>
     ELSE /\ mapOf' = [mapOf EXCEPT ![listed] = NoMap]
          /\ offline' = [offline EXCEPT ![listed] = "forced"]
          /\ Take(World, listed, "drop")
  /\ UNCHANGED <<mapQueue, mapList, flagVars, player, run, history>>

(* World::UpdateSessions visits the listed session unless it is on a map.  *)
WorldVisits ==
  /\ at[World] = "idle" /\ run \in {"up", "kicked"}
  /\ listed # NoSession /\ mapOf[listed] = NoMap
  /\ Take(World, listed, "enter")
  /\ run' = IF run = "kicked" THEN "stopped" ELSE run
  /\ UNCHANGED <<arrivals, listVars, flagVars, player, offline, history>>

(* Map::UpdateLoop is between two things until the map is stopped.         *)
MapRuns(m) == at[m] = "idle" /\ run # "unloaded"

(* Map::AddSession_.                                                       *)
MapAdds(m) ==
  /\ MapRuns(m) /\ mapQueue[m] # <<>>
  /\ LET s == Head(mapQueue[m]) IN
       /\ mapQueue' = [mapQueue EXCEPT ![m] = Tail(@)]
       /\ mapList' = [mapList EXCEPT ![m] = s]
       /\ IF mapList[m] \in {NoSession, s} THEN UNCHANGED threadVars
                                           ELSE Take(m, mapList[m], "drop")
  /\ UNCHANGED <<arrivals, listed, mapOf, flagVars, player, offline, run, history>>

(* Map::UpdateSessions drops a session that has gone elsewhere ...         *)
MapForgets(m) ==
  /\ MapRuns(m) /\ mapList[m] # NoSession /\ mapOf[mapList[m]] # m
  /\ mapList' = [mapList EXCEPT ![m] = NoSession]
  /\ Take(m, mapList[m], "drop")
  /\ UNCHANGED <<arrivals, listed, mapQueue, mapOf, flagVars, player, offline, run,
                 history>>

(* ... and visits one of its own.                                          *)
MapVisits(m) ==
  /\ MapRuns(m) /\ mapList[m] # NoSession /\ mapOf[mapList[m]] = m
  /\ Take(m, mapList[m], "spell")
  /\ UNCHANGED <<arrivals, listVars, flagVars, player, offline, run, history>>
-----------------------------------------------------------------------------
(* A call that hands the account's session over to map m, from place, has  *)
(* found the session World lists; it will return to ret.                   *)
Call(t, m, place, ret) ==
  /\ listed # NoSession
  /\ at' = [at EXCEPT ![t] = place] /\ back' = [back EXCEPT ![t] = ret]
  /\ found' = [found EXCEPT ![t] = listed] /\ target' = [target EXCEPT ![t] = m]
  /\ UNCHANGED on

Return(t) ==
  /\ at' = [at EXCEPT ![t] = back[t]] /\ back' = [back EXCEPT ![t] = "erase"]
  /\ found' = [found EXCEPT ![t] = NoSession] /\ target' = [target EXCEPT ![t] = NoMap]
  /\ UNCHANGED on

(* SafeTeleport to another map; without a session it ends there.           *)
SafeTeleport(t, ret) == \E m \in Maps \ {t} : Call(t, m, "test1", ret)

(* m_map is set by thread t, whose own map or the new one it should name.  *)
SetMap(t, s, m) ==
  /\ mapOf' = [mapOf EXCEPT ![s] = m]
  /\ usurped' = IF mapOf[s] \in {MapArgument(t), m} THEN usurped ELSE usurped \cup {s}

(* Map::Update: a spell or the map itself teleports the player ...         *)
MapTeleports(m) ==
  /\ MapRuns(m) /\ mapList[m] # NoSession
  /\ mapOf[mapList[m]] = m /\ player[mapList[m]] = "in"
  /\ SafeTeleport(m, "idle")
  /\ UNCHANGED <<arrivals, listVars, flagVars, player, offline, run, history>>

(* ... or takes the player off the map for a logout.                       *)
MapRemoves(m) ==
  /\ MapRuns(m) /\ mapList[m] # NoSession
  /\ mapOf[mapList[m]] = m /\ player[mapList[m]] = "in"
  /\ canLogout' = [canLogout EXCEPT ![mapList[m]] = TRUE]
  /\ UNCHANGED <<arrivals, listVars, updating, loggingOut, player, offline, threadVars,
                 run, history>>

(* HandleSpellInQueue casts a queued spell, which may teleport.            *)
SpellInQueue(m) ==
  /\ at[m] = "spell"
  /\ \/ Goto(m, "enter")
     \/ player[on[m]] = "in" /\ SafeTeleport(m, "enter")
  /\ UNCHANGED <<arrivals, listVars, flagVars, player, offline, run, history>>
-----------------------------------------------------------------------------
(* The pointer found goes out of scope; the last one destroys the session. *)
DropFound(t) ==
  IF found[t] = on[t] \/ Referenced(found[t], t)
  THEN UNCHANGED <<player, dead>>
  ELSE /\ player' = [player EXCEPT ![found[t]] = Gone(found[t])]
       /\ dead' = dead \cup {found[t]}

(* A session that is logging out is not handed over.  A seamless teleport, *)
(* and ZoneTeleport, hand over once: they return instead of a second test. *)
HandOverTest(t) ==
  /\ at[t] \in {"test1", "test2"}
  /\ \/ /\ ~loggingOut[found[t]]
        /\ Goto(t, IF at[t] = "test1" THEN "map1" ELSE "map2")
        /\ UNCHANGED <<player, dead>>
     \/ /\ loggingOut[found[t]] /\ at[t] = "test1"
        /\ Goto(t, "test2") /\ UNCHANGED <<player, dead>>
     \/ loggingOut[found[t]] /\ Return(t) /\ DropFound(t)
  /\ UNCHANGED <<arrivals, listVars, flagVars, offline, run, lateVars>>

HandOverSetsMap(t) ==
  /\ \/ at[t] = "map1" /\ Goto(t, "add1")
     \/ at[t] = "map2" /\ Goto(t, "add2")
  /\ SetMap(t, found[t], target[t])
  /\ UNCHANGED <<arrivals, listed, mapQueue, mapList, flagVars, player, offline, run,
                 dead, overtaken>>

(* Map::AddSession.  Between two hand-overs the player leaves the old map. *)
HandOverAdds(t) ==
  /\ at[t] \in {"add1", "add2"}
  /\ (at[t] = "add1" /\ Goto(t, "test2")) \/ Return(t)
  /\ Len(mapQueue[target[t]]) < MaxHanded
  /\ mapQueue' = [mapQueue EXCEPT ![target[t]] = Append(@, found[t])]
  /\ overtaken' = IF listed \in {NoSession, found[t]} THEN overtaken
                                                      ELSE overtaken \cup {listed}
  /\ UNCHANGED <<arrivals, listed, mapList, mapOf, flagVars, player, offline, run, dead,
                 usurped>>
-----------------------------------------------------------------------------
(* Mutant: the early return forgets that the visit is over.                 *)
UpdateTestLeaks(t) ==
  /\ at[t] = "enter"
  /\ Goto(t, IF updating[on[t]] THEN "idle" ELSE "set")
  /\ UNCHANGED <<arrivals, listVars, flagVars, player, offline, run, history>>

(* WorldSession::Update: m_sUpdate is tested ...                           *)
UpdateTest(t) ==
  /\ at[t] = "enter"
  /\ Goto(t, IF updating[on[t]] THEN "drop" ELSE "set")
  /\ UNCHANGED <<arrivals, listVars, flagVars, player, offline, run, history>>

(* ... and set.                                                            *)
UpdateSet(t) ==
  /\ at[t] = "set"
  /\ updating' = [updating EXCEPT ![on[t]] = TRUE]
  /\ Goto(t, "loop")
  /\ UNCHANGED <<arrivals, listVars, loggingOut, canLogout, player, offline, run,
                 history>>

(* Mutant: the loop does not look at m_map.                                 *)
HandlePacketAnywhere(t) ==
  /\ at[t] = "loop"
  /\ Goto(t, "handler")
  /\ UNCHANGED <<arrivals, listVars, flagVars, player, offline, run, history>>

(* A packet is taken while the session is still on this thread's map.      *)
HandlePacket(t) ==
  /\ at[t] = "loop" /\ mapOf[on[t]] = MapArgument(t)
  /\ Goto(t, "handler")
  /\ UNCHANGED <<arrivals, listVars, flagVars, player, offline, run, history>>

(* What a handler does that matters here: start the login of a character   *)
(* (up to the query), teleport the player, or neither.                     *)
HandlerLogin(t) ==
  /\ at[t] = "handler" /\ player[on[t]] = "none"
  /\ player' = [player EXCEPT ![on[t]] = "loading"]
  /\ Goto(t, "handled")
  /\ UNCHANGED <<arrivals, listVars, flagVars, offline, run, history>>

HandlerTeleport(t) ==
  /\ at[t] = "handler" /\ t # World /\ player[on[t]] = "in"
  /\ SafeTeleport(t, "handled")
  /\ UNCHANGED <<arrivals, listVars, flagVars, player, offline, run, history>>

HandlerEnds(t) ==
  /\ at[t] \in {"handler", "handled"}
  /\ Goto(t, "loop")
  /\ UNCHANGED <<arrivals, listVars, flagVars, player, offline, run, history>>

(* The loop is left; a session that went elsewhere is left alone.          *)
LoopEnds(t) ==
  /\ at[t] = "loop"
  /\ IF mapOf[on[t]] = MapArgument(t)
     THEN Goto(t, "callbacks") /\ UNCHANGED updating
     ELSE Goto(t, "drop") /\ updating' = [updating EXCEPT ![on[t]] = FALSE]
  /\ UNCHANGED <<arrivals, listVars, loggingOut, canLogout, player, offline, run,
                 history>>

(* ProcessQueryCallbacks: nothing is ready, or all is done ...             *)
NoCallback(t) ==
  /\ at[t] \in {"callbacks", "called"}
  /\ IF mapOf[on[t]] = MapArgument(t)
     THEN Goto(t, "tail") /\ UNCHANGED updating
     ELSE Goto(t, "drop") /\ updating' = [updating EXCEPT ![on[t]] = FALSE]
  /\ UNCHANGED <<arrivals, listVars, loggingOut, canLogout, player, offline, run,
                 history>>

(* ... or HandlePlayerLogin runs: the player is in, the session that World *)
(* lists is looked up, this session's m_map is set, and the map is to be   *)
(* given the one found, if any.                                            *)
HandlePlayerLogin(t) ==
  /\ at[t] = "callbacks" /\ player[on[t]] = "loaded"
  /\ player' = [player EXCEPT ![on[t]] = "in"]
  /\ \E m \in Maps :
       \/ listed = NoSession /\ Goto(t, "called") /\ SetMap(t, on[t], m)
       \/ Call(t, m, "login", "called") /\ UNCHANGED <<mapOf, usurped>>
  /\ UNCHANGED <<arrivals, listed, mapQueue, mapList, flagVars, offline, run, dead,
                 overtaken>>

LoginSetsMap(t) ==
  /\ at[t] = "login" /\ Goto(t, "add2")
  /\ SetMap(t, on[t], target[t])
  /\ UNCHANGED <<arrivals, listed, mapQueue, mapList, flagVars, player, offline, run,
                 dead, overtaken>>

(* ... or cannot load the character, and the session is kicked.            *)
HandlePlayerLoginFails(t) ==
  /\ at[t] = "callbacks" /\ player[on[t]] = "loaded"
  /\ player' = [player EXCEPT ![on[t]] = "none"]
  /\ offline' = [offline EXCEPT ![on[t]] = "forced"]
  /\ UNCHANGED <<arrivals, listVars, flagVars, threadVars, run, history>>
-----------------------------------------------------------------------------
(* The end of Update: a player taken off the map is logged out first.      *)
UpdateLogsOut(t) ==
  /\ at[t] = "tail" /\ canLogout[on[t]]
  /\ IF loggingOut[on[t]]
     THEN canLogout' = [canLogout EXCEPT ![on[t]] = FALSE] /\ UNCHANGED <<at, back>>
     ELSE /\ at' = [at EXCEPT ![t] = "logout"] /\ back' = [back EXCEPT ![t] = "tail"]
          /\ UNCHANGED canLogout
  /\ UNCHANGED <<on, callVars, arrivals, listVars, updating, loggingOut, player,
                 offline, run, history>>

(* With a closed socket Update returns false; after a mere disconnect of a *)
(* player only once the session's time has run out.                        *)
UpdateReturns(t) ==
  /\ at[t] = "tail" /\ ~canLogout[on[t]]
  /\ \/ offline[on[t]] # "open" /\ Goto(t, "failed")
     \/ offline[on[t]] = "open" /\ Goto(t, "drop")
     \/ offline[on[t]] = "closed" /\ player[on[t]] = "in" /\ Goto(t, "drop")
  /\ updating' = [updating EXCEPT ![on[t]] = FALSE]
  /\ UNCHANGED <<arrivals, listVars, loggingOut, canLogout, player, offline, run,
                 history>>

(* Mutant: Map::UpdateSessions calls SetMap(nullptr) before LogoutPlayer.   *)
LogoutTestUnmapsFirst(t) ==
  /\ at[t] = "failed"
  /\ at' = [at EXCEPT ![t] = IF loggingOut[on[t]] THEN "erase" ELSE "logout"]
  /\ back' = [back EXCEPT ![t] = "erase"]
  /\ mapOf' = [mapOf EXCEPT ![on[t]] = NoMap]
  /\ UNCHANGED <<on, callVars, arrivals, listed, mapQueue, mapList, flagVars, player,
                 offline, run, history>>

(* Both UpdateSessions then call LogoutPlayer, whose flag is tested ...    *)
LogoutTest(t) ==
  /\ at[t] = "failed"
  /\ at' = [at EXCEPT ![t] = IF loggingOut[on[t]] THEN "erase" ELSE "logout"]
  /\ back' = [back EXCEPT ![t] = "erase"]
  /\ UNCHANGED <<on, callVars, arrivals, listVars, flagVars, player, offline, run,
                 history>>

(* ... and set.                                                            *)
LogoutSet(t) ==
  /\ at[t] = "logout"
  /\ loggingOut' = [loggingOut EXCEPT ![on[t]] = TRUE]
  /\ Goto(t, "body")
  /\ UNCHANGED <<arrivals, listVars, updating, canLogout, player, offline, run,
                 history>>

(* Its body saves and deletes the player; Update then clears canLogout.    *)
LogoutEnds(t) ==
  /\ at[t] = "body"
  /\ player' = [player EXCEPT ![on[t]] = Gone(on[t])]
  /\ loggingOut' = [loggingOut EXCEPT ![on[t]] = FALSE]
  /\ canLogout' = [canLogout EXCEPT ![on[t]] = @ /\ back[t] # "tail"]
  /\ at' = [at EXCEPT ![t] = back[t]] /\ back' = [back EXCEPT ![t] = "erase"]
  /\ UNCHANGED <<on, callVars, arrivals, listVars, updating, offline, run, history>>

(* World::UpdateSessions unlists the session; Map::UpdateSessions hands it *)
(* to the world thread.                                                    *)
WorldErases ==
  /\ at[World] = "erase"
  /\ listed' = NoSession
  /\ Goto(World, "drop")
  /\ UNCHANGED <<arrivals, mapQueue, mapList, mapOf, flagVars, player, offline, run,
                 history>>

(* Mutant: SetMap(nullptr) is missing.                                      *)
MapErasesKeepsMap(m) ==
  /\ at[m] = "erase"
  /\ mapList' = [mapList EXCEPT ![m] = NoSession]
  /\ Goto(m, "drop")
  /\ UNCHANGED <<arrivals, listed, mapQueue, mapOf, flagVars, player, offline, run,
                 history>>

MapErases(m) ==
  /\ at[m] = "erase"
  /\ mapOf' = [mapOf EXCEPT ![on[m]] = NoMap]
  /\ mapList' = [mapList EXCEPT ![m] = NoSession]
  /\ Goto(m, "drop")
  /\ UNCHANGED <<arrivals, listed, mapQueue, flagVars, player, offline, run, history>>

(* pSession goes out of scope.  The last reference runs ~WorldSession,     *)
(* which logs a remaining player out.                                      *)
DropReference(t) ==
  /\ at[t] = "drop"
  /\ Take(t, NoSession, "idle")
  /\ IF Referenced(on[t], t)
     THEN UNCHANGED <<player, dead>>
     ELSE player' = [player EXCEPT ![on[t]] = Gone(on[t])] /\ dead' = dead \cup {on[t]}
  /\ UNCHANGED <<arrivals, listVars, flagVars, offline, run, lateVars>>

(* Main's last steps: KickAll, then one UpdateSessions.                    *)
KickAll ==
  /\ at[World] = "idle" /\ run = "up"
  /\ run' = "kicked"
  /\ IF listed = NoSession
     THEN UNCHANGED <<offline, mapOf>>
     ELSE /\ offline' = [offline EXCEPT ![listed] = "forced"]
          /\ mapOf' = [mapOf EXCEPT ![listed] = NoMap]
  /\ UNCHANGED <<arrivals, listed, mapQueue, mapList, flagVars, player, threadVars,
                 history>>

(* ... which skips a session that is on a map again.                       *)
LastUpdateSkips ==
  /\ at[World] = "idle" /\ run = "kicked" /\ arrivals = <<>>
  /\ listed # NoSession => mapOf[listed] # NoMap
  /\ run' = "stopped"
  /\ UNCHANGED <<arrivals, listVars, flagVars, player, offline, threadVars, history>>

(* MapManager::UnloadAll stops the map threads, waits a second (here: until *)
(* they are idle and have taken what was handed to them) and logs out the  *)
(* players of the sessions the maps still list.                            *)
UnloadAll ==
  /\ run = "stopped"
  /\ \A t \in Threads : at[t] = "idle"
  /\ \A m \in Maps : mapQueue[m] = <<>>
  /\ run' = "unloaded"
  /\ LET left == {s \in Sessions : \E m \in Maps : s = mapList[m]}
     IN  /\ player' = [s \in Sessions |-> IF s \in left THEN Gone(s) ELSE player[s]]
         /\ mapOf' = [s \in Sessions |-> IF s \in left THEN NoMap ELSE mapOf[s]]
  /\ UNCHANGED <<arrivals, listed, mapQueue, mapList, flagVars, offline, threadVars,
                 history>>
-----------------------------------------------------------------------------
UpdateNext(t) ==
  \/ UpdateTest(t) \/ UpdateSet(t)
  \/ HandlePacket(t) \/ HandlerLogin(t) \/ HandlerTeleport(t) \/ HandlerEnds(t)
  \/ LoopEnds(t) \/ NoCallback(t) \/ HandlePlayerLogin(t)
  \/ HandlePlayerLoginFails(t)
  \/ UpdateLogsOut(t) \/ UpdateReturns(t)
  \/ LogoutTest(t) \/ LogoutSet(t) \/ LogoutEnds(t)
  \/ DropReference(t)

MapNext(m) ==
  \/ MapAdds(m) \/ MapForgets(m) \/ MapVisits(m) \/ MapErases(m)
  \/ MapTeleports(m) \/ MapRemoves(m) \/ SpellInQueue(m)

HandOverNext(t) ==
  HandOverTest(t) \/ HandOverSetsMap(t) \/ HandOverAdds(t) \/ LoginSetsMap(t)

Next ==
  \/ \E s \in Sessions : Arrive(s) \/ Disconnect(s) \/ QueryAnswered(s)
  \/ WorldAdds \/ WorldVisits \/ WorldErases \/ KickAll \/ LastUpdateSkips
  \/ UnloadAll
  \/ \E m \in Maps : MapNext(m)
  \/ \E t \in Threads : UpdateNext(t) \/ HandOverNext(t)

Spec == Init /\ [][Next]_vars
-----------------------------------------------------------------------------
(***************************************************************************)
(* While the server is up, no two threads handle packets of one session at *)
(* a time, up to the moment a handler hands the session over: m_sUpdate is *)
(* tested and set in two steps and a late thread may clear it under        *)
(* another, so it is the test of m_map in the loop that must hold.  Only a *)
(* thread that sets m_map after it has given the session away, as the      *)
(* second hand-over of SafeTeleport can, lets a second one in.             *)
(***************************************************************************)
Handling(t, s) == on[t] = s /\ at[t] \in {"handler", "test1", "map1"}

OneHandler ==
  run = "up" =>
    \A s \in Sessions \ usurped : \A t, u \in Threads :
      Handling(t, s) /\ Handling(u, s) => t = u

(***************************************************************************)
(* While the server is up, no two threads are in LogoutPlayer for one      *)
(* session, with the same exception, although its flag, too, is tested and *)
(* then set.                                                               *)
(***************************************************************************)
LoggingOut(t, s) == on[t] = s /\ at[t] = "body"

OneInLogout ==
  run = "up" =>
    \A s \in Sessions \ usurped : \A t, u \in Threads :
      LoggingOut(t, s) /\ LoggingOut(u, s) => t = u

(***************************************************************************)
(* No session falls between two threads: one whose m_map is set is listed  *)
(* by that map, waits in its queue or is about to, however hand-overs,     *)
(* late visits and the erasures of both lists interleave.  The others the  *)
(* world visits.  Only when a teleport or a login hands over the session   *)
(* it found, while a new one has taken its place, may the new one be lost. *)
(***************************************************************************)
InHandOver(s, m) ==
  \E t \in Threads : at[t] \in {"add1", "add2"} /\ found[t] = s /\ target[t] = m

NobodyForgotten ==
  (listed # NoSession /\ listed \notin overtaken /\ mapOf[listed] # NoMap) =>
    LET m == mapOf[listed]
    IN  mapList[m] = listed \/ InSeq(listed, mapQueue[m]) \/ InHandOver(listed, m)

(***************************************************************************)
(* WorldSession.cpp:741: "Since each account can only have one online      *)
(* character at any given time".                                           *)
(***************************************************************************)
OneOnlineCharacter ==
  \A s, r \in Sessions : player[s] = "in" /\ player[r] = "in" => s = r

(***************************************************************************)
(* Main.cpp:302-303, "save and kick all players", "real players unload     *)
(* required UpdateSessions call": once the maps are unloaded, before the   *)
(* databases are closed, no player is left to be saved.                    *)
(***************************************************************************)
SavedAtStop == run = "unloaded" => \A s \in Sessions : player[s] # "in"
-----------------------------------------------------------------------------
(***************************************************************************)
(* What these rest on.  A session that arrives is new to everybody, and    *)
(* one with a map is still held by somebody or destroyed.  A visit is to   *)
(* the session the visitor lists.  In a map's queue nothing older than the *)
(* listed session comes after it, so that it is never pushed off the map,  *)
(* unless it was overtaken.                                                *)
(***************************************************************************)
Held(s) ==
  \/ s = listed
  \/ \E m \in Maps : s = mapList[m] \/ InSeq(s, mapQueue[m])
  \/ \E t \in Threads : s = on[t] \/ s = found[t]

ArrivalsAreNew ==
  /\ Len(arrivals) <= 1
  /\ \A s \in Sessions : InSeq(s, arrivals) => ~Held(s) /\ mapOf[s] = NoMap

MappedAreHeld == \A s \in Sessions : mapOf[s] # NoMap => Held(s) \/ s \in dead

Own(t) == IF t = World THEN listed ELSE mapList[t]

VisitsItsOwn ==
  \A t \in Threads : at[t] # "drop" /\ on[t] # NoSession => on[t] = Own(t)

OnlyAfter(m) ==
  /\ \A i \in 1..Len(mapQueue[m]) : mapList[m] = listed => mapQueue[m][i] = listed
  /\ \A i, j \in 1..Len(mapQueue[m]) :
       i < j /\ mapQueue[m][i] = listed => mapQueue[m][j] = listed

NewestLast ==
  (listed # NoSession /\ listed \notin overtaken) => \A m \in Maps : OnlyAfter(m)

OwnershipInv ==
  /\ TypeOK /\ ArrivalsAreNew /\ MappedAreHeld /\ VisitsItsOwn /\ NewestLast
  /\ NobodyForgotten

(* A login on behalf of the listed session has found that session.         *)
LoginFindsItself ==
  \A t \in Threads : at[t] = "login" /\ on[t] = listed => found[t] = listed

(***************************************************************************)
(* The session's map names the only thread that may be past the tests of   *)
(* Update, in LogoutPlayer, erasing it or about to hand it over; a session *)
(* whose place was taken is off its map, and no other thread comes to it.  *)
(***************************************************************************)
PastTheTest ==
  {"spell", "handler", "callbacks", "tail", "failed", "logout", "body", "erase",
   "test1", "map1"}

Owner(t, s) ==
  \/ mapOf[s] = MapArgument(t)
  \/ t # World /\ s # listed /\ mapOf[s] = NoMap

OneOwner ==
  run = "up" =>
    \A s \in Sessions \ usurped :
      /\ \A t \in Threads : at[t] \in PastTheTest /\ on[t] = s => Owner(t, s)
      /\ mapOf[s] # NoMap => s = listed

OnePast ==
  run = "up" =>
    \A s \in Sessions \ usurped : \A t, u \in Threads :
      (on[t] = s /\ on[u] = s /\ at[t] \in PastTheTest /\ at[u] \in PastTheTest) => t = u

OwnersInv == OneOwner /\ OnePast
=============================================================================
