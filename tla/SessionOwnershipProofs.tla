----------------------- MODULE SessionOwnershipProofs -----------------------
(* Proofs about SessionOwnership for any sessions, maps and queue bound.    *)
EXTENDS SessionOwnership, TLAPS

LEMMA InAppend ==
  ASSUME NEW S, NEW q \in Seq(S), NEW x \in S, NEW y
  PROVE  InSeq(y, Append(q, x)) <=> InSeq(y, q) \/ y = x
  <1> DEFINE r == Append(q, x)
             n == Len(q)
  <1>1. /\ n \in Nat /\ Len(r) = n + 1 /\ r[n + 1] = x
        /\ \A i \in 1..n : r[i] = q[i]
    OBVIOUS
  <1> HIDE DEF r, n
  <1>2. /\ \A i \in 1..Len(r) : i \in 1..n \/ i = n + 1
        /\ \A i \in 1..n : i \in 1..Len(r)
        /\ n + 1 \in 1..Len(r)
    BY <1>1
  <1>3. InSeq(y, r) => InSeq(y, q) \/ y = x
    BY <1>1, <1>2 DEF InSeq, n
  <1>4. InSeq(y, q) => InSeq(y, r)
    BY <1>1, <1>2 DEF InSeq, n
  <1>5. y = x => InSeq(y, r)
    BY <1>1, <1>2 DEF InSeq
  <1>6. QED
    BY <1>3, <1>4, <1>5 DEF r

LEMMA InTail ==
  ASSUME NEW S, NEW q \in Seq(S), q # <<>>, NEW y
  PROVE  InSeq(y, q) <=> InSeq(y, Tail(q)) \/ y = Head(q)
  <1> DEFINE r == Tail(q)
             n == Len(q)
  <1>1. /\ n \in Nat /\ n >= 1 /\ Len(r) = n - 1 /\ Head(q) = q[1]
        /\ \A i \in 1..(n - 1) : r[i] = q[i + 1]
    OBVIOUS
  <1> HIDE DEF r, n
  <1>2. /\ \A i \in 1..Len(r) : i + 1 \in 1..n /\ r[i] = q[i + 1]
        /\ \A i \in 1..n : i = 1 \/ (i - 1 \in 1..Len(r) /\ r[i - 1] = q[i])
        /\ 1 \in 1..n
    <2>1. \A i \in 1..n : i # 1 => i - 1 \in 1..(n - 1) /\ (i - 1) + 1 = i
      BY <1>1
    <2>2. \A i \in 1..n : i # 1 => r[i - 1] = q[i]
      BY <1>1, <2>1
    <2>3. QED
      BY <1>1, <2>1, <2>2
  <1>3. InSeq(y, q) => InSeq(y, r) \/ y = Head(q)
    BY <1>1, <1>2 DEF InSeq, n
  <1>4. InSeq(y, r) => InSeq(y, q)
    BY <1>1, <1>2 DEF InSeq, n
  <1>5. y = Head(q) => InSeq(y, q)
    BY <1>1, <1>2 DEF InSeq, n
  <1>6. QED
    BY <1>3, <1>4, <1>5 DEF r

LEMMA Names ==
  /\ NoSession \notin Sessions /\ NoMap \notin Maps /\ World \notin Maps /\ World # NoMap
  /\ Threads = Maps \cup {World} /\ NoMap \notin Threads
  BY OwnershipConstants DEF Threads
-----------------------------------------------------------------------------
(* TypeOK by parts.                                                         *)
ListsTyped ==
  /\ arrivals \in Seq(Sessions) /\ listed \in Sessions \cup {NoSession}
  /\ mapQueue \in [Maps -> Seq(Sessions)]
  /\ mapList \in [Maps -> Sessions \cup {NoSession}]
  /\ mapOf \in [Sessions -> Maps \cup {NoMap}]

FlagsTyped ==
  /\ updating \in [Sessions -> BOOLEAN] /\ loggingOut \in [Sessions -> BOOLEAN]
  /\ canLogout \in [Sessions -> BOOLEAN]
  /\ player \in [Sessions -> {"none", "loading", "loaded", "in"}]
  /\ offline \in [Sessions -> {"open", "closed", "forced"}]

Returns == {"tail", "erase", "idle", "enter", "handled", "called"}

ThreadsTyped ==
  /\ at \in [Threads -> Places] /\ on \in [Threads -> Sessions \cup {NoSession}]
  /\ back \in [Threads -> Returns]
  /\ found \in [Threads -> Sessions \cup {NoSession}]
  /\ target \in [Threads -> Maps \cup {NoMap}]
  /\ \A t \in Threads : LocalsOK(t)

RunTyped ==
  /\ run \in {"up", "kicked", "stopped", "unloaded"} /\ dead \subseteq Sessions
  /\ usurped \subseteq Sessions /\ overtaken \subseteq Sessions

LEMMA Typed == TypeOK <=> ListsTyped /\ FlagsTyped /\ ThreadsTyped /\ RunTyped
  BY DEF TypeOK, ListsTyped, FlagsTyped, ThreadsTyped, RunTyped, Returns

LEMMA TypedNext == TypeOK' <=> ListsTyped' /\ FlagsTyped' /\ ThreadsTyped' /\ RunTyped'
  BY DEF TypeOK, ListsTyped, FlagsTyped, ThreadsTyped, RunTyped, Returns

(* A step of one thread that leaves the others where they are.              *)
OnlyMoves(t) ==
  \A u \in Threads \ {t} :
    /\ at'[u] = at[u] /\ on'[u] = on[u] /\ back'[u] = back[u]
    /\ found'[u] = found[u] /\ target'[u] = target[u]

RangesTyped ==
  /\ at \in [Threads -> Places] /\ on \in [Threads -> Sessions \cup {NoSession}]
  /\ back \in [Threads -> Returns]
  /\ found \in [Threads -> Sessions \cup {NoSession}]
  /\ target \in [Threads -> Maps \cup {NoMap}]

LEMMA ThreadMoves ==
  ASSUME ThreadsTyped, NEW t \in Threads, OnlyMoves(t), RangesTyped', LocalsOK(t)'
  PROVE  ThreadsTyped'
  <1>1. \A u \in Threads : LocalsOK(u)'
    BY DEF ThreadsTyped, LocalsOK, OnlyMoves
  <1>2. QED
    BY <1>1 DEF ThreadsTyped, RangesTyped

(* A thread inside its visit goes elsewhere in it.                          *)
LEMMA GotoTyped ==
  ASSUME ThreadsTyped, NEW t \in Threads, at[t] \notin HandOverPlaces \cup {"idle"},
         NEW p \in Places \ (HandOverPlaces \cup {"idle"}), NEW b \in {"tail", "erase"},
         at' = [at EXCEPT ![t] = p], back' = [back EXCEPT ![t] = b],
         UNCHANGED <<on, found, target>>
  PROVE  ThreadsTyped' /\ OnlyMoves(t) /\ at'[t] = p /\ on'[t] = on[t]
  <1>1. RangesTyped'
    BY DEF ThreadsTyped, RangesTyped, Returns
  <1>2. OnlyMoves(t) /\ at'[t] = p /\ back'[t] = b
    BY DEF ThreadsTyped, OnlyMoves
  <1>3. LocalsOK(t)'
    BY <1>2 DEF ThreadsTyped, LocalsOK
  <1>4. QED
    BY <1>1, <1>2, <1>3, ThreadMoves

(* A thread between two visits takes one up, or leaves it.                  *)
LEMMA TakeTyped ==
  ASSUME ThreadsTyped, NEW t \in Threads, NEW s \in Sessions \cup {NoSession},
         at[t] \notin HandOverPlaces,
         NEW p \in Places \ HandOverPlaces, (p = "idle") <=> (s = NoSession), Take(t, s, p)
  PROVE  ThreadsTyped' /\ OnlyMoves(t) /\ at'[t] = p /\ on'[t] = s /\ found' = found
  <1>1. RangesTyped' /\ UNCHANGED <<back, found, target>>
    BY DEF ThreadsTyped, RangesTyped, Take, callVars
  <1>2. OnlyMoves(t) /\ at'[t] = p /\ on'[t] = s
    BY <1>1 DEF ThreadsTyped, OnlyMoves, Take
  <1>3. LocalsOK(t)'
    BY <1>1, <1>2 DEF ThreadsTyped, LocalsOK
  <1>4. QED
    BY <1>1, <1>2, <1>3, ThreadMoves

(* A thread starts, ends or continues a hand-over.                          *)
LEMMA CallTyped ==
  ASSUME ThreadsTyped, NEW t \in Threads, listed \in Sessions \cup {NoSession}, NEW m \in Maps,
         NEW p \in {"test1", "login"}, NEW b \in {"idle", "enter", "handled", "called"},
         t = World => p = "login", p = "login" => b = "called",
         (b = "idle") <=> (on[t] = NoSession), Call(t, m, p, b)
  PROVE  /\ ThreadsTyped' /\ OnlyMoves(t) /\ on' = on /\ at'[t] = p
         /\ found'[t] = listed /\ target'[t] = m /\ listed \in Sessions
  <1>1. RangesTyped' /\ on' = on /\ listed # NoSession
    BY DEF ThreadsTyped, RangesTyped, Returns, Call, Places, HandOverPlaces
  <1>2. OnlyMoves(t) /\ at'[t] = p /\ back'[t] = b /\ found'[t] = listed /\ target'[t] = m
    BY <1>1 DEF ThreadsTyped, OnlyMoves, Call
  <1>3. LocalsOK(t)'
    BY <1>1, <1>2, Names DEF LocalsOK, HandOverPlaces
  <1>4. QED
    BY <1>1, <1>2, <1>3, ThreadMoves

LEMMA ReturnTyped ==
  ASSUME ThreadsTyped, NEW t \in Threads, at[t] \in HandOverPlaces, Return(t)
  PROVE  /\ ThreadsTyped' /\ OnlyMoves(t) /\ on' = on
         /\ at'[t] \in {"idle", "enter", "handled", "called"}
         /\ found'[t] = NoSession
  <1>1. /\ back[t] \in {"idle", "enter", "handled", "called"}
        /\ (back[t] = "idle") <=> (on[t] = NoSession)
    BY DEF ThreadsTyped, LocalsOK
  <1>2. RangesTyped' /\ on' = on
    BY <1>1 DEF ThreadsTyped, RangesTyped, Returns, Return, Places
  <1>3. /\ OnlyMoves(t) /\ at'[t] = back[t] /\ back'[t] = "erase" /\ found'[t] = NoSession
        /\ target'[t] = NoMap
    BY <1>1, <1>2 DEF ThreadsTyped, OnlyMoves, Return
  <1>4. LocalsOK(t)'
    BY <1>1, <1>2, <1>3 DEF LocalsOK, HandOverPlaces
  <1>5. QED
    BY <1>1, <1>2, <1>3, <1>4, ThreadMoves

LEMMA GoesOnTyped ==
  ASSUME ThreadsTyped, NEW t \in Threads, at[t] \in HandOverPlaces,
         NEW p \in HandOverPlaces, t = World => p = "add2", p # "login", Goto(t, p)
  PROVE  ThreadsTyped' /\ OnlyMoves(t) /\ UNCHANGED <<on, found, target>> /\ at'[t] = p
  <1>1. RangesTyped' /\ UNCHANGED <<on, back, found, target>>
    BY DEF ThreadsTyped, RangesTyped, Goto, callVars, Places
  <1>2. OnlyMoves(t) /\ at'[t] = p
    BY <1>1 DEF ThreadsTyped, OnlyMoves, Goto
  <1>3. LocalsOK(t)'
    BY <1>1, <1>2 DEF ThreadsTyped, LocalsOK
  <1>4. QED
    BY <1>1, <1>2, <1>3, ThreadMoves

(* A thread that is somewhere has a session, its own or one it found.       *)
LEMMA Busy ==
  ASSUME ThreadsTyped, NEW t \in Threads, at[t] \notin HandOverPlaces \cup {"idle"}
  PROVE  /\ on[t] \in Sessions /\ on[t] # NoSession /\ found[t] = NoSession
         /\ target[t] = NoMap /\ back[t] \in {"tail", "erase"}
  BY Names DEF ThreadsTyped, LocalsOK

LEMMA Calling ==
  ASSUME ThreadsTyped, NEW t \in Threads, at[t] \in HandOverPlaces
  PROVE  /\ found[t] \in Sessions /\ found[t] # NoSession /\ target[t] \in Maps
         /\ back[t] \in {"idle", "enter", "handled", "called"}
         /\ (back[t] = "idle") <=> (on[t] = NoSession)
         /\ t = World => at[t] \in {"login", "add2"}
         /\ at[t] = "login" => on[t] \in Sessions
  BY Names DEF ThreadsTyped, LocalsOK

LEMMA Idle ==
  ASSUME ThreadsTyped, NEW t \in Threads, at[t] = "idle"
  PROVE  on[t] = NoSession /\ found[t] = NoSession /\ at[t] \notin HandOverPlaces
  BY Names DEF ThreadsTyped, LocalsOK, HandOverPlaces
-----------------------------------------------------------------------------
(* What the proof keeps about the lists, without the types.                 *)
ListsInv == ArrivalsAreNew /\ MappedAreHeld /\ VisitsItsOwn /\ NewestLast /\ NobodyForgotten

LEMMA Parts ==
  ASSUME OwnershipInv
  PROVE  TypeOK /\ ListsTyped /\ FlagsTyped /\ ThreadsTyped /\ RunTyped /\ ListsInv
  BY Typed DEF OwnershipInv, ListsInv

LEMMA Whole ==
  ASSUME ListsTyped', FlagsTyped', ThreadsTyped', RunTyped', ListsInv'
  PROVE  OwnershipInv'
  BY TypedNext DEF OwnershipInv, ListsInv

(* Nobody lists or looks at anything else; what is held no more is dead,    *)
(* and a session gets a map only from a hand-over that goes on.             *)
LEMMA ListsChange ==
  ASSUME ListsTyped, ListsInv,
         UNCHANGED <<arrivals, listed, mapQueue, mapList, overtaken>>, dead \subseteq dead',
         \A s \in Sessions : (Held(s)' => Held(s)) /\ (Held(s) => Held(s)' \/ s \in dead'),
         \A t \in Threads :
           at'[t] # "drop" /\ on'[t] # NoSession =>
             (on'[t] = on[t] /\ at[t] # "drop") \/ on'[t] = Own(t),
         \A s, m : InHandOver(s, m) => InHandOver(s, m)',
         ListsTyped',
         \A s \in Sessions, m \in Maps :
           mapOf'[s] = m => mapOf[s] = m \/ (Held(s) /\ (s = listed => InHandOver(s, m)'))
  PROVE  ListsInv'
  <1>0. \A s \in Sessions : mapOf'[s] # NoMap => mapOf'[s] \in Maps
    BY DEF ListsTyped
  <1>1. ArrivalsAreNew'
    BY <1>0, Names DEF ListsInv, ArrivalsAreNew
  <1>2. MappedAreHeld'
    BY <1>0, Names DEF ListsInv, MappedAreHeld
  <1>3. VisitsItsOwn'
    BY DEF ListsInv, VisitsItsOwn, Own
  <1>4. NewestLast'
    BY DEF ListsInv, NewestLast, OnlyAfter
  <1>5. NobodyForgotten'
    <2>1. ASSUME NEW s \in Sessions, s = listed, s \notin overtaken,
                 NEW m \in Maps, mapOf'[s] = m
          PROVE  mapList[m] = s \/ InSeq(s, mapQueue[m]) \/ InHandOver(s, m)'
      <3>1. CASE mapOf[s] = m
        <4>1. mapList[m] = s \/ InSeq(s, mapQueue[m]) \/ InHandOver(s, m)
          BY <2>1, <3>1, Names DEF ListsInv, NobodyForgotten
        <4>2. QED
          BY <4>1
      <3>2. CASE mapOf[s] # m
        BY <2>1, <3>2
      <3>3. QED
        BY <3>1, <3>2
    <2>2. listed # NoSession => listed \in Sessions
      BY DEF ListsTyped
    <2>3. SUFFICES ASSUME listed # NoSession, listed \notin overtaken, mapOf'[listed] # NoMap
                   PROVE  \/ mapList[mapOf'[listed]] = listed
                          \/ InSeq(listed, mapQueue[mapOf'[listed]])
                          \/ InHandOver(listed, mapOf[listed])'
      BY DEF NobodyForgotten
    <2>4. PICK s \in Sessions, m \in Maps : s = listed /\ mapOf'[s] = m
      BY <1>0, <2>2, <2>3
    <2>5. mapList[m] = s \/ InSeq(s, mapQueue[m]) \/ InHandOver(s, m)'
      BY <2>1, <2>3, <2>4
    <2>6. InHandOver(s, m)' => InHandOver(listed, mapOf[listed])'
      BY <2>4
    <2>7. QED
      BY <2>4, <2>5, <2>6
  <1>6. QED
    BY <1>1, <1>2, <1>3, <1>4, <1>5 DEF ListsInv

(* Nobody lists, looks at or is about to list anything else, and sessions   *)
(* are at most taken off their maps.                                        *)
LEMMA ListsKept ==
  ASSUME ListsTyped, ListsInv,
         UNCHANGED <<arrivals, listed, mapQueue, mapList, on, found, target, overtaken>>,
         dead' = dead, mapOf' \in [Sessions -> Maps \cup {NoMap}],
         \A s \in Sessions : mapOf'[s] \in {mapOf[s], NoMap},
         \A t \in Threads : at'[t] # "drop" => at[t] # "drop",
         \A t \in Threads : at[t] \in {"add1", "add2"} => at'[t] \in {"add1", "add2"}
  PROVE  ListsInv'
  <1>1. \A s : Held(s)' <=> Held(s)
    BY DEF Held
  <1>2. \A s, m : InHandOver(s, m) => InHandOver(s, m)'
    BY DEF InHandOver
  <1>3. ListsTyped' /\ \A s \in Sessions, m \in Maps : mapOf'[s] = m => mapOf[s] = m
    BY Names DEF ListsTyped
  <1>4. QED
    BY <1>1, <1>2, <1>3, ListsChange

(* Nothing but one thread changes: what the others hold stays held.         *)
LEMMA HeldByOthers ==
  ASSUME UNCHANGED <<listed, mapQueue, mapList>>, NEW t \in Threads, OnlyMoves(t)
  PROVE  /\ \A s : Held(s)' => Held(s) \/ s \in {on'[t], found'[t]}
         /\ \A s : Held(s) => Held(s)' \/ s \in {on[t], found[t]}
  BY DEF Held, OnlyMoves

LEMMA HandOversOfOthers ==
  ASSUME NEW t \in Threads, OnlyMoves(t), at[t] \notin {"add1", "add2"}
  PROVE  \A s, m : InHandOver(s, m) => InHandOver(s, m)'
  BY DEF InHandOver, OnlyMoves
-----------------------------------------------------------------------------
(* Teleports: the session is looked up ...                                  *)
LEMMA CallStep ==
  ASSUME OwnershipInv, NEW t \in Threads, NEW b \in {"idle", "enter", "handled"},
         at[t] \notin HandOverPlaces \cup {"drop"}, (b = "idle") <=> (at[t] = "idle"),
         t # World, SafeTeleport(t, b),
         UNCHANGED <<arrivals, listVars, flagVars, player, offline, run, history>>
  PROVE  OwnershipInv'
  <1>1. ListsTyped /\ FlagsTyped /\ ThreadsTyped /\ RunTyped /\ ListsInv
    BY Parts
  <1>2. PICK m \in Maps : Call(t, m, "test1", b)
    BY DEF SafeTeleport
  <1>3. UNCHANGED <<arrivals, listed, mapQueue, mapList, mapOf, updating, loggingOut, canLogout,
                    player, offline, run, dead, usurped, overtaken>>
    BY DEF listVars, flagVars, history, lateVars
  <1>4. (b = "idle") <=> (on[t] = NoSession)
    BY <1>1, Busy, Idle
  <1>5. /\ ThreadsTyped' /\ OnlyMoves(t) /\ on' = on /\ at'[t] = "test1"
        /\ found'[t] = listed /\ listed \in Sessions
    <2> DEFINE p == "test1"
    <2>1. /\ Call(t, m, p, b) /\ p \in {"test1", "login"} /\ (p = "login" => b = "called")
          /\ b \in {"idle", "enter", "handled", "called"}
      BY <1>2
    <2>2. listed \in Sessions \cup {NoSession} /\ p = "test1"
      BY <1>1 DEF ListsTyped
    <2> HIDE DEF p
    <2>3. QED
      BY <1>1, <1>4, <2>1, <2>2, CallTyped
  <1>6. found[t] = NoSession
    BY <1>1, Busy, Idle
  <1>7. \A s \in Sessions : Held(s)' <=> Held(s)
    <2>1. Held(listed)
      BY DEF Held
    <2>2. Held(on[t])' /\ Held(on[t])
      BY <1>5 DEF Held
    <2>3. QED
      BY <1>3, <1>5, <1>6, <2>1, <2>2, HeldByOthers, Names
  <1>8. \A s, m_1 : InHandOver(s, m_1) => InHandOver(s, m_1)'
    BY <1>5, HandOversOfOthers DEF HandOverPlaces
  <1>9. ListsTyped' /\ FlagsTyped' /\ RunTyped'
    BY <1>1, <1>3 DEF ListsTyped, FlagsTyped, RunTyped
  <1>10. ListsInv'
    <2>1. /\ dead \subseteq dead' /\ \A s \in Sessions, m_1 \in Maps : mapOf'[s] = m_1 => mapOf[s] = m_1
          /\ UNCHANGED <<arrivals, listed, mapQueue, mapList, overtaken>>
      BY <1>3
    <2>2. \A u \in Threads :
            at'[u] # "drop" /\ on'[u] # NoSession => on'[u] = on[u] /\ at[u] # "drop"
      BY <1>5 DEF OnlyMoves
    <2>3. QED
      BY <1>1, <1>7, <1>8, <1>9, <2>1, <2>2, ListsChange
  <1>11. QED
    BY <1>5, <1>9, <1>10, Whole

LEMMA TeleportStep ==
  ASSUME OwnershipInv, NEW t \in Threads,
         \/ t \in Maps /\ MapTeleports(t)
         \/ HandlerTeleport(t)
         \/ t \in Maps /\ SpellInQueue(t) /\ at'[t] # "enter"
  PROVE  OwnershipInv'
  <1> USE DEF HandOverPlaces
  <1>1. CASE t \in Maps /\ MapTeleports(t)
    <2> DEFINE b == "idle"
    <2>1. /\ at[t] = "idle" /\ SafeTeleport(t, b)
          /\ UNCHANGED <<arrivals, listVars, flagVars, player, offline, run, history>>
      BY <1>1 DEF MapTeleports, MapRuns, history
    <2>2. t # World /\ b \in {"idle", "enter", "handled"} /\ (b = "idle" <=> at[t] = "idle")
      BY <1>1, <2>1, Names
    <2>3. at[t] \notin HandOverPlaces \cup {"drop"}
      BY <2>1
    <2> HIDE DEF b
    <2>4. QED
      BY <2>1, <2>2, <2>3, CallStep
  <1>2. CASE HandlerTeleport(t)
    <2> DEFINE b == "handled"
    <2>1. /\ at[t] = "handler" /\ SafeTeleport(t, b) /\ t # World
          /\ UNCHANGED <<arrivals, listVars, flagVars, player, offline, run, history>>
      BY <1>2 DEF HandlerTeleport, history
    <2>2. b \in {"idle", "enter", "handled"} /\ (b = "idle" <=> at[t] = "idle")
      BY <2>1
    <2>3. at[t] \notin HandOverPlaces \cup {"drop"}
      BY <2>1
    <2> HIDE DEF b
    <2>4. QED
      BY <2>1, <2>2, <2>3, CallStep
  <1>3. CASE t \in Maps /\ SpellInQueue(t) /\ at'[t] # "enter"
    <2> DEFINE b == "enter"
    <2>1. /\ at[t] = "spell" /\ SafeTeleport(t, b) /\ t # World
          /\ UNCHANGED <<arrivals, listVars, flagVars, player, offline, run, history>>
      BY <1>3, Parts, Names DEF SpellInQueue, Goto, ThreadsTyped, history
    <2>2. b \in {"idle", "enter", "handled"} /\ (b = "idle" <=> at[t] = "idle")
      BY <2>1
    <2>3. at[t] \notin HandOverPlaces \cup {"drop"}
      BY <2>1
    <2> HIDE DEF b
    <2>4. QED
      BY <2>1, <2>2, <2>3, CallStep
  <1>4. QED
    BY <1>1, <1>2, <1>3

(* ... its flag is tested, and the hand-over may end there ...              *)
LEMMA HandOverTestStep ==
  ASSUME OwnershipInv, NEW t \in Threads, HandOverTest(t)
  PROVE  OwnershipInv'
  <1>1. ListsTyped /\ FlagsTyped /\ ThreadsTyped /\ RunTyped /\ ListsInv
    BY Parts
  <1>2. /\ at[t] \in {"test1", "test2"} /\ at[t] \in HandOverPlaces
        /\ UNCHANGED <<arrivals, listed, mapQueue, mapList, mapOf, updating, loggingOut, canLogout,
                       offline, run, usurped, overtaken>>
    BY DEF HandOverTest, HandOverPlaces, listVars, flagVars, lateVars
  <1>3. t # World /\ found[t] \in Sessions
    BY <1>1, <1>2, Calling
  <1>4. ListsTyped'
    BY <1>1, <1>2 DEF ListsTyped
  <1>5. \A s \in Sessions, m \in Maps : mapOf'[s] = m => mapOf[s] = m
    BY <1>2
  <1>6. CASE \E p \in {"map1", "map2", "test2"} : Goto(t, p) /\ UNCHANGED <<player, dead>>
    <2>1. PICK p \in {"map1", "map2", "test2"} : Goto(t, p) /\ UNCHANGED <<player, dead>>
      BY <1>6
    <2>2. p \in HandOverPlaces /\ p \notin {"drop", "add1", "add2", "login"}
      BY DEF HandOverPlaces
    <2>3. ThreadsTyped' /\ OnlyMoves(t) /\ UNCHANGED <<on, found, target>> /\ at'[t] = p
      BY <1>1, <1>2, <1>3, <2>1, <2>2, GoesOnTyped
    <2>4. /\ \A u \in Threads : at'[u] # "drop" => at[u] # "drop"
          /\ \A u \in Threads : at[u] \in {"add1", "add2"} => at'[u] \in {"add1", "add2"}
      BY <1>2, <2>3 DEF OnlyMoves
    <2>5. ListsInv'
      <3>1. mapOf' \in [Sessions -> Maps \cup {NoMap}] /\ \A s \in Sessions : mapOf'[s] \in {mapOf[s], NoMap}
        BY <1>1, <1>2 DEF ListsTyped
      <3>2. UNCHANGED <<arrivals, listed, mapQueue, mapList, on, found, target, overtaken>> /\ dead' = dead
        BY <1>2, <2>1, <2>3
      <3>3. QED
        BY <1>1, <2>4, <3>1, <3>2, ListsKept
    <2>6. FlagsTyped' /\ RunTyped'
      BY <1>1, <1>2, <2>1 DEF FlagsTyped, RunTyped
    <2>7. QED
      BY <1>4, <2>3, <2>5, <2>6, Whole
  <1>7. CASE Return(t) /\ DropFound(t)
    <2>0. PICK x \in Sessions : x = found[t]
      BY <1>3
    <2>1. /\ ThreadsTyped' /\ OnlyMoves(t) /\ on' = on /\ found'[t] = NoSession
          /\ at'[t] \in {"idle", "enter", "handled", "called"}
      BY <1>1, <1>2, <1>7, ReturnTyped
    <2>2. IF x = on[t] \/ Referenced(x, t) THEN UNCHANGED <<player, dead>>
          ELSE player' = [player EXCEPT ![x] = Gone(x)] /\ dead' = dead \cup {x}
      BY <1>7, <2>0 DEF DropFound
    <2>3. x \in Sessions /\ Held(x)
      BY <2>0 DEF Held
    <2>4. FlagsTyped' /\ RunTyped'
      <3>1. Gone(x) \in {"none", "loading", "loaded", "in"}
        BY <1>1, <2>3 DEF FlagsTyped, Gone
      <3>2. player' \in [Sessions -> {"none", "loading", "loaded", "in"}]
        BY <1>1, <2>2, <2>3, <3>1 DEF FlagsTyped
      <3>3. dead' \subseteq Sessions
        BY <1>1, <2>2, <2>3 DEF RunTyped
      <3>4. QED
        BY <1>1, <1>2, <3>2, <3>3 DEF FlagsTyped, RunTyped
    <2>5. ~InSeq(x, arrivals)
      BY <1>1, <2>3 DEF ListsInv, ArrivalsAreNew
    <2>6. x \in dead' \/ Held(x)'
      <3>1. CASE x = on[t]
        BY <2>1, <3>1 DEF Held
      <3>2. CASE Referenced(x, t)
        <4>1. \/ x = listed \/ \E m \in Maps : x = mapList[m] \/ InSeq(x, mapQueue[m])
              \/ \E u \in Threads \ {t} : x = on[u] \/ x = found[u]
          BY <2>5, <3>2 DEF Referenced
        <4>2. QED
          BY <1>2, <2>1, <4>1 DEF Held, OnlyMoves
      <3>3. QED
        BY <2>2, <3>1, <3>2
    <2>7. \A s \in Sessions : (Held(s)' => Held(s)) /\ (Held(s) => Held(s)' \/ s \in dead')
      <3>1. /\ \A s : s = on'[t] => Held(s)
            /\ \A s : s = on[t] => Held(s)'
            /\ \A s \in Sessions : s # found'[t]
            /\ \A s : s = found[t] => s = x
        BY <2>0, <2>1, Names DEF Held
      <3>2. /\ \A s : Held(s)' => Held(s) \/ s \in {on'[t], found'[t]}
            /\ \A s : Held(s) => Held(s)' \/ s \in {on[t], found[t]}
        BY <1>2, <2>1, HeldByOthers
      <3>3. QED
        BY <2>6, <3>1, <3>2
    <2>8. \A s, m : InHandOver(s, m) => InHandOver(s, m)'
      BY <1>2, <2>1, HandOversOfOthers
    <2>9. \A u \in Threads :
            at'[u] # "drop" /\ on'[u] # NoSession => on'[u] = on[u] /\ at[u] # "drop"
      BY <1>2, <2>1 DEF OnlyMoves
    <2>10. dead \subseteq dead'
      BY <2>2
    <2>11. ListsInv'
      BY <1>1, <1>2, <1>4, <1>5, <2>7, <2>8, <2>9, <2>10, ListsChange
    <2>12. QED
      BY <1>4, <2>1, <2>4, <2>11, Whole
  <1>8. QED
    BY <1>6, <1>7 DEF HandOverTest

(* ... its m_map is set ...                                                 *)
LEMMA HandOverSetsMapStep ==
  ASSUME OwnershipInv, NEW t \in Threads, HandOverSetsMap(t)
  PROVE  OwnershipInv'
  <1>1. ListsTyped /\ FlagsTyped /\ ThreadsTyped /\ RunTyped /\ ListsInv
    BY Parts
  <1>2. /\ at[t] \in {"map1", "map2"} /\ at[t] \in HandOverPlaces
        /\ UNCHANGED <<arrivals, listed, mapQueue, mapList, updating, loggingOut, canLogout,
                       player, offline, run, dead, overtaken>>
    BY DEF HandOverSetsMap, HandOverPlaces, flagVars
  <1>3. t # World /\ found[t] \in Sessions /\ target[t] \in Maps
    BY <1>1, <1>2, Calling
  <1>4. PICK p \in {"add1", "add2"} : Goto(t, p)
    BY DEF HandOverSetsMap
  <1>5. p \in HandOverPlaces /\ p # "login"
    BY DEF HandOverPlaces
  <1>6. ThreadsTyped' /\ OnlyMoves(t) /\ UNCHANGED <<on, found, target>> /\ at'[t] = p
    BY <1>1, <1>2, <1>3, <1>4, <1>5, GoesOnTyped
  <1>7. /\ mapOf' = [mapOf EXCEPT ![found[t]] = target[t]]
        /\ usurped' \in {usurped, usurped \cup {found[t]}}
    BY DEF HandOverSetsMap, SetMap
  <1>8. ListsTyped' /\ FlagsTyped' /\ RunTyped'
    BY <1>1, <1>2, <1>3, <1>7 DEF ListsTyped, FlagsTyped, RunTyped
  <1>9. ListsInv'
    <2>1. \A s : Held(s)' <=> Held(s)
      BY <1>2, <1>6 DEF Held
    <2>2. \A s, m : InHandOver(s, m) => InHandOver(s, m)'
      BY <1>2, <1>6, HandOversOfOthers
    <2>3. \A s \in Sessions, m \in Maps :
            mapOf'[s] = m => mapOf[s] = m \/ (Held(s) /\ (s = listed => InHandOver(s, m)'))
      <3>1. ASSUME NEW s \in Sessions, NEW m \in Maps, mapOf'[s] = m, mapOf[s] # m
            PROVE  Held(s) /\ InHandOver(s, m)'
        <4>1. s = found[t] /\ m = target[t]
          BY <1>1, <1>3, <1>7, <3>1 DEF ListsTyped
        <4>2. QED
          BY <1>6, <4>1 DEF Held, InHandOver
      <3>2. QED
        BY <3>1
    <2>4. \A u \in Threads :
            at'[u] # "drop" /\ on'[u] # NoSession => on'[u] = on[u] /\ at[u] # "drop"
      BY <1>2, <1>6 DEF OnlyMoves
    <2>5. dead \subseteq dead'
      BY <1>2
    <2>6. QED
      BY <1>1, <1>2, <1>8, <2>1, <2>2, <2>3, <2>4, <2>5, ListsChange
  <1>10. QED
    BY <1>6, <1>8, <1>9, Whole

(* ... and it is put into the map's queue.                                  *)
LEMMA HandOverAddsStep ==
  ASSUME OwnershipInv, NEW t \in Threads, HandOverAdds(t)
  PROVE  OwnershipInv'
  <1>1. ListsTyped /\ FlagsTyped /\ ThreadsTyped /\ RunTyped /\ ListsInv
    BY Parts
  <1>2. /\ at[t] \in {"add1", "add2"} /\ at[t] \in HandOverPlaces
        /\ UNCHANGED <<arrivals, listed, mapList, mapOf, updating, loggingOut, canLogout,
                       player, offline, run, dead, usurped>>
    BY DEF HandOverAdds, HandOverPlaces, flagVars
  <1>3. PICK x \in Sessions, m \in Maps : x = found[t] /\ m = target[t]
    BY <1>1, <1>2, Calling
  <1>4. /\ ThreadsTyped' /\ OnlyMoves(t) /\ on' = on /\ at'[t] # "drop"
        /\ found'[t] \in {x, NoSession}
    <2>1. CASE at[t] = "add1" /\ Goto(t, "test2")
      <3> DEFINE p == "test2"
      <3>1. p \in HandOverPlaces /\ t # World /\ Goto(t, p) /\ p \notin {"drop", "login"}
        BY <1>1, <1>2, <2>1, Calling DEF HandOverPlaces
      <3> HIDE DEF p
      <3>2. ThreadsTyped' /\ OnlyMoves(t) /\ UNCHANGED <<on, found, target>> /\ at'[t] = p
        BY <1>1, <1>2, <3>1, GoesOnTyped
      <3>3. QED
        BY <1>3, <3>1, <3>2
    <2>2. CASE Return(t)
      BY <1>1, <1>2, <2>2, ReturnTyped
    <2>3. QED
      BY <2>1, <2>2 DEF HandOverAdds
  <1>5. mapQueue[m] \in Seq(Sessions) /\ mapQueue \in [Maps -> Seq(Sessions)]
    BY <1>1 DEF ListsTyped
  <1>6. /\ mapQueue' \in [Maps -> Seq(Sessions)]
        /\ \A k \in Maps : mapQueue'[k] = IF k = m THEN Append(mapQueue[m], x) ELSE mapQueue[k]
    BY <1>3, <1>5 DEF HandOverAdds
  <1>7. /\ overtaken' \in SUBSET Sessions /\ overtaken \subseteq overtaken'
        /\ listed \in {NoSession, x} \/ listed \in overtaken'
    BY <1>1, <1>3 DEF HandOverAdds, RunTyped, ListsTyped
  <1>8. \A k \in Maps : \A s : InSeq(s, mapQueue'[k]) <=> InSeq(s, mapQueue[k]) \/ (k = m /\ s = x)
    <2>1. \A s : InSeq(s, Append(mapQueue[m], x)) <=> InSeq(s, mapQueue[m]) \/ s = x
      BY <1>5, InAppend
    <2>2. QED
      BY <1>6, <2>1
  <1>9. \A s \in Sessions : Held(s)' <=> Held(s)
    <2>1. ASSUME NEW s \in Sessions, Held(s) PROVE Held(s)'
      <3>1. CASE s = found[t]
        BY <1>3, <1>8, <3>1 DEF Held
      <3>2. CASE s # found[t]
        BY <1>2, <1>4, <1>8, <2>1, <3>2 DEF Held, OnlyMoves
      <3>3. QED
        BY <3>1, <3>2
    <2>2. ASSUME NEW s \in Sessions, Held(s)' PROVE Held(s)
      <3>1. CASE s = x
        BY <1>3, <3>1 DEF Held
      <3>2. CASE s # x
        <4>1. \A u \in Threads : s = found'[u] => s = found[u]
          BY <1>4, <3>2, Names DEF OnlyMoves
        <4>2. QED
          BY <1>2, <1>4, <1>8, <2>2, <3>2, <4>1 DEF Held
      <3>3. QED
        BY <3>1, <3>2
    <2>3. QED
      BY <2>1, <2>2
  <1>10. ArrivalsAreNew' /\ MappedAreHeld'
    BY <1>1, <1>2, <1>9 DEF ListsInv, ArrivalsAreNew, MappedAreHeld
  <1>11. VisitsItsOwn'
    BY <1>1, <1>2, <1>4 DEF ListsInv, VisitsItsOwn, Own, OnlyMoves
  <1>12. NewestLast'
    <2>1. SUFFICES ASSUME listed # NoSession, listed \notin overtaken' PROVE \A k \in Maps : OnlyAfter(k)'
      BY <1>2 DEF NewestLast
    <2>2. x = listed /\ \A k \in Maps : OnlyAfter(k)
      BY <1>1, <1>7, <2>1 DEF ListsInv, NewestLast
    <2> DEFINE q == mapQueue[m]
               r == Append(q, x)
               n == Len(q)
    <2>3. /\ n \in Nat /\ Len(r) = n + 1 /\ r[n + 1] = x /\ \A i \in 1..n : r[i] = q[i]
      BY <1>5
    <2>4. /\ \A i \in 1..n : mapList[m] = x => q[i] = x
          /\ \A i, j \in 1..n : i < j /\ q[i] = x => q[j] = x
      BY <2>2 DEF OnlyAfter
    <2>5. mapQueue'[m] = r
      BY <1>6
    <2> HIDE DEF q, r, n
    <2>6. \A i \in 1..Len(r) : mapList[m] = x => r[i] = x
      BY <2>3, <2>4
    <2>7. \A i, j \in 1..Len(r) : i < j /\ r[i] = x => r[j] = x
      BY <2>3, <2>4
    <2>8. OnlyAfter(m)'
      BY <1>2, <2>2, <2>5, <2>6, <2>7 DEF OnlyAfter
    <2>9. \A k \in Maps : k # m => OnlyAfter(k)'
      BY <1>2, <1>6, <2>2 DEF OnlyAfter
    <2>10. QED
      BY <2>8, <2>9
  <1>13. NobodyForgotten'
    <2>1. ASSUME NEW s \in Sessions, NEW k \in Maps,
                 mapList[k] = s \/ InSeq(s, mapQueue[k]) \/ InHandOver(s, k)
          PROVE  mapList'[k] = s \/ InSeq(s, mapQueue'[k]) \/ InHandOver(s, k)'
      <3>1. CASE mapList[k] = s \/ InSeq(s, mapQueue[k])
        BY <1>2, <1>8, <3>1
      <3>2. CASE InHandOver(s, k)
        <4>1. PICK u \in Threads : at[u] \in {"add1", "add2"} /\ found[u] = s /\ target[u] = k
          BY <3>2 DEF InHandOver
        <4>2. CASE u = t
          BY <1>3, <1>8, <4>1, <4>2
        <4>3. CASE u # t
          BY <1>4, <4>1, <4>3 DEF OnlyMoves, InHandOver
        <4>4. QED
          BY <4>2, <4>3
      <3>3. QED
        BY <2>1, <3>1, <3>2
    <2>2. SUFFICES ASSUME listed # NoSession, listed \notin overtaken, mapOf[listed] # NoMap
                   PROVE  LET k == mapOf'[listed'] IN
                            \/ mapList'[k] = listed' \/ InSeq(listed', mapQueue'[k])
                            \/ InHandOver(listed, mapOf[listed])'
      BY <1>2, <1>7 DEF NobodyForgotten
    <2>3. PICK s \in Sessions, k \in Maps : s = listed /\ k = mapOf[listed]
      BY <1>1, <2>2 DEF ListsTyped
    <2>4. mapList[k] = s \/ InSeq(s, mapQueue[k]) \/ InHandOver(s, k)
      BY <1>1, <2>2, <2>3 DEF ListsInv, NobodyForgotten
    <2>5. mapList'[k] = s \/ InSeq(s, mapQueue'[k]) \/ InHandOver(s, k)'
      BY <2>1, <2>4
    <2>6. InHandOver(s, k)' => InHandOver(listed, mapOf[listed])'
      BY <1>2, <2>3
    <2>7. QED
      BY <1>2, <2>3, <2>5, <2>6
  <1>14. ListsTyped' /\ FlagsTyped' /\ RunTyped'
    BY <1>1, <1>2, <1>6, <1>7 DEF ListsTyped, FlagsTyped, RunTyped
  <1>15. QED
    BY <1>4, <1>10, <1>11, <1>12, <1>13, <1>14, Whole DEF ListsInv

(* A character is loaded: World's session is looked up ...                  *)
LEMMA HandlePlayerLoginStep ==
  ASSUME OwnershipInv, NEW t \in Threads, HandlePlayerLogin(t)
  PROVE  OwnershipInv'
  <1>1. ListsTyped /\ FlagsTyped /\ ThreadsTyped /\ RunTyped /\ ListsInv
    BY Parts
  <1>2. /\ at[t] = "callbacks" /\ player' = [player EXCEPT ![on[t]] = "in"]
        /\ at[t] \notin HandOverPlaces \cup {"idle"}
        /\ UNCHANGED <<arrivals, listed, mapQueue, mapList, updating, loggingOut, canLogout,
                       offline, run, dead, overtaken>>
    BY DEF HandlePlayerLogin, HandOverPlaces, flagVars
  <1>3. PICK m \in Maps :
          \/ listed = NoSession /\ Goto(t, "called") /\ SetMap(t, on[t], m)
          \/ Call(t, m, "login", "called") /\ UNCHANGED <<mapOf, usurped>>
    BY DEF HandlePlayerLogin
  <1>4. /\ on[t] \in Sessions /\ on[t] # NoSession /\ Held(on[t])
        /\ found[t] = NoSession /\ back[t] \in {"tail", "erase"}
    BY <1>1, <1>2, Busy DEF Held
  <1>5. /\ mapOf' = mapOf \/ (listed = NoSession /\ mapOf' = [mapOf EXCEPT ![on[t]] = m])
        /\ usurped' \in {usurped, usurped \cup {on[t]}}
    BY <1>3 DEF SetMap
  <1>6. ListsTyped' /\ FlagsTyped' /\ RunTyped'
    BY <1>1, <1>2, <1>4, <1>5 DEF ListsTyped, FlagsTyped, RunTyped
  <1>7. /\ ThreadsTyped' /\ OnlyMoves(t) /\ on' = on /\ at'[t] # "drop"
        /\ found'[t] \in {NoSession, listed}
    <2>1. CASE listed = NoSession /\ Goto(t, "called")
      <3> DEFINE p == "called"
                 b == back[t]
      <3>1. /\ p \in Places \ (HandOverPlaces \cup {"idle"}) /\ p # "drop" /\ b \in {"tail", "erase"}
            /\ at' = [at EXCEPT ![t] = p] /\ back' = [back EXCEPT ![t] = b]
            /\ UNCHANGED <<on, found, target>>
        BY <1>1, <1>4, <2>1 DEF Goto, callVars, Places, HandOverPlaces, ThreadsTyped
      <3> HIDE DEF p, b
      <3>2. ThreadsTyped' /\ OnlyMoves(t) /\ at'[t] = p /\ on'[t] = on[t]
        BY <1>1, <1>2, <3>1, GotoTyped
      <3>3. QED
        BY <1>4, <2>1, <3>1, <3>2
    <2>2. CASE Call(t, m, "login", "called")
      <3> DEFINE p == "login"
                 b == "called"
      <3>1. /\ p \in {"test1", "login"} /\ b \in {"idle", "enter", "handled", "called"}
            /\ (b = "idle") <=> (on[t] = NoSession)
            /\ t = World => p = "login"
            /\ p = "login" => b = "called"
            /\ Call(t, m, p, b) /\ p # "drop"
        BY <1>4, <2>2
      <3>2. listed \in Sessions \cup {NoSession}
        BY <1>1 DEF ListsTyped
      <3> HIDE DEF p, b
      <3>3. /\ ThreadsTyped' /\ OnlyMoves(t) /\ on' = on /\ at'[t] = p
            /\ found'[t] = listed /\ target'[t] = m /\ listed \in Sessions
        BY <1>1, <3>1, <3>2, CallTyped
      <3>4. QED
        BY <3>1, <3>3
    <2>3. QED
      BY <1>3, <2>1, <2>2
  <1>8. ListsInv'
    <2>1. \A s \in Sessions : Held(s)' <=> Held(s)
      <3>1. /\ \A s : s = on'[t] => Held(s)
            /\ \A s : s = on[t] => Held(s)'
            /\ \A s \in Sessions : s = found'[t] => Held(s)
            /\ \A s \in Sessions : s # found[t]
        BY <1>4, <1>7, Names DEF Held
      <3>2. /\ \A s : Held(s)' => Held(s) \/ s \in {on'[t], found'[t]}
            /\ \A s : Held(s) => Held(s)' \/ s \in {on[t], found[t]}
        BY <1>2, <1>7, HeldByOthers
      <3>3. QED
        BY <3>1, <3>2
    <2>2. \A s, k : InHandOver(s, k) => InHandOver(s, k)'
      BY <1>2, <1>7, HandOversOfOthers
    <2>3. \A s \in Sessions, k \in Maps :
            mapOf'[s] = k => mapOf[s] = k \/ (Held(s) /\ (s = listed => InHandOver(s, k)'))
      <3>1. ASSUME NEW s \in Sessions, NEW k \in Maps, mapOf'[s] = k, mapOf[s] # k
            PROVE  Held(s) /\ (s = listed => InHandOver(s, k)')
        <4>1. s = on[t] /\ s # listed
          BY <1>1, <1>4, <1>5, <3>1 DEF ListsTyped
        <4>2. QED
          BY <4>1 DEF Held
      <3>2. QED
        BY <3>1
    <2>4. \A u \in Threads :
            at'[u] # "drop" /\ on'[u] # NoSession => on'[u] = on[u] /\ at[u] # "drop"
      BY <1>2, <1>7 DEF OnlyMoves
    <2>5. dead \subseteq dead'
      BY <1>2
    <2>6. QED
      BY <1>1, <1>2, <1>6, <2>1, <2>2, <2>3, <2>4, <2>5, ListsChange
  <1>9. QED
    BY <1>6, <1>7, <1>8, Whole

(* ... and this session is given a map.                                     *)
LEMMA LoginSetsMapStep ==
  ASSUME OwnershipInv, LoginFindsItself, NEW t \in Threads, LoginSetsMap(t)
  PROVE  OwnershipInv'
  <1>1. ListsTyped /\ FlagsTyped /\ ThreadsTyped /\ RunTyped /\ ListsInv
    BY Parts
  <1>2. /\ at[t] = "login" /\ at[t] \in HandOverPlaces
        /\ UNCHANGED <<arrivals, listed, mapQueue, mapList, updating, loggingOut, canLogout,
                       player, offline, run, dead, overtaken>>
    BY DEF LoginSetsMap, HandOverPlaces, flagVars
  <1>3. on[t] \in Sessions /\ target[t] \in Maps
    BY <1>1, <1>2, Calling
  <1>4. ThreadsTyped' /\ OnlyMoves(t) /\ UNCHANGED <<on, found, target>> /\ at'[t] = "add2"
    <2> DEFINE p == "add2"
    <2>1. p \in HandOverPlaces /\ Goto(t, p) /\ p = "add2" /\ p # "login"
      BY DEF LoginSetsMap, HandOverPlaces
    <2> HIDE DEF p
    <2>2. QED
      BY <1>1, <1>2, <2>1, GoesOnTyped
  <1>5. /\ mapOf' = [mapOf EXCEPT ![on[t]] = target[t]]
        /\ usurped' \in {usurped, usurped \cup {on[t]}}
    BY DEF LoginSetsMap, SetMap
  <1>6. ListsTyped' /\ FlagsTyped' /\ RunTyped'
    BY <1>1, <1>2, <1>3, <1>5 DEF ListsTyped, FlagsTyped, RunTyped
  <1>7. ListsInv'
    <2>1. \A s : Held(s)' <=> Held(s)
      BY <1>2, <1>4 DEF Held
    <2>2. \A s, m : InHandOver(s, m) => InHandOver(s, m)'
      BY <1>2, <1>4, HandOversOfOthers
    <2>3. \A s \in Sessions, m \in Maps :
            mapOf'[s] = m => mapOf[s] = m \/ (Held(s) /\ (s = listed => InHandOver(s, m)'))
      <3>1. ASSUME NEW s \in Sessions, NEW m \in Maps, mapOf'[s] = m, mapOf[s] # m
            PROVE  Held(s) /\ (s = listed => InHandOver(s, m)')
        <4>1. s = on[t] /\ m = target[t]
          BY <1>1, <1>3, <1>5, <3>1 DEF ListsTyped
        <4>2. s = listed => found[t] = s
          BY <1>2, <4>1 DEF LoginFindsItself
        <4>3. QED
          BY <1>4, <4>1, <4>2 DEF Held, InHandOver
      <3>2. QED
        BY <3>1
    <2>4. \A u \in Threads :
            at'[u] # "drop" /\ on'[u] # NoSession => on'[u] = on[u] /\ at[u] # "drop"
      BY <1>2, <1>4 DEF OnlyMoves
    <2>5. dead \subseteq dead'
      BY <1>2
    <2>6. QED
      BY <1>1, <1>2, <1>6, <2>1, <2>2, <2>3, <2>4, <2>5, ListsChange
  <1>8. QED
    BY <1>4, <1>6, <1>7, Whole
-----------------------------------------------------------------------------
(* Steps of a thread inside its visit that touch no list and no map.        *)
Local(t) ==
  /\ at[t] \notin HandOverPlaces \cup {"idle", "drop"} /\ UNCHANGED <<on, found, target>>
  /\ \E p \in Places \ (HandOverPlaces \cup {"idle"}) :
       /\ at' = [at EXCEPT ![t] = p]
       /\ p \in PastTheTest => at[t] \in PastTheTest \/ mapOf[on[t]] = MapArgument(t)
  /\ \E b \in {"tail", "erase"} : back' = [back EXCEPT ![t] = b]
  /\ UNCHANGED <<arrivals, listed, mapQueue, mapList, mapOf, run, dead, usurped, overtaken>>
  /\ FlagsTyped'

LEMMA LocalByGoto ==
  ASSUME ThreadsTyped, NEW t \in Threads, at[t] \notin HandOverPlaces \cup {"idle", "drop"},
         NEW p \in Places \ (HandOverPlaces \cup {"idle"}), Goto(t, p),
         p \in PastTheTest => at[t] \in PastTheTest \/ mapOf[on[t]] = MapArgument(t),
         UNCHANGED <<arrivals, listVars, run, history>>, FlagsTyped'
  PROVE  Local(t)
  <1>1. back[t] \in {"tail", "erase"} /\ UNCHANGED <<on, back, found, target>>
    BY Busy DEF Goto, callVars
  <1>2. back' = [back EXCEPT ![t] = back[t]]
    BY <1>1 DEF ThreadsTyped
  <1>3. UNCHANGED <<arrivals, listed, mapQueue, mapList, mapOf, run, dead, usurped, overtaken>>
    BY DEF listVars, history, lateVars
  <1>4. at' = [at EXCEPT ![t] = p]
    BY DEF Goto
  <1>5. QED
    BY <1>1, <1>2, <1>3, <1>4 DEF Local

LocalNext(t) ==
  \/ SpellInQueue(t) /\ at'[t] = "enter"
  \/ UpdateTest(t) \/ UpdateSet(t) \/ HandlePacket(t) \/ HandlerLogin(t) \/ HandlerEnds(t)
  \/ LoopEnds(t) \/ NoCallback(t) \/ HandlePlayerLoginFails(t)
  \/ UpdateLogsOut(t) \/ UpdateReturns(t) \/ LogoutTest(t) \/ LogoutSet(t) \/ LogoutEnds(t)

LEMMA LocalSteps ==
  ASSUME FlagsTyped, ThreadsTyped, NEW t \in Threads, LocalNext(t)
  PROVE  Local(t)
  <1> USE DEF PastTheTest, Places, HandOverPlaces
  <1>1. ASSUME at[t] \notin HandOverPlaces \cup {"idle"} PROVE on[t] \in Sessions
    BY <1>1, Busy
  <1>0. CASE SpellInQueue(t) /\ at'[t] = "enter"
    <2>1. /\ at[t] = "spell" /\ Goto(t, "enter")
          /\ UNCHANGED <<arrivals, listVars, flagVars, player, offline, run, history>>
      <3>1. at[t] = "spell" /\ (Goto(t, "enter") \/ SafeTeleport(t, "enter"))
            /\ UNCHANGED <<arrivals, listVars, flagVars, player, offline, run, history>>
        BY <1>0 DEF SpellInQueue
      <3>2. ~SafeTeleport(t, "enter")
        BY <1>0 DEF SafeTeleport, Call, ThreadsTyped
      <3>3. QED
        BY <3>1, <3>2
    <2>2. FlagsTyped'
      BY <2>1 DEF FlagsTyped, flagVars
    <2>3. QED
      BY <2>1, <2>2, LocalByGoto
  <1>2. CASE UpdateTest(t)
    <2>1. at[t] = "enter" /\ UNCHANGED <<arrivals, listVars, flagVars, player, offline, run, history>>
          /\ Goto(t, IF updating[on[t]] THEN "drop" ELSE "set")
      BY <1>2 DEF UpdateTest
    <2>2. FlagsTyped'
      BY <2>1 DEF FlagsTyped, flagVars
    <2>3. QED
      BY <2>1, <2>2, LocalByGoto
  <1>3. CASE UpdateSet(t)
    <2>1. /\ at[t] = "set" /\ Goto(t, "loop") /\ updating' = [updating EXCEPT ![on[t]] = TRUE]
          /\ UNCHANGED <<arrivals, listVars, loggingOut, canLogout, player, offline, run, history>>
      BY <1>3 DEF UpdateSet
    <2>2. FlagsTyped'
      BY <2>1 DEF FlagsTyped
    <2>3. QED
      BY <2>1, <2>2, LocalByGoto
  <1>4. CASE HandlePacket(t)
    <2>1. /\ at[t] = "loop" /\ mapOf[on[t]] = MapArgument(t) /\ Goto(t, "handler")
          /\ UNCHANGED <<arrivals, listVars, flagVars, player, offline, run, history>>
      BY <1>4 DEF HandlePacket
    <2>2. FlagsTyped'
      BY <2>1 DEF FlagsTyped, flagVars
    <2>3. QED
      BY <2>1, <2>2, LocalByGoto
  <1>5. CASE HandlerLogin(t)
    <2>1. /\ at[t] = "handler" /\ Goto(t, "handled")
          /\ player' = [player EXCEPT ![on[t]] = "loading"]
          /\ UNCHANGED <<arrivals, listVars, flagVars, offline, run, history>>
      BY <1>5 DEF HandlerLogin
    <2>2. FlagsTyped'
      BY <2>1 DEF FlagsTyped, flagVars
    <2>3. QED
      BY <2>1, <2>2, LocalByGoto
  <1>6. CASE HandlerEnds(t)
    <2>1. /\ at[t] \in {"handler", "handled"} /\ Goto(t, "loop")
          /\ UNCHANGED <<arrivals, listVars, flagVars, player, offline, run, history>>
      BY <1>6 DEF HandlerEnds
    <2>2. FlagsTyped'
      BY <2>1 DEF FlagsTyped, flagVars
    <2>3. QED
      BY <2>1, <2>2, LocalByGoto
  <1>7. CASE LoopEnds(t) \/ NoCallback(t)
    <2>1. /\ at[t] \in {"loop", "callbacks", "called"}
          /\ \/ /\ mapOf[on[t]] = MapArgument(t) /\ updating' = updating
                /\ Goto(t, "callbacks") \/ Goto(t, "tail")
             \/ Goto(t, "drop") /\ updating' = [updating EXCEPT ![on[t]] = FALSE]
          /\ UNCHANGED <<arrivals, listVars, loggingOut, canLogout, player, offline, run, history>>
      BY <1>7 DEF LoopEnds, NoCallback
    <2>2. FlagsTyped'
      BY <2>1 DEF FlagsTyped
    <2>3. QED
      BY <2>1, <2>2, LocalByGoto
  <1>8. CASE HandlePlayerLoginFails(t)
    <2>1. /\ at[t] = "callbacks" /\ UNCHANGED <<at, on, back, callVars>>
          /\ player' = [player EXCEPT ![on[t]] = "none"]
          /\ offline' = [offline EXCEPT ![on[t]] = "forced"]
          /\ UNCHANGED <<arrivals, listVars, flagVars, run, history>>
      BY <1>8 DEF HandlePlayerLoginFails, threadVars
    <2>2. FlagsTyped'
      BY <2>1 DEF FlagsTyped, flagVars
    <2>3. Goto(t, "callbacks")
      BY <2>1 DEF Goto, ThreadsTyped
    <2>4. QED
      BY <2>1, <2>2, <2>3, LocalByGoto
  <1>9. CASE UpdateLogsOut(t) \/ LogoutTest(t)
    <2>1. /\ at[t] \in {"tail", "failed"} /\ UNCHANGED <<on, found, target>>
          /\ \/ at' = at /\ at[t] = "tail" /\ back' = back
                /\ canLogout' = [canLogout EXCEPT ![on[t]] = FALSE]
             \/ /\ \E p \in {"logout", "erase"} : at' = [at EXCEPT ![t] = p]
                /\ \E b \in {"tail", "erase"} : back' = [back EXCEPT ![t] = b]
                /\ canLogout' = canLogout
          /\ UNCHANGED <<arrivals, listVars, updating, loggingOut, player, offline, run, history>>
      BY <1>9 DEF UpdateLogsOut, LogoutTest, flagVars, callVars
    <2>2. FlagsTyped'
      BY <2>1 DEF FlagsTyped
    <2>3. \E b \in {"tail", "erase"} : back' = [back EXCEPT ![t] = b]
      <3>1. CASE back' = back
        <4>1. back' = [back EXCEPT ![t] = back[t]] /\ back[t] \in {"tail", "erase"}
          BY <2>1, <3>1, Busy DEF ThreadsTyped
        <4>2. QED
          BY <4>1
      <3>2. QED
        BY <2>1, <3>1
    <2>4. \E p \in {"tail", "logout", "erase"} : at' = [at EXCEPT ![t] = p]
      <3>1. CASE at' = at /\ at[t] = "tail"
        BY <3>1 DEF ThreadsTyped
      <3>2. QED
        BY <2>1, <3>1
    <2>5. UNCHANGED <<arrivals, listed, mapQueue, mapList, mapOf, run, dead, usurped, overtaken>>
      BY <2>1 DEF listVars, history, lateVars
    <2>6. QED
      BY <2>1, <2>2, <2>3, <2>4, <2>5 DEF Local
  <1>10. CASE UpdateReturns(t)
    <2>1. /\ at[t] = "tail" /\ (Goto(t, "failed") \/ Goto(t, "drop"))
          /\ updating' = [updating EXCEPT ![on[t]] = FALSE]
          /\ UNCHANGED <<arrivals, listVars, loggingOut, canLogout, player, offline, run, history>>
      BY <1>10 DEF UpdateReturns
    <2>2. FlagsTyped'
      BY <2>1 DEF FlagsTyped
    <2>3. QED
      BY <2>1, <2>2, LocalByGoto
  <1>11. CASE LogoutSet(t)
    <2>1. /\ at[t] = "logout" /\ Goto(t, "body")
          /\ loggingOut' = [loggingOut EXCEPT ![on[t]] = TRUE]
          /\ UNCHANGED <<arrivals, listVars, updating, canLogout, player, offline, run, history>>
      BY <1>11 DEF LogoutSet
    <2>2. FlagsTyped'
      BY <2>1 DEF FlagsTyped
    <2>3. QED
      BY <2>1, <2>2, LocalByGoto
  <1>12. CASE LogoutEnds(t)
    <2>1. /\ at[t] = "body" /\ at' = [at EXCEPT ![t] = back[t]]
          /\ back' = [back EXCEPT ![t] = "erase"] /\ UNCHANGED <<on, found, target>>
          /\ player' = [player EXCEPT ![on[t]] = Gone(on[t])]
          /\ loggingOut' = [loggingOut EXCEPT ![on[t]] = FALSE]
          /\ canLogout' = [canLogout EXCEPT ![on[t]] = @ /\ back[t] # "tail"]
          /\ UNCHANGED <<arrivals, listVars, updating, offline, run, history>>
      BY <1>12 DEF LogoutEnds, callVars
    <2>2. back[t] \in {"tail", "erase"} /\ on[t] \in Sessions
      BY <2>1, Busy
    <2>3. Gone(on[t]) \in {"none", "loading", "loaded", "in"}
      BY <2>2 DEF FlagsTyped, Gone
    <2>4. player' \in [Sessions -> {"none", "loading", "loaded", "in"}]
      BY <2>1, <2>3 DEF FlagsTyped
    <2>5. loggingOut' \in [Sessions -> BOOLEAN]
      BY <2>1 DEF FlagsTyped
    <2>6. canLogout' \in [Sessions -> BOOLEAN]
      BY <2>1 DEF FlagsTyped
    <2>7. FlagsTyped'
      BY <2>1, <2>4, <2>5, <2>6 DEF FlagsTyped
    <2>8. UNCHANGED <<arrivals, listed, mapQueue, mapList, mapOf, run, dead, usurped, overtaken>>
      BY <2>1 DEF listVars, history, lateVars
    <2>9. QED
      BY <2>1, <2>2, <2>7, <2>8 DEF Local
  <1>13. QED
    BY <1>0, <1>2, <1>3, <1>4, <1>5, <1>6, <1>7, <1>8, <1>9, <1>10, <1>11, <1>12 DEF LocalNext

LEMMA LocalStep ==
  ASSUME OwnershipInv, NEW t \in Threads, Local(t)
  PROVE  OwnershipInv'
  <1>1. ListsTyped /\ FlagsTyped /\ ThreadsTyped /\ RunTyped /\ ListsInv
    BY Parts
  <1>2. /\ at[t] \notin HandOverPlaces \cup {"idle", "drop"}
        /\ UNCHANGED <<arrivals, listed, mapQueue, mapList, mapOf, run, dead, usurped, overtaken>>
        /\ UNCHANGED <<on, found, target>> /\ FlagsTyped'
    BY DEF Local
  <1>3. PICK p \in Places \ (HandOverPlaces \cup {"idle"}) : at' = [at EXCEPT ![t] = p]
    BY DEF Local
  <1>4. PICK b \in {"tail", "erase"} : back' = [back EXCEPT ![t] = b]
    BY DEF Local
  <1>5. ThreadsTyped' /\ OnlyMoves(t)
    BY <1>1, <1>2, <1>3, <1>4, GotoTyped
  <1>6. /\ \A u \in Threads : at'[u] # "drop" => at[u] # "drop"
        /\ \A u \in Threads : at[u] \in {"add1", "add2"} => at'[u] \in {"add1", "add2"}
    BY <1>2, <1>5 DEF OnlyMoves, HandOverPlaces
  <1>7. ListsTyped' /\ RunTyped'
    BY <1>1, <1>2 DEF ListsTyped, RunTyped
  <1>8. ListsInv'
    <2>1. mapOf' \in [Sessions -> Maps \cup {NoMap}] /\ \A s \in Sessions : mapOf'[s] \in {mapOf[s], NoMap}
      BY <1>1, <1>2 DEF ListsTyped
    <2>2. QED
      BY <1>1, <1>2, <1>6, <2>1, ListsKept
  <1>9. QED
    BY <1>2, <1>5, <1>7, <1>8, Whole
-----------------------------------------------------------------------------
(* Steps between visits that move no session: the client, the database, a   *)
(* player taken off the map, the server's stop.                             *)
LEMMA OutsideStep ==
  ASSUME OwnershipInv,
         \/ \E s \in Sessions : Disconnect(s) \/ QueryAnswered(s)
         \/ \E m \in Maps : MapRemoves(m)
         \/ KickAll \/ LastUpdateSkips \/ UnloadAll
  PROVE  OwnershipInv'
  <1>1. ListsTyped /\ FlagsTyped /\ ThreadsTyped /\ RunTyped /\ ListsInv
    BY Parts
  <1>2. UNCHANGED <<arrivals, listed, mapQueue, mapList, at, on, back, found, target, dead, usurped,
                    overtaken, updating, loggingOut>>
    BY DEF Disconnect, QueryAnswered, MapRemoves, KickAll, LastUpdateSkips, UnloadAll,
           listVars, flagVars, threadVars, callVars, history, lateVars
  <1>3. mapOf' \in [Sessions -> Maps \cup {NoMap}] /\ \A s \in Sessions : mapOf'[s] \in {mapOf[s], NoMap}
    <2>1. CASE \E s \in Sessions : Disconnect(s) \/ QueryAnswered(s)
      BY <1>1, <2>1 DEF Disconnect, QueryAnswered, listVars, ListsTyped
    <2>2. CASE (\E m \in Maps : MapRemoves(m)) \/ LastUpdateSkips
      BY <1>1, <2>2 DEF MapRemoves, LastUpdateSkips, listVars, ListsTyped
    <2>3. CASE KickAll
      BY <1>1, <2>3 DEF KickAll, ListsTyped
    <2>4. CASE UnloadAll
      BY <1>1, <2>4 DEF UnloadAll, ListsTyped
    <2>5. QED
      BY <2>1, <2>2, <2>3, <2>4
  <1>4. FlagsTyped'
    <2>1. CASE \E s \in Sessions : Disconnect(s)
      BY <1>1, <2>1 DEF Disconnect, flagVars, FlagsTyped
    <2>2. CASE \E s \in Sessions : QueryAnswered(s)
      BY <1>1, <2>2 DEF QueryAnswered, flagVars, FlagsTyped
    <2>3. CASE \E m \in Maps : MapRemoves(m)
      BY <1>1, <2>3 DEF MapRemoves, FlagsTyped
    <2>4. CASE KickAll
      <3>1. offline' \in [Sessions -> {"open", "closed", "forced"}]
        BY <1>1, <2>4 DEF KickAll, FlagsTyped
      <3>2. UNCHANGED <<updating, loggingOut, canLogout, player>>
        BY <2>4 DEF KickAll, flagVars
      <3>3. QED
        BY <1>1, <3>1, <3>2 DEF FlagsTyped
    <2>5. CASE LastUpdateSkips
      BY <1>1, <2>5 DEF LastUpdateSkips, flagVars, FlagsTyped
    <2>6. CASE UnloadAll
      <3>1. \A s \in Sessions : Gone(s) \in {"none", "loading", "loaded", "in"}
        BY <1>1 DEF FlagsTyped, Gone
      <3>2. player' \in [Sessions -> {"none", "loading", "loaded", "in"}]
        BY <1>1, <2>6, <3>1 DEF UnloadAll, FlagsTyped
      <3>3. UNCHANGED <<updating, loggingOut, canLogout, offline>>
        BY <2>6 DEF UnloadAll, flagVars
      <3>4. QED
        BY <1>1, <3>2, <3>3 DEF FlagsTyped
    <2>7. QED
      BY <2>1, <2>2, <2>3, <2>4, <2>5, <2>6
  <1>5. RunTyped'
    <2>1. run' \in {run, "kicked", "stopped", "unloaded"}
      BY DEF Disconnect, QueryAnswered, MapRemoves, KickAll, LastUpdateSkips, UnloadAll
    <2>2. QED
      BY <1>1, <1>2, <2>1 DEF RunTyped
  <1>6. ListsInv'
    BY <1>1, <1>2, <1>3, ListsKept
  <1>7. ListsTyped' /\ ThreadsTyped'
    BY <1>1, <1>2, <1>3 DEF ListsTyped, ThreadsTyped, LocalsOK
  <1>8. QED
    BY <1>4, <1>5, <1>6, <1>7, Whole

LEMMA ArriveStep ==
  ASSUME OwnershipInv, NEW s \in Sessions, Arrive(s)
  PROVE  OwnershipInv'
  <1>1. ListsTyped /\ FlagsTyped /\ ThreadsTyped /\ RunTyped /\ ListsInv
    BY Parts
  <1>2. /\ s \notin dead /\ ~Referenced(s, NoMap) /\ arrivals' = <<s>>
        /\ UNCHANGED <<listed, mapQueue, mapList, mapOf, at, on, back, found, target, run, dead, usurped,
                       overtaken>>
        /\ UNCHANGED <<updating, loggingOut, canLogout, player, offline>>
    BY DEF Arrive, listVars, flagVars, threadVars, callVars, history, lateVars
  <1>3. ~Held(s)
    BY <1>2, Names DEF Referenced, Held
  <1>4. mapOf[s] = NoMap
    BY <1>1, <1>2, <1>3 DEF ListsInv, MappedAreHeld
  <1>5. \A r : Held(r)' <=> Held(r)
    BY <1>2 DEF Held
  <1>6. ArrivalsAreNew'
    <2>1. \A r \in Sessions : InSeq(r, <<s>>) => r = s
      BY DEF InSeq
    <2>2. Len(<<s>>) <= 1
      OBVIOUS
    <2>3. QED
      BY <1>2, <1>3, <1>4, <1>5, <2>1, <2>2 DEF ArrivalsAreNew
  <1>7. MappedAreHeld'
    BY <1>1, <1>2, <1>5 DEF ListsInv, MappedAreHeld
  <1>8. VisitsItsOwn' /\ NewestLast' /\ NobodyForgotten'
    BY <1>1, <1>2 DEF ListsInv, VisitsItsOwn, Own, NewestLast, OnlyAfter, NobodyForgotten, InHandOver
  <1>9. ListsTyped'
    BY <1>1, <1>2 DEF ListsTyped
  <1>10. FlagsTyped' /\ ThreadsTyped' /\ RunTyped'
    BY <1>1, <1>2 DEF FlagsTyped, ThreadsTyped, LocalsOK, RunTyped
  <1>11. ListsInv'
    BY <1>6, <1>7, <1>8 DEF ListsInv
  <1>12. QED
    BY <1>9, <1>10, <1>11, Whole
-----------------------------------------------------------------------------
(* A visit begins.                                                          *)
LEMMA VisitStep ==
  ASSUME OwnershipInv, NEW t \in Threads, at[t] = "idle", Own(t) # NoSession,
         NEW p \in {"enter", "spell"}, Take(t, Own(t), p), run' \in {run, "stopped"},
         UNCHANGED <<arrivals, listVars, flagVars, player, offline, history>>
  PROVE  OwnershipInv'
  <1>1. ListsTyped /\ FlagsTyped /\ ThreadsTyped /\ RunTyped /\ ListsInv
    BY Parts
  <1>2. UNCHANGED <<arrivals, listed, mapQueue, mapList, mapOf, updating, loggingOut, canLogout,
                    player, offline, dead, usurped, overtaken>>
    BY DEF listVars, flagVars, history, lateVars
  <1>3. PICK s \in Sessions : s = Own(t)
    BY <1>1, Names DEF ListsTyped, Own
  <1>4. p \in Places \ HandOverPlaces /\ p \notin {"idle", "drop"}
    BY DEF Places, HandOverPlaces
  <1>5. on[t] = NoSession /\ found[t] = NoSession /\ at[t] \notin HandOverPlaces
    BY <1>1, Idle
  <1>6. ThreadsTyped' /\ OnlyMoves(t) /\ at'[t] = p /\ on'[t] = s /\ found' = found
    BY <1>1, <1>3, <1>4, <1>5, TakeTyped, Names
  <1>7. Held(s)
    BY <1>3, Names DEF Held, Own
  <1>8. \A r \in Sessions : Held(r)' <=> Held(r)
    <2>1. \A r \in Sessions : r # found'[t] /\ r # on[t] /\ r # found[t]
      BY <1>5, <1>6, Names
    <2>2. QED
      BY <1>2, <1>6, <1>7, <2>1, HeldByOthers
  <1>9. \A r, m : InHandOver(r, m) => InHandOver(r, m)'
    BY <1>6, HandOversOfOthers
  <1>10. ListsTyped' /\ FlagsTyped' /\ RunTyped'
    BY <1>1, <1>2 DEF ListsTyped, FlagsTyped, RunTyped
  <1>11. ListsInv'
    <2>1. \A r \in Sessions, m \in Maps : mapOf'[r] = m => mapOf[r] = m
      BY <1>2
    <2>2. \A u \in Threads :
            at'[u] # "drop" /\ on'[u] # NoSession =>
              (on'[u] = on[u] /\ at[u] # "drop") \/ on'[u] = Own(u)
      BY <1>3, <1>6 DEF OnlyMoves
    <2>3. dead \subseteq dead'
      BY <1>2
    <2>4. QED
      BY <1>1, <1>2, <1>8, <1>9, <1>10, <2>1, <2>2, <2>3, ListsChange
  <1>12. QED
    BY <1>6, <1>10, <1>11, Whole

LEMMA VisitsStep ==
  ASSUME OwnershipInv, WorldVisits \/ \E m \in Maps : MapVisits(m)
  PROVE  OwnershipInv'
  <1>1. CASE WorldVisits
    <2> DEFINE p == "enter"
    <2>1. /\ at[World] = "idle" /\ Own(World) # NoSession /\ Take(World, Own(World), p)
          /\ run' \in {run, "stopped"} /\ p \in {"enter", "spell"} /\ World \in Threads
          /\ UNCHANGED <<arrivals, listVars, flagVars, player, offline, history>>
      BY <1>1, Names DEF WorldVisits, Own
    <2> HIDE DEF p
    <2>2. QED
      BY <2>1, VisitStep
  <1>2. ASSUME NEW m \in Maps, MapVisits(m) PROVE OwnershipInv'
    <2> DEFINE p == "spell"
    <2>1. /\ at[m] = "idle" /\ Own(m) # NoSession /\ Take(m, Own(m), p)
          /\ run' \in {run, "stopped"} /\ p \in {"enter", "spell"} /\ m \in Threads
          /\ UNCHANGED <<arrivals, listVars, flagVars, player, offline, history>>
      BY <1>2, Names DEF MapVisits, MapRuns, Own
    <2> HIDE DEF p
    <2>2. QED
      BY <2>1, VisitStep
  <1>3. QED
    BY <1>1, <1>2

(* The world thread's list.                                                 *)
LEMMA WorldAddsStep ==
  ASSUME OwnershipInv, WorldAdds
  PROVE  OwnershipInv'
  <1>1. ListsTyped /\ FlagsTyped /\ ThreadsTyped /\ RunTyped /\ ListsInv
    BY Parts
  <1> DEFINE s == Head(arrivals)
  <1>2. /\ at[World] = "idle" /\ arrivals # <<>> /\ arrivals' = Tail(arrivals) /\ listed' = s
        /\ UNCHANGED <<mapQueue, mapList, run, dead, usurped, overtaken, updating, loggingOut,
                       canLogout, player>>
    <2>1. UNCHANGED <<mapQueue, mapList, flagVars, player, run, history>>
      BY DEF WorldAdds
    <2>2. at[World] = "idle" /\ arrivals # <<>> /\ arrivals' = Tail(arrivals) /\ listed' = s
      BY DEF WorldAdds
    <2>3. QED
      BY <2>1, <2>2 DEF flagVars, history, lateVars
  <1>3. arrivals \in Seq(Sessions) /\ Len(arrivals) <= 1
    BY <1>1 DEF ListsTyped, ListsInv, ArrivalsAreNew
  <1>4. s \in Sessions /\ InSeq(s, arrivals) /\ arrivals' \in Seq(Sessions) /\ Len(arrivals') = 0
    <2>1. arrivals # <<>> /\ arrivals' = Tail(arrivals)
      BY <1>2
    <2>2. s \in Sessions /\ InSeq(s, arrivals)
      BY <1>3, <2>1 DEF InSeq
    <2>3. arrivals' \in Seq(Sessions) /\ Len(arrivals') = 0
      <3>1. ASSUME NEW q \in Seq(Sessions), q # <<>>, Len(q) <= 1
            PROVE  Tail(q) \in Seq(Sessions) /\ Len(Tail(q)) = 0
        <4>1. Len(q) \in Nat /\ Len(q) >= 1 /\ Len(Tail(q)) = Len(q) - 1
          BY <3>1
        <4>2. QED
          BY <3>1, <4>1
      <3>2. QED
        BY <1>3, <2>1, <3>1
    <2>4. QED
      BY <2>2, <2>3
  <1>5. ~Held(s) /\ mapOf[s] = NoMap
    BY <1>1, <1>4 DEF ListsInv, ArrivalsAreNew
  <1> HIDE DEF s
  <1>6. ArrivalsAreNew'
    BY <1>4 DEF ArrivalsAreNew, InSeq
  <1>7. NewestLast'
    <2>1. \A m \in Maps : mapList[m] # s /\ ~InSeq(s, mapQueue[m])
      BY <1>5 DEF Held
    <2>2. QED
      BY <1>2, <2>1 DEF NewestLast, OnlyAfter, InSeq
  <1>8. World \in Threads /\ World \notin Maps
    BY Names
  <1>9. on[World] = NoSession /\ found[World] = NoSession /\ at[World] \notin HandOverPlaces
    BY <1>1, <1>2, <1>8, Idle
  <1>10. CASE listed = NoSession
    <2>1. UNCHANGED <<mapOf, offline, at, on, back, found, target>>
      BY <1>10 DEF WorldAdds, threadVars, callVars
    <2>2. \A r \in Sessions : Held(r) => Held(r)'
      BY <1>2, <1>10, <2>1, Names DEF Held
    <2>3. MappedAreHeld'
      BY <1>1, <1>2, <2>1, <2>2 DEF ListsInv, MappedAreHeld
    <2>4. VisitsItsOwn'
      BY <1>1, <1>2, <1>9, <2>1 DEF ListsInv, VisitsItsOwn, Own
    <2>5. NobodyForgotten'
      BY <1>2, <1>5, <2>1 DEF NobodyForgotten
    <2>6. ListsTyped' /\ FlagsTyped' /\ ThreadsTyped' /\ RunTyped'
      BY <1>1, <1>2, <1>4, <2>1 DEF ListsTyped, FlagsTyped, ThreadsTyped, LocalsOK, RunTyped
    <2>7. QED
      BY <1>6, <1>7, <2>3, <2>4, <2>5, <2>6, Whole DEF ListsInv
  <1>11. CASE listed # NoSession
    <2>1. /\ mapOf' = [mapOf EXCEPT ![listed] = NoMap]
          /\ offline' = [offline EXCEPT ![listed] = "forced"]
          /\ Take(World, listed, "drop")
      BY <1>11 DEF WorldAdds
    <2>2. listed \in Sessions
      BY <1>1, <1>11 DEF ListsTyped
    <2>3. ThreadsTyped' /\ OnlyMoves(World) /\ at'[World] = "drop" /\ on'[World] = listed
      <3> DEFINE p == "drop"
      <3>1. p \in Places \ HandOverPlaces /\ (p = "idle" <=> listed = NoSession)
            /\ Take(World, listed, p) /\ p = "drop"
        BY <1>11, <2>1 DEF Places, HandOverPlaces
      <3> HIDE DEF p
      <3>2. QED
        BY <1>1, <1>8, <1>9, <2>2, <3>1, TakeTyped
    <2>4. /\ mapOf' \in [Sessions -> Maps \cup {NoMap}]
          /\ \A r \in Sessions : mapOf'[r] = IF r = listed THEN NoMap ELSE mapOf[r]
      BY <1>1, <2>1 DEF ListsTyped
    <2>5. \A r \in Sessions : Held(r) => Held(r)'
      BY <1>2, <1>8, <1>9, <2>3, Names DEF Held, OnlyMoves
    <2>6. MappedAreHeld'
      BY <1>1, <1>2, <2>4, <2>5 DEF ListsInv, MappedAreHeld
    <2>7. VisitsItsOwn'
      BY <1>1, <1>2, <1>8, <2>3 DEF ListsInv, VisitsItsOwn, Own, OnlyMoves
    <2>8. NobodyForgotten'
      BY <1>2, <1>4, <1>5, <2>4 DEF NobodyForgotten
    <2>9. FlagsTyped'
      BY <1>1, <1>2, <2>1 DEF FlagsTyped
    <2>10. ListsTyped' /\ RunTyped'
      BY <1>1, <1>2, <1>4, <2>4 DEF ListsTyped, RunTyped
    <2>11. QED
      BY <1>6, <1>7, <2>3, <2>6, <2>7, <2>8, <2>9, <2>10, Whole DEF ListsInv
  <1>12. QED
    BY <1>10, <1>11

LEMMA WorldErasesStep ==
  ASSUME OwnershipInv, WorldErases
  PROVE  OwnershipInv'
  <1>1. ListsTyped /\ FlagsTyped /\ ThreadsTyped /\ RunTyped /\ ListsInv
    BY Parts
  <1>2. /\ at[World] = "erase" /\ listed' = NoSession
        /\ at' = [at EXCEPT ![World] = "drop"] /\ UNCHANGED <<on, back, found, target>>
        /\ UNCHANGED <<arrivals, mapQueue, mapList, mapOf, run, dead, usurped, overtaken>>
        /\ UNCHANGED <<updating, loggingOut, canLogout, player, offline>>
    BY DEF WorldErases, flagVars, Goto, callVars, history, lateVars
  <1>3. World \in Threads /\ at[World] \notin HandOverPlaces \cup {"idle"}
    BY <1>2, Names DEF HandOverPlaces
  <1>4. ThreadsTyped' /\ OnlyMoves(World) /\ at'[World] = "drop"
    <2> DEFINE p == "drop"
               b == back[World]
    <2>1. p \in Places \ (HandOverPlaces \cup {"idle"}) /\ b \in {"tail", "erase"}
      BY <1>1, <1>3, Busy DEF Places, HandOverPlaces
    <2>2. at' = [at EXCEPT ![World] = p] /\ back' = [back EXCEPT ![World] = b] /\ p = "drop"
      BY <1>1, <1>2 DEF ThreadsTyped
    <2> HIDE DEF p, b
    <2>3. QED
      BY <1>1, <1>2, <1>3, <2>1, <2>2, GotoTyped
  <1>5. on[World] = listed
    BY <1>1, <1>2, <1>3, Busy DEF ListsInv, VisitsItsOwn, Own
  <1>6. \A r \in Sessions : Held(r)' <=> Held(r)
    BY <1>2, <1>3, <1>5, Names DEF Held
  <1>7. ArrivalsAreNew' /\ MappedAreHeld'
    BY <1>1, <1>2, <1>6 DEF ListsInv, ArrivalsAreNew, MappedAreHeld
  <1>8. VisitsItsOwn'
    BY <1>1, <1>2, <1>4, Names DEF ListsInv, VisitsItsOwn, Own, OnlyMoves
  <1>9. NewestLast' /\ NobodyForgotten'
    BY <1>2 DEF NewestLast, NobodyForgotten
  <1>10. ListsTyped' /\ FlagsTyped' /\ RunTyped'
    BY <1>1, <1>2 DEF ListsTyped, FlagsTyped, RunTyped
  <1>11. QED
    BY <1>4, <1>7, <1>8, <1>9, <1>10, Whole DEF ListsInv
-----------------------------------------------------------------------------
LEMMA ForgottenKept ==
  ASSUME ListsTyped, NobodyForgotten, UNCHANGED <<listed, overtaken>>,
         mapOf' \in [Sessions -> Maps \cup {NoMap}],
         \A s \in Sessions : mapOf'[s] \in {mapOf[s], NoMap},
         \A s \in Sessions, k \in Maps :
           /\ s = listed /\ s \notin overtaken /\ mapOf'[s] = k
           /\ mapList[k] = s \/ InSeq(s, mapQueue[k]) \/ InHandOver(s, k)
           => mapList'[k] = s \/ InSeq(s, mapQueue'[k]) \/ InHandOver(s, k)'
  PROVE  NobodyForgotten'
  <1>1. SUFFICES ASSUME listed # NoSession, listed \notin overtaken, mapOf'[listed] # NoMap
                 PROVE  \/ mapList'[mapOf'[listed]] = listed
                        \/ InSeq(listed, mapQueue'[mapOf'[listed]])
                        \/ InHandOver(listed, mapOf[listed])'
    BY DEF NobodyForgotten
  <1>2. PICK s \in Sessions, k \in Maps : s = listed /\ mapOf'[s] = k
    BY <1>1 DEF ListsTyped
  <1>3. mapOf[listed] = k
    BY <1>2, Names
  <1>4. mapList[k] = s \/ InSeq(s, mapQueue[k]) \/ InHandOver(s, k)
    BY <1>1, <1>2, <1>3, Names DEF NobodyForgotten
  <1>5. mapList'[k] = s \/ InSeq(s, mapQueue'[k]) \/ InHandOver(s, k)'
    BY <1>1, <1>2, <1>4
  <1>6. InHandOver(s, k)' => InHandOver(listed, mapOf[listed])'
    BY <1>2
  <1>7. QED
    BY <1>2, <1>5, <1>6

(* A map's list.                                                            *)
LEMMA MapAddsStep ==
  ASSUME OwnershipInv, NEW m \in Maps, MapAdds(m)
  PROVE  OwnershipInv'
  <1>1. ListsTyped /\ FlagsTyped /\ ThreadsTyped /\ RunTyped /\ ListsInv
    BY Parts
  <1> DEFINE q == mapQueue[m]
             s == Head(q)
             old == mapList[m]
  <1>2. /\ at[m] = "idle" /\ q # <<>>
        /\ mapQueue' = [mapQueue EXCEPT ![m] = Tail(@)]
        /\ mapList' = [mapList EXCEPT ![m] = s]
        /\ UNCHANGED <<arrivals, listed, mapOf, run, dead, usurped, overtaken>>
        /\ UNCHANGED <<updating, loggingOut, canLogout, player, offline>>
        /\ IF old \in {NoSession, s} THEN UNCHANGED <<at, on, back, found, target>>
                                     ELSE Take(m, old, "drop")
    BY DEF MapAdds, MapRuns, flagVars, threadVars, callVars, history, lateVars
  <1>3. /\ m \in Threads /\ m # World /\ on[m] = NoSession /\ found[m] = NoSession
        /\ old \in Sessions \cup {NoSession} /\ at[m] \notin HandOverPlaces
    BY <1>1, <1>2, Names, Idle DEF ListsTyped
  <1>4. q \in Seq(Sessions)
    BY <1>1 DEF ListsTyped
  <1>5. /\ s \in Sessions /\ mapQueue' \in [Maps -> Seq(Sessions)]
        /\ mapList' \in [Maps -> Sessions \cup {NoSession}]
        /\ \A k \in Maps : mapQueue'[k] = IF k = m THEN Tail(q) ELSE mapQueue[k]
        /\ \A k \in Maps : mapList'[k] = IF k = m THEN s ELSE mapList[k]
    BY <1>1, <1>2, <1>4 DEF ListsTyped
  <1>6. \A r : InSeq(r, q) <=> InSeq(r, Tail(q)) \/ r = s
    BY <1>2, <1>4, InTail
  <1>7. /\ ThreadsTyped' /\ OnlyMoves(m) /\ found' = found
        /\ at'[m] \in {"idle", "drop"} /\ (old \in {NoSession, s} \/ on'[m] = old)
        /\ on'[m] \in {NoSession, old} /\ (at'[m] = "drop" \/ on'[m] = NoSession)
    <2>1. CASE old \in {NoSession, s}
      BY <1>1, <1>2, <1>3, <2>1 DEF ThreadsTyped, LocalsOK, OnlyMoves
    <2>2. CASE old \notin {NoSession, s}
      <3> DEFINE p == "drop"
      <3>1. p \in Places \ HandOverPlaces /\ (p = "idle" <=> old = NoSession)
            /\ Take(m, old, p) /\ p = "drop"
        BY <1>2, <2>2 DEF Places, HandOverPlaces
      <3> HIDE DEF p, old
      <3>2. ThreadsTyped' /\ OnlyMoves(m) /\ at'[m] = p /\ on'[m] = old /\ found' = found
        BY <1>1, <1>3, <3>1, TakeTyped
      <3>3. QED
        BY <3>1, <3>2
    <2>3. QED
      BY <2>1, <2>2
  <1>8. ListsTyped' /\ FlagsTyped' /\ RunTyped'
    BY <1>1, <1>2, <1>5 DEF ListsTyped, FlagsTyped, RunTyped
  <1> HIDE DEF s, q, old
  <1>9. \A r \in Sessions : Held(r)' <=> Held(r)
    <2>1. ASSUME NEW r \in Sessions, Held(r) PROVE Held(r)'
      <3>1. CASE \E k \in Maps : r = mapList[k]
        BY <1>2, <1>3, <1>5, <1>6, <1>7, <3>1, Names DEF Held, old
      <3>2. CASE \E k \in Maps : InSeq(r, mapQueue[k])
        BY <1>5, <1>6, <3>2 DEF Held, q
      <3>3. CASE \E t \in Threads : r = on[t] \/ r = found[t]
        BY <1>3, <1>7, <3>3, Names DEF Held, OnlyMoves
      <3>4. CASE r = listed
        BY <1>2, <3>4 DEF Held
      <3>5. QED
        BY <2>1, <3>1, <3>2, <3>3, <3>4 DEF Held
    <2>2. ASSUME NEW r \in Sessions, Held(r)' PROVE Held(r)
      <3>1. CASE \E k \in Maps : r = mapList'[k]
        BY <1>5, <1>6, <3>1 DEF Held, q
      <3>2. CASE \E k \in Maps : InSeq(r, mapQueue'[k])
        BY <1>5, <1>6, <3>2 DEF Held, q
      <3>3. CASE \E t \in Threads : r = on'[t] \/ r = found'[t]
        BY <1>7, <3>3, Names DEF Held, old, OnlyMoves
      <3>4. CASE r = listed'
        BY <1>2, <3>4 DEF Held
      <3>5. QED
        BY <2>2, <3>1, <3>2, <3>3, <3>4 DEF Held
    <2>3. QED
      BY <2>1, <2>2
  <1>10. ArrivalsAreNew' /\ MappedAreHeld'
    BY <1>1, <1>2, <1>9 DEF ListsInv, ArrivalsAreNew, MappedAreHeld
  <1>11. VisitsItsOwn'
    BY <1>1, <1>2, <1>5, <1>7, Names DEF ListsInv, VisitsItsOwn, Own, OnlyMoves
  <1>12. (listed # NoSession /\ listed \notin overtaken) =>
           /\ \A i \in 1..Len(q) : old = listed => q[i] = listed
           /\ \A i, j \in 1..Len(q) : i < j /\ q[i] = listed => q[j] = listed
    BY <1>1 DEF ListsInv, NewestLast, OnlyAfter, q, old
  <1>13. NewestLast'
    <2>1. SUFFICES ASSUME listed # NoSession, listed \notin overtaken PROVE \A k \in Maps : OnlyAfter(k)'
      BY <1>2 DEF NewestLast
    <2> DEFINE r == Tail(q)
    <2>2. /\ Len(q) \in Nat /\ Len(q) >= 1 /\ Len(r) = Len(q) - 1 /\ s = q[1]
          /\ \A i \in 1..Len(r) : r[i] = q[i + 1] /\ i + 1 \in 1..Len(q) /\ 1 < i + 1
      BY <1>2, <1>4 DEF s
    <2> HIDE DEF r
    <2>3. \A i \in 1..Len(r) : s = listed => r[i] = listed
      <3>1. 1 \in 1..Len(q)
        BY <2>2
      <3>2. \A j \in 1..Len(q) : 1 < j /\ s = listed => q[j] = listed
        BY <1>12, <2>1, <2>2, <3>1
      <3>3. QED
        BY <2>2, <3>2
    <2>4. \A i, j \in 1..Len(r) : i < j /\ r[i] = listed => r[j] = listed
      BY <1>12, <2>1, <2>2
    <2>5. OnlyAfter(m)'
      <3>1. mapQueue'[m] = r /\ mapList'[m] = s /\ listed' = listed
        BY <1>2, <1>5 DEF r
      <3>2. QED
        BY <2>3, <2>4, <3>1 DEF OnlyAfter
    <2>6. \A k \in Maps : k # m => OnlyAfter(k)'
      BY <1>1, <1>2, <1>5, <2>1 DEF ListsInv, NewestLast, OnlyAfter
    <2>7. QED
      BY <2>5, <2>6
  <1>14. NobodyForgotten'
    <2>1. ASSUME NEW r \in Sessions, NEW k \in Maps, r = listed, r \notin overtaken,
                 mapList[k] = r \/ InSeq(r, mapQueue[k]) \/ InHandOver(r, k)
          PROVE  mapList'[k] = r \/ InSeq(r, mapQueue'[k]) \/ InHandOver(r, k)'
      <3>1. CASE InHandOver(r, k)
        BY <1>2, <1>7, <3>1, HandOversOfOthers, <1>3
      <3>2. CASE k # m
        BY <1>5, <2>1, <3>1, <3>2
      <3>3. CASE k = m /\ InSeq(r, q)
        BY <1>5, <1>6, <3>3
      <3>4. CASE k = m /\ old = r
        <4>1. 1 \in 1..Len(q) /\ s = q[1]
          BY <1>2, <1>4 DEF s
        <4>2. r # NoSession
          BY Names
        <4>3. s = r
          BY <1>12, <2>1, <3>4, <4>1, <4>2
        <4>4. QED
          BY <1>5, <3>4, <4>3
      <3>5. QED
        BY <2>1, <3>1, <3>2, <3>3, <3>4 DEF q, old
    <2>2. NobodyForgotten /\ mapOf' \in [Sessions -> Maps \cup {NoMap}]
          /\ \A r \in Sessions : mapOf'[r] \in {mapOf[r], NoMap}
      BY <1>1, <1>2 DEF ListsInv, ListsTyped
    <2>3. QED
      BY <1>1, <1>2, <2>1, <2>2, ForgottenKept
  <1>15. ListsInv'
    BY <1>10, <1>11, <1>13, <1>14 DEF ListsInv
  <1>16. QED
    BY <1>7, <1>8, <1>15, Whole

(* A map gives up the session it lists: because it went elsewhere, or after *)
(* its logout.                                                              *)
LEMMA MapForgetsStep ==
  ASSUME OwnershipInv, NEW m \in Maps, MapForgets(m) \/ MapErases(m)
  PROVE  OwnershipInv'
  <1>1. ListsTyped /\ FlagsTyped /\ ThreadsTyped /\ RunTyped /\ ListsInv
    BY Parts
  <1> DEFINE s == mapList[m]
  <1>2. m \in Threads /\ m # World
    BY Names
  <1>3. /\ mapList' = [mapList EXCEPT ![m] = NoSession]
        /\ UNCHANGED <<arrivals, listed, mapQueue, run, dead, usurped, overtaken>>
        /\ UNCHANGED <<updating, loggingOut, canLogout, player, offline>>
        /\ at[m] \in {"idle", "erase"}
    BY DEF MapForgets, MapErases, MapRuns, flagVars, history, lateVars
  <1>4. /\ ThreadsTyped' /\ s # NoSession /\ on'[m] = s /\ OnlyMoves(m) /\ found' = found
        /\ at'[m] = "drop" /\ on[m] \in {NoSession, s}
    <2>1. CASE MapForgets(m)
      <3> DEFINE p == "drop"
      <3>1. at[m] = "idle" /\ s # NoSession /\ Take(m, s, p)
        BY <2>1 DEF MapForgets, MapRuns
      <3>2. s \in Sessions /\ on[m] = NoSession /\ at[m] \notin HandOverPlaces
        BY <1>1, <1>2, <3>1, Idle DEF ListsTyped
      <3>3. p \in Places \ HandOverPlaces /\ (p = "idle" <=> s = NoSession) /\ p = "drop"
        BY <3>1 DEF Places, HandOverPlaces
      <3> HIDE DEF p, s
      <3>4. QED
        BY <1>1, <1>2, <3>1, <3>2, <3>3, TakeTyped
    <2>2. CASE MapErases(m)
      <3> DEFINE p == "drop"
                 b == back[m]
      <3>1. at[m] = "erase" /\ at' = [at EXCEPT ![m] = p] /\ UNCHANGED <<on, back, found, target>>
        BY <2>2 DEF MapErases, Goto, callVars
      <3>2. at[m] \notin HandOverPlaces \cup {"idle"}
        BY <3>1 DEF HandOverPlaces
      <3>3. on[m] = s /\ on[m] # NoSession /\ b \in {"tail", "erase"}
        BY <1>1, <1>2, <3>1, <3>2, Busy DEF ListsInv, VisitsItsOwn, Own
      <3>4. p \in Places \ (HandOverPlaces \cup {"idle"}) /\ p = "drop"
            /\ back' = [back EXCEPT ![m] = b]
        BY <1>1, <3>1 DEF Places, HandOverPlaces, ThreadsTyped
      <3> HIDE DEF p, b
      <3>5. ThreadsTyped' /\ OnlyMoves(m) /\ at'[m] = p /\ on'[m] = on[m]
        BY <1>1, <1>2, <3>1, <3>2, <3>3, <3>4, GotoTyped
      <3>6. QED
        BY <3>1, <3>3, <3>4, <3>5
    <2>3. QED
      BY <2>1, <2>2
  <1>5. s \in Sessions
    BY <1>1, <1>4 DEF ListsTyped
  <1>6. /\ mapOf' \in [Sessions -> Maps \cup {NoMap}]
        /\ \A r \in Sessions : mapOf'[r] \in {mapOf[r], NoMap}
        /\ mapOf'[s] # m
    <2>1. CASE MapForgets(m)
      BY <1>1, <2>1 DEF MapForgets, ListsTyped
    <2>2. CASE MapErases(m)
      <3>1. on[m] = s
        <4>1. at[m] = "erase"
          BY <2>2 DEF MapErases
        <4>2. on[m] # NoSession
          BY <1>1, <1>2, <4>1, Busy DEF HandOverPlaces
        <4>3. QED
          BY <1>1, <1>2, <4>1, <4>2 DEF ListsInv, VisitsItsOwn, Own
      <3>2. mapOf' = [mapOf EXCEPT ![s] = NoMap]
        BY <2>2, <3>1 DEF MapErases
      <3>3. QED
        BY <1>1, <1>5, <3>2, Names DEF ListsTyped
    <2>3. QED
      BY <2>1, <2>2
  <1>7. /\ mapList' \in [Maps -> Sessions \cup {NoSession}]
        /\ \A k \in Maps : mapList'[k] = IF k = m THEN NoSession ELSE mapList[k]
    BY <1>1, <1>3 DEF ListsTyped
  <1> HIDE DEF s
  <1>8. \A r \in Sessions : Held(r)' <=> Held(r)
    <2>1. ASSUME NEW r \in Sessions, Held(r) PROVE Held(r)'
      <3>1. CASE \E k \in Maps : r = mapList[k]
        BY <1>2, <1>4, <1>7, <3>1 DEF Held, s
      <3>2. CASE \E t \in Threads : r = on[t] \/ r = found[t]
        BY <1>2, <1>4, <3>2, Names DEF Held, OnlyMoves
      <3>3. CASE r = listed \/ \E k \in Maps : InSeq(r, mapQueue[k])
        BY <1>3, <3>3 DEF Held
      <3>4. QED
        BY <2>1, <3>1, <3>2, <3>3 DEF Held
    <2>2. ASSUME NEW r \in Sessions, Held(r)' PROVE Held(r)
      <3>1. CASE \E k \in Maps : r = mapList'[k]
        BY <1>7, <3>1, Names DEF Held
      <3>2. CASE \E t \in Threads : r = on'[t] \/ r = found'[t]
        BY <1>2, <1>4, <3>2 DEF Held, s, OnlyMoves
      <3>3. CASE r = listed' \/ \E k \in Maps : InSeq(r, mapQueue'[k])
        BY <1>3, <3>3 DEF Held
      <3>4. QED
        BY <2>2, <3>1, <3>2, <3>3 DEF Held
    <2>3. QED
      BY <2>1, <2>2
  <1>9. ArrivalsAreNew'
    BY <1>1, <1>3, <1>6, <1>8 DEF ListsInv, ArrivalsAreNew
  <1>10. MappedAreHeld'
    BY <1>1, <1>3, <1>6, <1>8 DEF ListsInv, MappedAreHeld
  <1>11. VisitsItsOwn'
    BY <1>1, <1>2, <1>3, <1>4, <1>7, Names DEF ListsInv, VisitsItsOwn, Own, OnlyMoves
  <1>12. NewestLast'
    BY <1>1, <1>3, <1>7 DEF ListsInv, NewestLast, OnlyAfter
  <1>13. NobodyForgotten'
    <2>1. ASSUME NEW r \in Sessions, NEW k \in Maps, mapOf'[r] = k,
                 mapList[k] = r \/ InSeq(r, mapQueue[k]) \/ InHandOver(r, k)
          PROVE  mapList'[k] = r \/ InSeq(r, mapQueue'[k]) \/ InHandOver(r, k)'
      <3>1. CASE InHandOver(r, k)
        BY <1>2, <1>3, <1>4, <3>1, HandOversOfOthers
      <3>2. CASE mapList[k] = r \/ InSeq(r, mapQueue[k])
        BY <1>3, <1>6, <1>7, <2>1, <3>2 DEF s
      <3>3. QED
        BY <2>1, <3>1, <3>2
    <2>2. NobodyForgotten
      BY <1>1 DEF ListsInv
    <2>3. QED
      BY <1>1, <1>3, <1>6, <2>1, <2>2, ForgottenKept
  <1>14. ListsTyped' /\ FlagsTyped' /\ RunTyped'
    BY <1>1, <1>3, <1>6, <1>7 DEF ListsTyped, FlagsTyped, RunTyped
  <1>15. QED
    BY <1>4, <1>9, <1>10, <1>11, <1>12, <1>13, <1>14, Whole DEF ListsInv

(* The last reference runs the destructor.                                  *)
LEMMA DropReferenceStep ==
  ASSUME OwnershipInv, NEW t \in Threads, DropReference(t)
  PROVE  OwnershipInv'
  <1>1. ListsTyped /\ FlagsTyped /\ ThreadsTyped /\ RunTyped /\ ListsInv
    BY Parts
  <1>2. at[t] = "drop" /\ Take(t, NoSession, "idle") /\ at[t] \notin HandOverPlaces \cup {"idle"}
        /\ UNCHANGED <<arrivals, listed, mapQueue, mapList, mapOf, run, usurped, overtaken>>
        /\ UNCHANGED <<updating, loggingOut, canLogout, offline>>
    BY DEF DropReference, listVars, flagVars, lateVars, HandOverPlaces
  <1>3. PICK s \in Sessions : s = on[t]
    BY <1>1, <1>2, Busy
  <1>4. /\ IF Referenced(s, t) THEN UNCHANGED <<player, dead>>
           ELSE player' = [player EXCEPT ![s] = Gone(s)] /\ dead' = dead \cup {s}
        /\ found[t] = NoSession
    BY <1>1, <1>2, <1>3, Busy DEF DropReference
  <1>5. /\ ThreadsTyped' /\ OnlyMoves(t) /\ at'[t] = "idle" /\ on'[t] = NoSession
        /\ found' = found
    <2> DEFINE p == "idle"
    <2>1. p \in Places \ HandOverPlaces /\ (p = "idle" <=> NoSession = NoSession)
          /\ Take(t, NoSession, p) /\ p = "idle" /\ at[t] \notin HandOverPlaces
      BY <1>2 DEF Places, HandOverPlaces
    <2> HIDE DEF p
    <2>2. QED
      BY <1>1, <2>1, TakeTyped
  <1>6. FlagsTyped' /\ RunTyped'
    <2>1. Gone(s) \in {"none", "loading", "loaded", "in"}
      BY <1>1 DEF FlagsTyped, Gone
    <2>2. player' \in [Sessions -> {"none", "loading", "loaded", "in"}]
      BY <1>1, <1>4, <2>1 DEF FlagsTyped
    <2>3. dead' \subseteq Sessions
      BY <1>1, <1>4 DEF RunTyped
    <2>4. QED
      BY <1>1, <1>2, <2>2, <2>3 DEF FlagsTyped, RunTyped
  <1>7. ListsTyped'
    BY <1>1, <1>2 DEF ListsTyped
  <1>8. Held(s) /\ ~InSeq(s, arrivals)
    BY <1>1, <1>3 DEF ListsInv, ArrivalsAreNew, Held
  <1>9. s \in dead' \/ Held(s)'
    <2>1. CASE Referenced(s, t)
      <3>1. \/ s = listed \/ \E m \in Maps : s = mapList[m] \/ InSeq(s, mapQueue[m])
            \/ \E u \in Threads \ {t} : s = on[u] \/ s = found[u]
        BY <1>8, <2>1 DEF Referenced
      <3>2. QED
        BY <1>2, <1>5, <3>1 DEF Held, OnlyMoves
    <2>2. CASE ~Referenced(s, t)
      BY <1>4, <2>2
    <2>3. QED
      BY <2>1, <2>2
  <1>10. \A r \in Sessions : (Held(r)' => Held(r)) /\ (Held(r) => Held(r)' \/ r \in dead')
    <2>1. /\ \A r \in Sessions : r # on'[t] /\ r # found'[t] /\ r # found[t]
          /\ \A r : r = on[t] => r = s
      BY <1>3, <1>4, <1>5, Names
    <2>2. QED
      BY <1>2, <1>5, <1>9, <2>1, HeldByOthers
  <1>11. ListsInv'
    <2>1. \A r \in Sessions, m \in Maps : mapOf'[r] = m => mapOf[r] = m
      BY <1>2
    <2>2. \A u \in Threads :
            at'[u] # "drop" /\ on'[u] # NoSession =>
              (on'[u] = on[u] /\ at[u] # "drop") \/ on'[u] = Own(u)
      BY <1>5 DEF OnlyMoves
    <2>3. dead \subseteq dead'
      BY <1>4
    <2>4. \A r, m : InHandOver(r, m) => InHandOver(r, m)'
      BY <1>2, <1>5, HandOversOfOthers
    <2>5. QED
      BY <1>1, <1>2, <1>7, <1>10, <2>1, <2>2, <2>3, <2>4, ListsChange
  <1>12. QED
    BY <1>5, <1>6, <1>7, <1>11, Whole
-----------------------------------------------------------------------------
LEMMA OwnershipInit == Init => OwnershipInv
  <1> SUFFICES ASSUME Init PROVE OwnershipInv
    OBVIOUS
  <1>1. ListsTyped /\ FlagsTyped /\ RunTyped
    BY DEF Init, ListsTyped, FlagsTyped, RunTyped
  <1>2. ThreadsTyped
    BY DEF Init, ThreadsTyped, Places, HandOverPlaces, LocalsOK, Returns
  <1>3. ArrivalsAreNew
    BY DEF Init, ArrivalsAreNew, InSeq
  <1>4. MappedAreHeld /\ VisitsItsOwn
    BY DEF Init, MappedAreHeld, VisitsItsOwn
  <1>5. NewestLast /\ NobodyForgotten
    BY DEF Init, NewestLast, NobodyForgotten
  <1>6. QED
    BY <1>1, <1>2, <1>3, <1>4, <1>5, Typed DEF OwnershipInv

LEMMA OwnershipNext ==
  ASSUME OwnershipInv, LoginFindsItself, [Next]_vars
  PROVE  OwnershipInv'
  <1>1. ASSUME NEW s \in Sessions, Arrive(s) \/ Disconnect(s) \/ QueryAnswered(s)
        PROVE  OwnershipInv'
    BY <1>1, ArriveStep, OutsideStep
  <1>2. CASE WorldAdds \/ WorldVisits \/ WorldErases
    BY <1>2, WorldAddsStep, VisitsStep, WorldErasesStep
  <1>3. CASE KickAll \/ LastUpdateSkips \/ UnloadAll
    BY <1>3, OutsideStep
  <1>4. ASSUME NEW m \in Maps, MapNext(m)
        PROVE  OwnershipInv'
    <2>1. m \in Threads
      BY Names
    <2>2. CASE MapAdds(m)
      BY <2>2, MapAddsStep
    <2>3. CASE MapForgets(m) \/ MapErases(m)
      BY <2>3, MapForgetsStep
    <2>4. CASE MapVisits(m)
      BY <2>4, VisitsStep
    <2>5. CASE MapTeleports(m)
      BY <2>1, <2>5, TeleportStep
    <2>6. CASE MapRemoves(m)
      BY <2>6, OutsideStep
    <2>7. CASE SpellInQueue(m)
      BY <2>1, <2>7, TeleportStep, Parts, LocalSteps, LocalStep DEF LocalNext
    <2>8. QED
      BY <1>4, <2>2, <2>3, <2>4, <2>5, <2>6, <2>7 DEF MapNext
  <1>5. ASSUME NEW t \in Threads, UpdateNext(t) \/ HandOverNext(t)
        PROVE  OwnershipInv'
    <2>1. CASE LocalNext(t)
      BY <2>1, Parts, LocalSteps, LocalStep
    <2>2. CASE HandlerTeleport(t)
      BY <2>2, TeleportStep
    <2>3. CASE HandlePlayerLogin(t)
      BY <2>3, HandlePlayerLoginStep
    <2>4. CASE DropReference(t)
      BY <2>4, DropReferenceStep
    <2>5. CASE HandOverNext(t)
      BY <2>5, HandOverTestStep, HandOverSetsMapStep, HandOverAddsStep, LoginSetsMapStep
         DEF HandOverNext
    <2>6. QED
      BY <1>5, <2>1, <2>2, <2>3, <2>4, <2>5 DEF UpdateNext, LocalNext
  <1>6. CASE UNCHANGED vars
    <2>1. ListsTyped /\ FlagsTyped /\ ThreadsTyped /\ RunTyped /\ ListsInv
      BY Parts
    <2>2. /\ UNCHANGED <<arrivals, listed, mapQueue, mapList, mapOf, at, on, back, found, target,
                         run, dead, usurped, overtaken>>
          /\ UNCHANGED <<updating, loggingOut, canLogout, player, offline>>
      BY <1>6 DEF vars, listVars, flagVars, threadVars, callVars, history, lateVars
    <2>3. ListsInv'
      <3>1. mapOf' \in [Sessions -> Maps \cup {NoMap}] /\ \A s \in Sessions : mapOf'[s] \in {mapOf[s], NoMap}
        BY <2>1, <2>2 DEF ListsTyped
      <3>2. QED
        BY <2>1, <2>2, <3>1, ListsKept
    <2>4. ListsTyped' /\ FlagsTyped' /\ ThreadsTyped' /\ RunTyped'
      BY <2>1, <2>2 DEF ListsTyped, FlagsTyped, ThreadsTyped, LocalsOK, RunTyped
    <2>5. QED
      BY <2>3, <2>4, Whole
  <1>7. QED
    BY <1>1, <1>2, <1>3, <1>4, <1>5, <1>6 DEF Next

(* A thread comes to a login's SetMap with the session World lists.         *)
ComesToLogin(t) ==
  at'[t] = "login" =>
    \/ at[t] = "login" /\ on'[t] = on[t] /\ found'[t] = found[t]
    \/ found'[t] = listed

LEMMA ComesToLoginNext ==
  ASSUME OwnershipInv, [Next]_vars, NEW t \in Threads
  PROVE  ComesToLogin(t)
  <1>1. ThreadsTyped
    BY Parts
  <1> USE <1>1 DEF ComesToLogin
  <1>2. CASE UNCHANGED threadVars
    BY <1>2 DEF threadVars, callVars
  <1>3. ASSUME NEW u \in Threads, NEW p, p # "login", at' = [at EXCEPT ![u] = p],
               \A v \in Threads \ {u} : on'[v] = on[v] /\ found'[v] = found[v]
        PROVE  ComesToLogin(t)
    BY <1>3 DEF ThreadsTyped
  <1>4. ASSUME NEW u \in Threads, NEW p, NEW m, NEW b, Call(u, m, p, b)
        PROVE  ComesToLogin(t)
    BY <1>4 DEF ThreadsTyped, Call
  <1>5. ASSUME NEW u \in Threads, NEW p, p # "login", Goto(u, p)
        PROVE  ComesToLogin(t)
    BY <1>3, <1>5 DEF Goto, callVars
  <1>6. ASSUME NEW u \in Threads, NEW p, p # "login", NEW s, Take(u, s, p)
        PROVE  ComesToLogin(t)
    <2>1. \A v \in Threads \ {u} : on'[v] = on[v] /\ found'[v] = found[v]
      BY <1>6 DEF Take, callVars, ThreadsTyped
    <2>2. QED
      BY <1>3, <1>6, <2>1 DEF Take
  <1>7. ASSUME NEW u \in Threads, at[u] \in HandOverPlaces, Return(u)
        PROVE  ComesToLogin(t)
    <2>1. back[u] # "login"
      BY <1>7, Calling
    <2>2. \A v \in Threads \ {u} : on'[v] = on[v] /\ found'[v] = found[v]
      BY <1>7 DEF Return, ThreadsTyped
    <2>3. QED
      BY <1>3, <1>7, <2>1, <2>2 DEF Return
  <1>8. ASSUME NEW u \in Threads, UpdateNext(u) \/ HandOverNext(u) PROVE ComesToLogin(t)
    <2>1. CASE LocalNext(u)
      <3>1. Local(u)
        BY <2>1, Parts, LocalSteps
      <3>2. PICK p \in Places \ (HandOverPlaces \cup {"idle"}) : at' = [at EXCEPT ![u] = p]
        BY <3>1 DEF Local
      <3>3. p # "login" /\ UNCHANGED <<on, found>>
        BY <3>1, <3>2 DEF Local, HandOverPlaces
      <3>4. QED
        BY <1>3, <3>2, <3>3
    <2>2. CASE HandlerTeleport(u)
      BY <1>4, <2>2 DEF HandlerTeleport, SafeTeleport
    <2>3. CASE HandlePlayerLogin(u)
      BY <1>4, <1>5, <2>3 DEF HandlePlayerLogin
    <2>4. CASE DropReference(u)
      BY <1>6, <2>4 DEF DropReference
    <2>5. CASE HandOverSetsMap(u) \/ LoginSetsMap(u)
      BY <1>5, <2>5 DEF HandOverSetsMap, LoginSetsMap
    <2>6. CASE HandOverTest(u)
      <3>1. at[u] \in HandOverPlaces
        BY <2>6 DEF HandOverTest, HandOverPlaces
      <3>2. CASE Return(u)
        BY <1>7, <3>1, <3>2
      <3>3. CASE \E p \in {"map1", "map2", "test2"} : Goto(u, p)
        BY <1>5, <3>3
      <3>4. QED
        BY <2>6, <3>2, <3>3 DEF HandOverTest
    <2>7. CASE HandOverAdds(u)
      <3>1. at[u] \in HandOverPlaces
        BY <2>7 DEF HandOverAdds, HandOverPlaces
      <3>2. CASE Return(u)
        BY <1>7, <3>1, <3>2
      <3>3. CASE Goto(u, "test2")
        BY <1>5, <3>3
      <3>4. QED
        BY <2>7, <3>2, <3>3 DEF HandOverAdds
    <2>8. QED
      BY <1>8, <2>1, <2>2, <2>3, <2>4, <2>5, <2>6, <2>7 DEF UpdateNext, HandOverNext, LocalNext
  <1>9. ASSUME NEW m \in Maps, MapNext(m) PROVE ComesToLogin(t)
    <2>1. m \in Threads
      BY Names
    <2>2. CASE MapAdds(m) \/ MapForgets(m) \/ MapVisits(m) \/ MapErases(m) \/ MapRemoves(m)
      BY <1>2, <1>5, <1>6, <2>1, <2>2 DEF MapAdds, MapForgets, MapVisits, MapErases, MapRemoves
    <2>3. CASE MapTeleports(m) \/ SpellInQueue(m)
      BY <1>4, <1>5, <2>1, <2>3 DEF MapTeleports, SpellInQueue, SafeTeleport
    <2>4. QED
      BY <1>9, <2>2, <2>3 DEF MapNext
  <1>10. CASE WorldAdds \/ WorldVisits \/ WorldErases
    BY <1>2, <1>5, <1>6, <1>10, Names DEF WorldAdds, WorldVisits, WorldErases
  <1>11. CASE \/ KickAll \/ LastUpdateSkips \/ UnloadAll \/ UNCHANGED vars
              \/ \E s \in Sessions : Arrive(s) \/ Disconnect(s) \/ QueryAnswered(s)
    BY <1>2, <1>11 DEF KickAll, LastUpdateSkips, UnloadAll, Arrive, Disconnect, QueryAnswered, vars
  <1>12. QED
    BY <1>8, <1>9, <1>10, <1>11 DEF Next

(* World's list changes by a session that nobody has yet.                   *)
LEMMA LoginFindsItselfNext ==
  ASSUME OwnershipInv, LoginFindsItself, [Next]_vars
  PROVE  LoginFindsItself'
  <1>1. ThreadsTyped /\ ListsTyped /\ ListsInv
    BY Parts
  <1>2. CASE listed' = listed
    <2>1. \A t \in Threads : ComesToLogin(t)
      BY ComesToLoginNext
    <2>2. QED
      BY <1>2, <2>1 DEF LoginFindsItself, ComesToLogin
  <1>3. CASE WorldErases
    <2>1. \A t \in Threads : at'[t] = "login" => at[t] = "login" /\ on'[t] = on[t]
      BY <1>1, <1>3 DEF WorldErases, Goto, ThreadsTyped
    <2>2. \A t \in Threads : at[t] = "login" => on[t] # NoSession
      BY <1>1, Calling, Names DEF HandOverPlaces
    <2>3. QED
      BY <1>3, <2>1, <2>2 DEF WorldErases, LoginFindsItself
  <1>4. CASE WorldAdds
    <2>1. \A t \in Threads : at'[t] = "login" => on'[t] = on[t]
      BY <1>1, <1>4 DEF WorldAdds, Take, threadVars, ThreadsTyped
    <2>2. ~Held(listed')
      <3>1. arrivals \in Seq(Sessions) /\ arrivals # <<>> /\ listed' = Head(arrivals)
        BY <1>1, <1>4 DEF ListsTyped, WorldAdds
      <3>2. Head(arrivals) \in Sessions /\ InSeq(Head(arrivals), arrivals)
        BY <3>1 DEF InSeq
      <3>3. ~Held(Head(arrivals))
        BY <1>1, <3>2 DEF ListsInv, ArrivalsAreNew
      <3>4. PICK n : n = Head(arrivals)
        OBVIOUS
      <3>5. ~Held(n) /\ n = listed'
        BY <3>1, <3>3, <3>4
      <3>6. QED
        BY <3>5 DEF Held
    <2>3. QED
      BY <2>1, <2>2 DEF LoginFindsItself, Held
  <1>5. listed' = listed \/ WorldErases \/ WorldAdds
    <2>1. ASSUME NEW m \in Maps, MapNext(m) PROVE listed' = listed
      BY <2>1 DEF MapNext, MapAdds, MapForgets, MapVisits, MapErases, MapTeleports, MapRemoves,
         SpellInQueue, listVars
    <2>2. ASSUME NEW t \in Threads, UpdateNext(t) \/ HandOverNext(t) PROVE listed' = listed
      <3>1. CASE LocalNext(t)
        BY <1>1, <3>1, Parts, LocalSteps DEF Local
      <3>2. CASE HandOverNext(t) \/ HandlerTeleport(t) \/ HandlePlayerLogin(t) \/ DropReference(t)
        BY <3>2 DEF HandOverNext, HandOverTest, HandOverSetsMap, HandOverAdds, LoginSetsMap,
           HandlerTeleport, HandlePlayerLogin, DropReference, listVars
      <3>3. QED
        BY <2>2, <3>1, <3>2 DEF UpdateNext, LocalNext
    <2>3. CASE \/ KickAll \/ LastUpdateSkips \/ UnloadAll \/ UNCHANGED vars \/ WorldVisits
               \/ \E s \in Sessions : Arrive(s) \/ Disconnect(s) \/ QueryAnswered(s)
      BY <2>3 DEF KickAll, LastUpdateSkips, UnloadAll, WorldVisits, Arrive, Disconnect,
         QueryAnswered, vars, listVars
    <2>4. QED
      BY <2>1, <2>2, <2>3 DEF Next
  <1>6. QED
    BY <1>2, <1>3, <1>4, <1>5

(***************************************************************************)
(* However logins, teleports, logouts, reconnections and the server's stop *)
(* interleave, what the lists rest on holds.                               *)
(***************************************************************************)
THEOREM OwnershipInvariant == Spec => [](OwnershipInv /\ LoginFindsItself)
  <1>1. Init => OwnershipInv
    BY OwnershipInit
  <1>2. Init => LoginFindsItself
    BY DEF Init, LoginFindsItself
  <1>3. OwnershipInv /\ LoginFindsItself /\ [Next]_vars => OwnershipInv'
    BY OwnershipNext
  <1>4. OwnershipInv /\ LoginFindsItself /\ [Next]_vars => LoginFindsItself'
    BY LoginFindsItselfNext
  <1>5. QED
    BY <1>1, <1>2, <1>3, <1>4, PTL DEF Spec

(***************************************************************************)
(* The lists, queues and flags of the sessions have their types; a thread  *)
(* that is somewhere in a visit has a session, and one in a hand-over has  *)
(* found one and chosen a map.                                             *)
(***************************************************************************)
THEOREM OwnershipTypeCorrect == Spec => []TypeOK
  <1>1. OwnershipInv => TypeOK
    BY DEF OwnershipInv
  <1>2. QED
    BY <1>1, OwnershipInvariant, PTL

(***************************************************************************)
(* No session falls between two threads: the tests, SetMap and AddSession  *)
(* of both hand-overs of SafeTeleport, late visits, replacements and the   *)
(* erasures of both UpdateSessions leave the listed one, if it has a map,  *)
(* listed by that map, in its addSessQueue or about to be put there,       *)
(* unless an older session was put into a queue while it was listed.       *)
(***************************************************************************)
THEOREM OwnershipNobodyForgotten == Spec => []NobodyForgotten
  <1>1. OwnershipInv => NobodyForgotten
    BY DEF OwnershipInv
  <1>2. QED
    BY <1>1, OwnershipInvariant, PTL
-----------------------------------------------------------------------------
(* Who may be past the tests of Update.                                     *)
LEMMA OneThreadPerMap ==
  ASSUME NEW t \in Threads, NEW u \in Threads, MapArgument(t) = MapArgument(u)
  PROVE  t = u
  BY Names DEF MapArgument

(* A thread stays past the tests, or comes there as the owner.              *)
MayBePast(t) ==
  at'[t] \in PastTheTest /\ on'[t] \in Sessions =>
    \/ at[t] \in PastTheTest /\ on'[t] = on[t]
    \/ mapOf[on'[t]] = MapArgument(t) /\ (t = World => on'[t] = listed)

(* Nobody changes maps, and nobody gets past a test without being the owner. *)
LEMMA OwnersKept ==
  ASSUME OwnersInv, run' = "up" => run = "up", UNCHANGED <<listed, mapOf, usurped>>,
         \A t \in Threads : MayBePast(t)
  PROVE  OwnersInv'
  <1> SUFFICES ASSUME run' = "up" PROVE OwnersInv'
    BY DEF OwnersInv, OneOwner, OnePast
  <1>1. /\ \A s \in Sessions \ usurped :
             /\ \A t \in Threads : at[t] \in PastTheTest /\ on[t] = s => Owner(t, s)
             /\ mapOf[s] # NoMap => s = listed
        /\ \A s \in Sessions \ usurped : \A t, u \in Threads :
             (on[t] = s /\ on[u] = s /\ at[t] \in PastTheTest /\ at[u] \in PastTheTest) => t = u
    BY DEF OwnersInv, OneOwner, OnePast
  <1>2. ASSUME NEW s \in Sessions \ usurped, NEW t \in Threads, at'[t] \in PastTheTest, on'[t] = s
        PROVE  \/ at[t] \in PastTheTest /\ on[t] = s /\ Owner(t, s)
               \/ mapOf[s] = MapArgument(t) /\ (t = World => s = listed)
    BY <1>1, <1>2 DEF MayBePast
  <1>3. OneOwner'
    <2>1. \A s \in Sessions \ usurped, t \in Threads :
            at'[t] \in PastTheTest /\ on'[t] = s => Owner(t, s)'
      BY <1>2 DEF Owner
    <2>2. QED
      BY <1>1, <2>1 DEF OneOwner
  <1>4. OnePast'
    <2>1. ASSUME NEW s \in Sessions \ usurped, NEW t \in Threads, NEW u \in Threads,
                 on'[t] = s, on'[u] = s, at'[t] \in PastTheTest, at'[u] \in PastTheTest
          PROVE  t = u
      <3>1. CASE at[t] \in PastTheTest /\ on[t] = s /\ at[u] \in PastTheTest /\ on[u] = s
        BY <1>1, <3>1
      <3>2. ASSUME NEW v \in Threads, NEW w \in Threads, Owner(v, s),
                   mapOf[s] = MapArgument(w) /\ (w = World => s = listed)
            PROVE  v = w
        <4>1. mapOf[s] = MapArgument(v) => v = w
          BY <3>2, OneThreadPerMap
        <4>2. mapOf[s] = NoMap => w = World
          BY <3>2, Names DEF MapArgument
        <4>3. QED
          BY <3>2, <4>1, <4>2 DEF Owner
      <3>3. \A v \in Threads : mapOf[s] = MapArgument(v) => Owner(v, s)
        BY DEF Owner
      <3>4. QED
        BY <1>2, <2>1, <3>1, <3>2, <3>3
    <2>2. QED
      BY <2>1 DEF OnePast
  <1>5. QED
    BY <1>3, <1>4 DEF OwnersInv

(* A thread moves in its visit, takes one up or leaves it.                  *)
LEMMA OwnersGoOn ==
  ASSUME OwnershipInv, OwnersInv, run' = "up" => run = "up",
         UNCHANGED <<listed, mapOf, usurped>>, NEW t \in Threads,
         NEW p, at' = [at EXCEPT ![t] = p],
         on' = on \/ \E s : on' = [on EXCEPT ![t] = s],
         p \in PastTheTest => MayBePast(t)
  PROVE  OwnersInv'
  <1>1. at \in [Threads -> Places] /\ on \in [Threads -> Sessions \cup {NoSession}]
    BY Parts DEF ThreadsTyped
  <1>2. \A u \in Threads : u # t => at'[u] = at[u] /\ on'[u] = on[u]
    BY <1>1
  <1>3. at'[t] = p
    BY <1>1
  <1>4. \A u \in Threads : MayBePast(u)
    BY <1>2, <1>3 DEF MayBePast
  <1>5. QED
    BY <1>4, OwnersKept

(* Thread t, the owner of x, moves it to v and is past the tests no more.   *)
LEMMA OwnersMove ==
  ASSUME OwnershipInv, OwnersInv, run' = run, listed' = listed, NEW t \in Threads,
         NEW x \in Sessions, NEW v \in Maps \cup {NoMap}, mapOf' = [mapOf EXCEPT ![x] = v],
         usurped \subseteq usurped', x \notin usurped' => mapOf[x] \in {MapArgument(t), v},
         t = World => x = listed, on' = on,
         NEW p, p \notin PastTheTest, at' = [at EXCEPT ![t] = p]
  PROVE  OwnersInv'
  <1> SUFFICES ASSUME run' = "up" PROVE OwnersInv'
    BY DEF OwnersInv, OneOwner, OnePast
  <1>1. /\ \A s \in Sessions \ usurped :
             /\ \A u \in Threads : at[u] \in PastTheTest /\ on[u] = s => Owner(u, s)
             /\ mapOf[s] # NoMap => s = listed
        /\ \A s \in Sessions \ usurped : \A u, w \in Threads :
             (on[u] = s /\ on[w] = s /\ at[u] \in PastTheTest /\ at[w] \in PastTheTest) => u = w
    BY DEF OwnersInv, OneOwner, OnePast
  <1>2. \A u \in Threads : at'[u] \in PastTheTest => at[u] \in PastTheTest /\ u # t
    BY Parts DEF ThreadsTyped
  <1>3. \A s \in Sessions : mapOf'[s] = IF s = x THEN v ELSE mapOf[s]
    BY Parts DEF ListsTyped
  <1>4. ASSUME x \notin usurped', mapOf[x] # v
        PROVE  x = listed /\ \A u \in Threads : at[u] \in PastTheTest /\ on[u] = x => u = t
    <2>1. mapOf[x] = MapArgument(t) /\ x \notin usurped
      BY <1>4
    <2>2. x = listed
      BY <1>1, <2>1, Names DEF MapArgument
    <2>3. ASSUME NEW u \in Threads, at[u] \in PastTheTest, on[u] = x
          PROVE  u = t
      BY <1>1, <2>1, <2>2, <2>3, OneThreadPerMap DEF Owner
    <2>4. QED
      BY <2>2, <2>3
  <1>5. OneOwner'
    <2>1. ASSUME NEW s \in Sessions \ usurped', NEW u \in Threads, at'[u] \in PastTheTest, on[u] = s
          PROVE  Owner(u, s)'
      <3>1. Owner(u, s)
        BY <1>1, <1>2, <2>1
      <3>2. mapOf'[s] = mapOf[s]
        BY <1>2, <1>3, <1>4, <2>1
      <3>3. QED
        BY <3>1, <3>2 DEF Owner
    <2>2. \A s \in Sessions \ usurped' : mapOf'[s] # NoMap => s = listed
      BY <1>1, <1>3, <1>4
    <2>3. QED
      BY <2>1, <2>2 DEF OneOwner
  <1>6. OnePast'
    BY <1>1, <1>2 DEF OnePast
  <1>7. QED
    BY <1>5, <1>6 DEF OwnersInv

(* The steps of a visit and of a hand-over that set no m_map.               *)
LEMMA OwnersVisitStep ==
  ASSUME OwnershipInv, OwnersInv, NEW t \in Threads,
         \/ LocalNext(t) \/ HandlerTeleport(t) \/ DropReference(t)
         \/ HandOverTest(t) \/ HandOverAdds(t)
         \/ t \in Maps /\ (MapTeleports(t) \/ SpellInQueue(t))
  PROVE  OwnersInv'
  <1> USE DEF PastTheTest, HandOverPlaces
  <1>0. ThreadsTyped /\ FlagsTyped /\ VisitsItsOwn
    BY Parts DEF ListsInv
  <1>1. CASE LocalNext(t)
    <2>1. Local(t)
      BY <1>0, <1>1, LocalSteps
    <2>2. /\ at[t] \notin HandOverPlaces \cup {"idle", "drop"} /\ on' = on
          /\ UNCHANGED <<listed, mapOf, usurped>> /\ run' = run
      BY <2>1 DEF Local
    <2>3. PICK q \in Places : /\ at' = [at EXCEPT ![t] = q]
                              /\ q \in PastTheTest => at[t] \in PastTheTest \/ mapOf[on[t]] = MapArgument(t)
      BY <2>1 DEF Local
    <2>4. t = World => on[t] = listed
      BY <1>0, <2>2, Busy DEF VisitsItsOwn, Own
    <2>5. q \in PastTheTest => MayBePast(t)
      BY <2>2, <2>3, <2>4 DEF MayBePast
    <2> HIDE DEF PastTheTest, HandOverPlaces
    <2>6. QED
      BY <2>2, <2>3, <2>5, OwnersGoOn
  <1>2. CASE HandlerTeleport(t) \/ (t \in Maps /\ (MapTeleports(t) \/ SpellInQueue(t)))
    <2>1. /\ UNCHANGED <<listed, mapOf, usurped>> /\ run' = run /\ on' = on
          /\ at[t] \in {"handler", "spell"} \/ on[t] \notin Sessions
      BY <1>0, <1>2, Idle, Names DEF HandlerTeleport, MapTeleports, MapRuns, SpellInQueue, SafeTeleport, Call, Goto,
         listVars, history, lateVars
    <2>2. PICK q \in {"test1", "enter"} : at' = [at EXCEPT ![t] = q]
      BY <1>2 DEF HandlerTeleport, MapTeleports, SpellInQueue, SafeTeleport, Call, Goto
    <2>3. q \in PastTheTest => MayBePast(t)
      BY <2>1 DEF MayBePast
    <2> HIDE DEF PastTheTest, HandOverPlaces
    <2>4. QED
      BY <2>1, <2>2, <2>3, OwnersGoOn
  <1>3. CASE DropReference(t)
    <2> DEFINE q == "idle"
    <2>1. /\ UNCHANGED <<listed, mapOf, usurped>> /\ run' = run
          /\ on' = [on EXCEPT ![t] = NoSession] /\ at' = [at EXCEPT ![t] = q]
          /\ q \notin PastTheTest
      BY <1>3 DEF DropReference, Take, listVars, lateVars
    <2> HIDE DEF q, PastTheTest, HandOverPlaces
    <2>2. QED
      BY <2>1, OwnersGoOn
  <1>4. CASE HandOverTest(t) \/ HandOverAdds(t)
    <2>1. /\ UNCHANGED <<listed, mapOf, usurped>> /\ run' = run /\ on' = on
          /\ at[t] \in {"test1", "test2", "add1", "add2"}
      BY <1>4 DEF HandOverTest, HandOverAdds, Goto, Return, listVars, lateVars
    <2>2. back[t] \notin PastTheTest
      BY <1>0, <2>1, Calling
    <2>3. PICK q : /\ at' = [at EXCEPT ![t] = q]
                   /\ q \in PastTheTest => at[t] = "test1"
      <3>1. \/ at' = [at EXCEPT ![t] = back[t]]
            \/ at[t] = "test1" /\ at' = [at EXCEPT ![t] = "map1"]
            \/ \E q \in {"map2", "test2"} : at' = [at EXCEPT ![t] = q]
        BY <1>4 DEF HandOverTest, HandOverAdds, Goto, Return
      <3>2. QED
        BY <2>2, <3>1
    <2>4. q \in PastTheTest => MayBePast(t)
      BY <2>1, <2>3 DEF MayBePast
    <2> HIDE DEF PastTheTest, HandOverPlaces
    <2>5. QED
      BY <2>1, <2>3, <2>4, OwnersGoOn
  <1>5. QED
    BY <1>1, <1>2, <1>3, <1>4

(* The steps that set one.                                                  *)
LEMMA OwnersSetMapStep ==
  ASSUME OwnershipInv, OwnersInv, NEW t \in Threads,
         \/ HandOverSetsMap(t) \/ LoginSetsMap(t) \/ HandlePlayerLogin(t)
         \/ t \in Maps /\ MapErases(t)
  PROVE  OwnersInv'
  <1>0. ThreadsTyped /\ VisitsItsOwn
    BY Parts DEF ListsInv
  <1>1. CASE HandOverSetsMap(t)
    <2>1. /\ at[t] \in {"map1", "map2"} /\ run' = run /\ listed' = listed /\ on' = on
          /\ SetMap(t, found[t], target[t])
      BY <1>1 DEF HandOverSetsMap, Goto
    <2>2. /\ found[t] \in Sessions /\ target[t] \in Maps \cup {NoMap} /\ t # World
      BY <1>0, <2>1, Calling DEF HandOverPlaces
    <2>3. PICK x \in Sessions, v \in Maps \cup {NoMap} : x = found[t] /\ v = target[t]
      BY <2>2
    <2>4. /\ mapOf' = [mapOf EXCEPT ![x] = v] /\ usurped \subseteq usurped'
          /\ x \notin usurped' => mapOf[x] \in {MapArgument(t), v}
      BY <2>1, <2>3 DEF SetMap
    <2>5. PICK q \in {"add1", "add2"} : at' = [at EXCEPT ![t] = q]
      BY <1>1 DEF HandOverSetsMap, Goto
    <2>6. q \notin PastTheTest
      BY DEF PastTheTest
    <2>7. QED
      BY <2>1, <2>2, <2>4, <2>5, <2>6, OwnersMove
  <1>2. ASSUME NEW v \in Maps, SetMap(t, on[t], v), NEW q \in {"called", "add2"}, Goto(t, q),
               at[t] \in {"callbacks", "login"}, run' = run, listed' = listed
        PROVE  OwnersInv'
    <2>1. PICK x \in Sessions : x = on[t]
      BY <1>0, <1>2, Busy, Calling DEF HandOverPlaces
    <2>2. /\ mapOf' = [mapOf EXCEPT ![x] = v] /\ usurped \subseteq usurped'
          /\ x \notin usurped' => mapOf[x] \in {MapArgument(t), v}
      BY <1>2, <2>1 DEF SetMap
    <2>3. t = World => x = listed
      BY <1>0, <1>2, <2>1, Names DEF VisitsItsOwn, Own
    <2>4. /\ q \notin PastTheTest /\ v \in Maps \cup {NoMap} /\ on' = on
          /\ at' = [at EXCEPT ![t] = q]
      BY <1>2 DEF PastTheTest, Goto
    <2>5. QED
      BY <1>2, <2>2, <2>3, <2>4, OwnersMove
  <1>4. CASE HandlePlayerLogin(t)
    <2>1. at[t] = "callbacks" /\ run' = run /\ listed' = listed
      BY <1>4 DEF HandlePlayerLogin
    <2>2. PICK v \in Maps : \/ Goto(t, "called") /\ SetMap(t, on[t], v)
                            \/ Call(t, v, "login", "called") /\ UNCHANGED <<mapOf, usurped>>
      BY <1>4 DEF HandlePlayerLogin
    <2>3. CASE Goto(t, "called") /\ SetMap(t, on[t], v)
      BY <1>2, <2>1, <2>3
    <2>4. CASE Call(t, v, "login", "called") /\ UNCHANGED <<mapOf, usurped>>
      <3> DEFINE q == "login"
      <3>1. at' = [at EXCEPT ![t] = q] /\ on' = on /\ q \notin PastTheTest
        BY <2>4 DEF Call, PastTheTest
      <3> HIDE DEF q
      <3>2. QED
        BY <2>1, <2>4, <3>1, OwnersGoOn
    <2>5. QED
      BY <2>2, <2>3, <2>4
  <1>5. CASE LoginSetsMap(t)
    <2>1. at[t] = "login" /\ run' = run /\ listed' = listed /\ Goto(t, "add2")
          /\ SetMap(t, on[t], target[t])
      BY <1>5 DEF LoginSetsMap
    <2>2. target[t] \in Maps
      BY <1>0, <2>1, Calling DEF HandOverPlaces
    <2>3. QED
      BY <1>2, <2>1, <2>2
  <1>3. CASE t \in Maps /\ MapErases(t)
    <2> DEFINE q == "drop"
               v == NoMap
    <2>1. /\ at[t] = "erase" /\ run' = run /\ listed' = listed /\ on' = on /\ usurped' = usurped
          /\ mapOf' = [mapOf EXCEPT ![on[t]] = v] /\ at' = [at EXCEPT ![t] = q] /\ t # World
      BY <1>3, Names DEF MapErases, Goto, history, lateVars
    <2>2. PICK x \in Sessions : x = on[t]
      BY <1>0, <2>1, Busy DEF HandOverPlaces
    <2>3. mapOf' = [mapOf EXCEPT ![x] = v] /\ v \in Maps \cup {NoMap} /\ q \notin PastTheTest
      BY <2>1, <2>2 DEF PastTheTest
    <2>4. CASE run = "up"
      <3>1. x \notin usurped => Owner(t, x)
        BY <2>1, <2>2, <2>4 DEF OwnersInv, OneOwner, PastTheTest
      <3>2. usurped \subseteq usurped' /\ (x \notin usurped' => mapOf[x] \in {MapArgument(t), v})
        BY <2>1, <3>1 DEF Owner
      <3> HIDE DEF q, v
      <3>3. QED
        BY <2>1, <2>3, <3>2, OwnersMove
    <2>5. CASE run # "up"
      BY <2>1, <2>5 DEF OwnersInv, OneOwner, OnePast
    <2>6. QED
      BY <2>4, <2>5
  <1>6. QED
    BY <1>1, <1>3, <1>4, <1>5

(* The lists.                                                               *)
LEMMA OwnersWorldStep ==
  ASSUME OwnershipInv, OwnersInv, WorldAdds \/ WorldErases
  PROVE  OwnersInv'
  <1> SUFFICES ASSUME run' = "up" PROVE OwnersInv'
    BY DEF OwnersInv, OneOwner, OnePast
  <1>1. UNCHANGED <<run, usurped>>
    BY DEF WorldAdds, WorldErases, history, lateVars
  <1>2. /\ \A s \in Sessions \ usurped :
             /\ \A u \in Threads : at[u] \in PastTheTest /\ on[u] = s => Owner(u, s)
             /\ mapOf[s] # NoMap => s = listed
        /\ \A s \in Sessions \ usurped : \A u, w \in Threads :
             (on[u] = s /\ on[w] = s /\ at[u] \in PastTheTest /\ at[w] \in PastTheTest) => u = w
    BY <1>1 DEF OwnersInv, OneOwner, OnePast
  <1>3. ListsTyped /\ ThreadsTyped /\ ArrivalsAreNew /\ VisitsItsOwn
    BY Parts DEF ListsInv
  <1>4. \A u \in Threads : at'[u] \in PastTheTest =>
          at[u] \in PastTheTest /\ on'[u] = on[u] /\ u # World
    BY <1>3 DEF WorldAdds, WorldErases, Take, Goto, threadVars, callVars, ThreadsTyped, PastTheTest
  <1>5. OnePast'
    BY <1>1, <1>2, <1>4 DEF OnePast
  <1>6. CASE WorldAdds
    <2>1. PICK n \in Sessions : n = listed' /\ ~Held(n) /\ mapOf[n] = NoMap
      <3>1. arrivals \in Seq(Sessions) /\ arrivals # <<>> /\ listed' = Head(arrivals)
        BY <1>3, <1>6 DEF ListsTyped, WorldAdds
      <3>2. Head(arrivals) \in Sessions /\ InSeq(Head(arrivals), arrivals)
        BY <3>1 DEF InSeq
      <3>3. QED
        BY <1>3, <3>1, <3>2 DEF ArrivalsAreNew
    <2>2. \A s \in Sessions : mapOf'[s] = IF s = listed THEN NoMap ELSE mapOf[s]
      BY <1>3, <1>6, Names DEF WorldAdds, ListsTyped
    <2>3. \A s \in Sessions \ usurped : mapOf'[s] = NoMap
      BY <1>2, <2>2
    <2>4. ASSUME NEW s \in Sessions \ usurped, NEW u \in Threads, at'[u] \in PastTheTest, on'[u] = s
          PROVE  u # World /\ s # n
      BY <1>4, <2>1, <2>4 DEF Held
    <2>5. OneOwner'
      BY <1>1, <2>1, <2>3, <2>4 DEF OneOwner, Owner
    <2>6. QED
      BY <1>5, <2>5 DEF OwnersInv
  <1>7. CASE WorldErases
    <2>1. /\ at[World] = "erase" /\ listed' = NoSession /\ mapOf' = mapOf /\ World \in Threads
      BY <1>7, Names DEF WorldErases
    <2>2. on[World] = listed /\ listed \in Sessions
      BY <1>3, <2>1, Busy DEF VisitsItsOwn, Own, HandOverPlaces
    <2>3. listed \notin usurped => mapOf[listed] = NoMap
      BY <1>2, <2>1, <2>2 DEF PastTheTest, Owner, MapArgument
    <2>4. \A s \in Sessions \ usurped : mapOf[s] = NoMap
      BY <1>2, <2>3
    <2>5. ASSUME NEW s \in Sessions \ usurped, NEW u \in Threads, at'[u] \in PastTheTest, on'[u] = s
          PROVE  u # World /\ s # NoSession
      BY <1>4, <2>5, Names
    <2>6. OneOwner'
      BY <1>1, <2>1, <2>4, <2>5 DEF OneOwner, Owner
    <2>7. QED
      BY <1>5, <2>6 DEF OwnersInv
  <1>8. QED
    BY <1>6, <1>7

LEMMA OwnersListStep ==
  ASSUME OwnershipInv, OwnersInv,
         \/ WorldVisits
         \/ \E m \in Maps : MapAdds(m) \/ MapForgets(m) \/ MapVisits(m)
  PROVE  OwnersInv'
  <1>1. CASE WorldVisits
    <2> DEFINE q == "enter"
    <2>1. /\ at' = [at EXCEPT ![World] = q] /\ \E s : on' = [on EXCEPT ![World] = s]
          /\ q \notin PastTheTest /\ UNCHANGED <<listed, mapOf, usurped>>
          /\ (run' = "up" => run = "up") /\ World \in Threads
      BY <1>1, Names DEF WorldVisits, Take, listVars, history, lateVars, PastTheTest
    <2> HIDE DEF q
    <2>2. QED
      BY <2>1, OwnersGoOn
  <1>2. ASSUME NEW m \in Maps, MapForgets(m) PROVE OwnersInv'
    <2> DEFINE q == "drop"
    <2>1. /\ at' = [at EXCEPT ![m] = q] /\ \E s : on' = [on EXCEPT ![m] = s]
          /\ q \notin PastTheTest /\ UNCHANGED <<listed, mapOf, usurped>>
          /\ run' = run /\ m \in Threads
      BY <1>2, Names DEF MapForgets, Take, history, lateVars, PastTheTest
    <2> HIDE DEF q
    <2>2. QED
      BY <2>1, OwnersGoOn
  <1>3. ASSUME NEW m \in Maps, MapVisits(m) PROVE OwnersInv'
    <2> DEFINE q == "spell"
    <2>1. /\ at' = [at EXCEPT ![m] = q] /\ on' = [on EXCEPT ![m] = mapList[m]]
          /\ UNCHANGED <<listed, mapOf, usurped>> /\ mapOf[mapList[m]] = m
          /\ run' = run /\ m \in Threads /\ m # World
      BY <1>3, Names DEF MapVisits, Take, listVars, history, lateVars
    <2>2. on'[m] = mapList[m]
      BY <2>1, Parts DEF ThreadsTyped
    <2>3. MayBePast(m)
      BY <2>1, <2>2 DEF MayBePast, MapArgument
    <2> HIDE DEF q
    <2>4. QED
      BY <2>1, <2>3, OwnersGoOn
  <1>4. ASSUME NEW m \in Maps, MapAdds(m) PROVE OwnersInv'
    <2>1. UNCHANGED <<listed, mapOf, usurped>> /\ run' = run /\ m \in Threads
      BY <1>4, Names DEF MapAdds, history, lateVars
    <2>2. CASE UNCHANGED threadVars
      <3>1. \A t \in Threads : MayBePast(t)
        BY <2>2 DEF MayBePast, threadVars
      <3>2. QED
        BY <2>1, <3>1, OwnersKept
    <2>3. CASE Take(m, mapList[m], "drop")
      <3> DEFINE q == "drop"
      <3>1. /\ at' = [at EXCEPT ![m] = q] /\ \E s : on' = [on EXCEPT ![m] = s]
            /\ q \notin PastTheTest
        BY <2>3 DEF Take, PastTheTest
      <3> HIDE DEF q
      <3>2. QED
        BY <2>1, <3>1, OwnersGoOn
    <2>4. QED
      BY <1>4, <2>2, <2>3 DEF MapAdds
  <1>5. QED
    BY <1>1, <1>2, <1>3, <1>4

LEMMA OwnersOutsideStep ==
  ASSUME OwnershipInv, OwnersInv,
         \/ \E s \in Sessions : Arrive(s) \/ Disconnect(s) \/ QueryAnswered(s)
         \/ \E m \in Maps : MapRemoves(m)
         \/ KickAll \/ LastUpdateSkips \/ UnloadAll \/ UNCHANGED vars
  PROVE  OwnersInv'
  <1>1. CASE KickAll \/ LastUpdateSkips \/ UnloadAll
    <2>1. run' # "up"
      BY <1>1 DEF KickAll, LastUpdateSkips, UnloadAll
    <2>2. QED
      BY <2>1 DEF OwnersInv, OneOwner, OnePast
  <1>2. CASE \/ \E s \in Sessions : Arrive(s) \/ Disconnect(s) \/ QueryAnswered(s)
             \/ \E m \in Maps : MapRemoves(m)
             \/ UNCHANGED vars
    <2>1. UNCHANGED <<listed, mapOf, usurped, run, at, on>>
      BY <1>2 DEF Arrive, Disconnect, QueryAnswered, MapRemoves, vars, listVars, threadVars, history,
         lateVars
    <2>2. \A t \in Threads : MayBePast(t)
      BY <2>1 DEF MayBePast
    <2>3. QED
      BY <2>1, <2>2, OwnersKept
  <1>3. QED
    BY <1>1, <1>2

LEMMA OwnersInit == Init => OwnersInv
  BY DEF Init, OwnersInv, OneOwner, OnePast, PastTheTest

LEMMA OwnersNext ==
  ASSUME OwnershipInv, OwnersInv, [Next]_vars
  PROVE  OwnersInv'
  <1>1. ASSUME NEW m \in Maps, MapNext(m)
        PROVE  OwnersInv'
    <2>1. m \in Threads
      BY Names
    <2>2. QED
      BY <1>1, <2>1, OwnersListStep, OwnersSetMapStep, OwnersVisitStep, OwnersOutsideStep DEF MapNext
  <1>2. ASSUME NEW t \in Threads, UpdateNext(t) \/ HandOverNext(t)
        PROVE  OwnersInv'
    <2>1. \/ LocalNext(t) \/ HandlerTeleport(t) \/ DropReference(t)
          \/ HandOverTest(t) \/ HandOverAdds(t) \/ HandOverSetsMap(t) \/ LoginSetsMap(t)
          \/ HandlePlayerLogin(t)
      BY <1>2 DEF UpdateNext, HandOverNext, LocalNext
    <2>2. QED
      BY <2>1, OwnersVisitStep, OwnersSetMapStep
  <1>3. QED
    BY <1>1, <1>2, OwnersOutsideStep, OwnersWorldStep, OwnersListStep DEF Next

LEMMA Owners == Spec => []OwnersInv
  <1>1. Init => OwnersInv
    BY OwnersInit
  <1>2. OwnershipInv /\ OwnersInv /\ [Next]_vars => OwnersInv'
    BY OwnersNext
  <1>3. QED
    BY <1>1, <1>2, OwnershipInvariant, PTL DEF Spec

(***************************************************************************)
(* While the server is up, no two threads handle packets of one session at *)
(* a time, although m_sUpdate is tested and set in two steps: only the     *)
(* owner passes the test of m_map in Update's loop, and whoever hands the  *)
(* session over is done with it.  This holds for every session but those   *)
(* whose m_map was set by a thread that owned them no more: SafeTeleport's *)
(* second SetMap, or a login that comes after a replacement.               *)
(***************************************************************************)
THEOREM OwnershipOneHandler == Spec => []OneHandler
  <1>1. OwnersInv => OneHandler
    BY DEF OwnersInv, OnePast, OneHandler, Handling, PastTheTest
  <1>2. QED
    BY <1>1, Owners, PTL

(***************************************************************************)
(* Nor are two threads in LogoutPlayer for one session, although its flag, *)
(* too, is tested and then set, with the same exception.                   *)
(***************************************************************************)
THEOREM OwnershipOneInLogout == Spec => []OneInLogout
  <1>1. OwnersInv => OneInLogout
    BY DEF OwnersInv, OnePast, OneInLogout, LoggingOut, PastTheTest
  <1>2. QED
    BY <1>1, Owners, PTL
=============================================================================
