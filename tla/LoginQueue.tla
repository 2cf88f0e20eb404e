----------------------------- MODULE LoginQueue -----------------------------
(***************************************************************************)
(* The world's session list and its login queue (World.cpp).               *)
(*                                                                         *)
(* Network threads create a WorldSession when a client has authenticated   *)
(* and, after one more database round trip, hand it to World::AddSession.  *)
(* The world thread runs UpdateSessions: it first adds every session that  *)
(* waits in addSessQueue, then updates the listed ones and drops those     *)
(* whose connection is gone.  A session beyond the account limit waits in  *)
(* m_QueuedPlayer until RemoveQueuedPlayer lets the first one in.          *)
(*                                                                         *)
(* m_sessionCount counts WorldSession objects, not listed sessions: the    *)
(* constructor adds one on a network thread, the destructor takes one off  *)
(* on whichever thread drops the last reference.  It is a plain uint32.    *)
(***************************************************************************)
EXTENDS Naturals, FiniteSets, SequencesExt

CONSTANTS
  Accounts, Sessions,
  AccountOf,      \* AccountOf[s]: the account a session object belongs to
  NoSession,
  StaffSets,      \* which accounts may be the staff
  Limit,          \* m_playerLimit: MaxAccountsOnline
  Threads,        \* the network threads
  Modulus         \* stands for 2^32, the range of m_sessionCount

ASSUME LoginQueueConstants ==
  /\ AccountOf \in [Sessions -> Accounts] /\ IsFiniteSet(Sessions)
  /\ NoSession \notin Sessions
  /\ StaffSets \subseteq SUBSET Accounts
  /\ Limit \in Nat /\ Modulus \in Nat /\ Modulus > Cardinality(Sessions)

VARIABLES
  creating,     \* creating[t]: the session thread t is constructing, and its load
  authing,      \* constructed, not yet handed to World::AddSession
  pending,      \* addSessQueue
  world,        \* m_sessions: account -> session
  queue,        \* m_QueuedPlayer
  inQueue,      \* the sessions whose m_inQueue is set
  initializing, \* InitializeSession was called, its callback has not run
  admitted,     \* history: the sessions InitializeSession was called for
  offline,      \* the sessions whose socket is closed (by the client or a kick)
  lingering,    \* replaced on a map: unlisted, still referenced by the Map
  sessionCount, \* m_sessionCount
  lostUpdate,   \* history: a store overwrote another thread's change of it
  tolerance,    \* CONFIG_INTERVAL_DISCONNECT_TOLERANCE is not zero; never changes
  staff,        \* the accounts above SEC_PLAYER, never queued; never changes
  disconnects,  \* the accounts in m_disconnects
  phase,        \* where the world thread is: "idle", "add", "update"
  todo          \* the accounts UpdateSessions' second loop has yet to visit

creationVars == <<creating, authing, lostUpdate>>
queueVars    == <<queue, inQueue, initializing, admitted, tolerance, staff>>
listVars     == <<world, queueVars, lingering, disconnects>>
vars == <<creationVars, pending, listVars, offline, sessionCount, phase, todo>>

Listed == {world[a] : a \in Accounts} \ {NoSession}
Waiting == ToSet(queue)
Active == Listed \ Waiting
Constructed == authing \cup ToSet(pending) \cup Listed \cup Waiting \cup lingering

TypeOK ==
  /\ creating \in [Threads -> [session : Sessions \cup {NoSession}, load : 0..(Modulus - 1)]]
  /\ authing \subseteq Sessions /\ lostUpdate \in BOOLEAN
  /\ pending \in Seq(Sessions)
  /\ world \in [Accounts -> Sessions \cup {NoSession}]
  /\ \A a \in Accounts : world[a] # NoSession => AccountOf[world[a]] = a
  /\ queue \in Seq(Sessions)
  /\ inQueue \subseteq Sessions /\ initializing \subseteq Sessions
  /\ admitted \subseteq Sessions /\ offline \subseteq Sessions
  /\ lingering \subseteq Sessions
  /\ sessionCount \in 0..(Modulus - 1)
  /\ disconnects \subseteq Accounts /\ tolerance \in BOOLEAN
  /\ staff \in StaffSets
  /\ phase \in {"idle", "add", "update"} /\ todo \subseteq Accounts

Init ==
  /\ creating = [t \in Threads |-> [session |-> NoSession, load |-> 0]]
  /\ authing = {} /\ pending = <<>> /\ lostUpdate = FALSE
  /\ world = [a \in Accounts |-> NoSession]
  /\ queue = <<>> /\ inQueue = {} /\ initializing = {} /\ admitted = {}
  /\ offline = {} /\ lingering = {}
  /\ sessionCount = 0 /\ disconnects = {} /\ tolerance \in BOOLEAN
  /\ staff \in StaffSets
  /\ phase = "idle" /\ todo = {}

Used == Constructed \cup offline \cup admitted \cup {creating[t].session : t \in Threads}
-----------------------------------------------------------------------------
(* uint32 arithmetic.  The subtraction of the queue's size is done in       *)
(* size_t, whose wrap-around is "more than any limit" as well.             *)
Plus(n)  == IF n = Modulus - 1 THEN 0 ELSE n + 1
Minus(n) == IF n = 0 THEN Modulus - 1 ELSE n - 1

ActiveSessionCount(count, q) ==
  IF count >= Len(q) THEN count - Len(q) ELSE Modulus - 1

(* IncreaseSessionCount in the constructor, on a network thread: a load,   *)
(* and a store that may overwrite what other threads have done since.      *)
CreateBegin(t, s) ==
  /\ creating[t].session = NoSession
  /\ s \notin Used
  /\ creating' = [creating EXCEPT ![t] = [session |-> s, load |-> sessionCount]]
  /\ UNCHANGED <<authing, lostUpdate, pending, listVars, offline, sessionCount, phase, todo>>

CreateEnd(t) ==
  /\ creating[t].session # NoSession
  /\ sessionCount' = Plus(creating[t].load)
  /\ lostUpdate' = (lostUpdate \/ sessionCount # creating[t].load)
  /\ authing' = authing \cup {creating[t].session}
  /\ creating' = [creating EXCEPT ![t].session = NoSession]
  /\ UNCHANGED <<pending, listVars, offline, phase, todo>>

(* The permissions are loaded and the client has acknowledged encryption:  *)
(* World::AddSession.  A client acknowledges once; HandleEnableEncryptionAck *)
(* does not test that it has not done so before.                           *)
AddSession(s) ==
  /\ s \in authing
  /\ authing' = authing \ {s}
  /\ pending' = Append(pending, s)
  /\ UNCHANGED <<creating, lostUpdate, listVars, offline, sessionCount, phase, todo>>

(* Mutant: the session is never destroyed.                                  *)
AuthDroppedUncounted(s) ==
  /\ s \in authing
  /\ authing' = authing \ {s}
  /\ offline' = offline \cup {s}
  /\ UNCHANGED <<creating, lostUpdate, pending, listVars, sessionCount, phase, todo>>

(* Or the socket is gone by then, and the session dies with it.            *)
AuthDropped(s) ==
  /\ s \in authing
  /\ authing' = authing \ {s}
  /\ offline' = offline \cup {s}
  /\ sessionCount' = Minus(sessionCount)
  /\ UNCHANGED <<creating, lostUpdate, pending, listVars, phase, todo>>

(* The client closes the connection, at any time.                          *)
Disconnect(s) ==
  /\ s \in (ToSet(pending) \cup Listed) \ offline
  /\ offline' = offline \cup {s}
  /\ UNCHANGED <<creationVars, pending, listVars, sessionCount, phase, todo>>
-----------------------------------------------------------------------------
(***************************************************************************)
(* RemoveQueuedPlayer as a function from one record of the state it reads  *)
(* and writes to the next.  It counts the active sessions - one less if    *)
(* the removed one was not queued - and, below the limit, lets the first   *)
(* waiting one in.                                                         *)
(***************************************************************************)
Without(q, s) ==
  IF s \in ToSet(q)
  THEN RemoveAt(q, CHOOSE i \in 1..Len(q) : q[i] = s /\ \A j \in 1..(i - 1) : q[j] # s)
  ELSE q

AdmitFirst(st) ==
  [st EXCEPT !.queue = Tail(@),
             !.initializing = @ \cup {Head(st.queue)},
             !.admitted = @ \cup {Head(st.queue)}]

(* Mutant: the session is admitted and stays in the queue.                  *)
RemoveQueuedPlayerNoPop(st, s) ==
  LET found == s \in ToSet(st.queue)
      sessions == ActiveSessionCount(st.count, st.queue)
      discounted == IF ~found /\ sessions > 0 THEN sessions - 1 ELSE sessions
      without == [st EXCEPT !.queue = Without(@, s),
                            !.inQueue = IF found THEN @ \ {s} ELSE @]
  IN IF (Limit = 0 \/ discounted < Limit) /\ without.queue # <<>>
     THEN [AdmitFirst(without) EXCEPT !.queue = without.queue] ELSE without

RemoveQueuedPlayer(st, s) ==
  LET found == s \in ToSet(st.queue)
      sessions == ActiveSessionCount(st.count, st.queue)
      discounted == IF ~found /\ sessions > 0 THEN sessions - 1 ELSE sessions
      without == [st EXCEPT !.queue = Without(@, s),
                            !.inQueue = IF found THEN @ \ {s} ELSE @]
  IN IF (Limit = 0 \/ discounted < Limit) /\ without.queue # <<>>
     THEN AdmitFirst(without) ELSE without

State == [queue |-> queue, inQueue |-> inQueue, initializing |-> initializing,
          admitted |-> admitted, count |-> sessionCount]

SetState(st) ==
  /\ queue' = st.queue /\ inQueue' = st.inQueue
  /\ initializing' = st.initializing /\ admitted' = st.admitted
  /\ sessionCount' = st.count /\ UNCHANGED <<tolerance, staff>>

(* difftime(i->second, now) of a past i->second is never positive, so it is *)
(* always below the tolerance: an entry counts as recent for ever.         *)
HasRecentlyDisconnected(s) == tolerance /\ AccountOf[s] \in disconnects
-----------------------------------------------------------------------------
(* UpdateSessions begins.                                                  *)
UpdateSessions ==
  /\ phase = "idle"
  /\ phase' = "add"
  /\ UNCHANGED <<creationVars, pending, listVars, offline, sessionCount, todo>>

(* Mutant: > for >=.                                                        *)
EnterOffByOne(s, st, replaced) ==
  LET counted == IF replaced THEN st.count ELSE Minus(st.count) IN
  IF Limit > 0 /\ counted > Limit /\ AccountOf[s] \notin staff
       /\ ~HasRecentlyDisconnected(s)
  THEN SetState([st EXCEPT !.inQueue = @ \cup {s}, !.queue = Append(@, s)])
  ELSE SetState([st EXCEPT !.initializing = @ \cup {s}, !.admitted = @ \cup {s}])

(* AddSession_ once the session listed for the account, if any, is gone:   *)
(* list s, then queue it or let it in.  "replaced" is decrease_session     *)
(* cleared: the old one was queued.                                        *)
Enter(s, st, replaced) ==
  LET counted == IF replaced THEN st.count ELSE Minus(st.count) IN
  IF Limit > 0 /\ counted >= Limit /\ AccountOf[s] \notin staff
       /\ ~HasRecentlyDisconnected(s)
  THEN SetState([st EXCEPT !.inQueue = @ \cup {s}, !.queue = Append(@, s)])
  ELSE SetState([st EXCEPT !.initializing = @ \cup {s}, !.admitted = @ \cup {s}])

AddNew(s) ==
  /\ world[AccountOf[s]] = NoSession
  /\ Enter(s, State, FALSE)
  /\ UNCHANGED <<lingering, offline>>

(* Only an admitted session that has been answered can be in the world.    *)
MayBeOnMap(s) == IF s \in Waiting \cup initializing THEN {FALSE} ELSE BOOLEAN

Destroyed(st, s, onMap) ==
  IF onMap THEN st
  ELSE [st EXCEPT !.count = Minus(@), !.initializing = @ \ {s}]

(* The old session of the account is kicked, leaves the queue and is       *)
(* destroyed now - or, when a Map still lists it, when the Map drops it.   *)
AddReplacing(s) ==
  LET old == world[AccountOf[s]]
      st  == RemoveQueuedPlayer(State, old) IN
  /\ old # NoSession
  /\ \E onMap \in MayBeOnMap(old) :
       /\ lingering' = IF onMap THEN lingering \cup {old} ELSE lingering
       /\ Enter(s, Destroyed(st, old, onMap), old \in Waiting)
  /\ offline' = offline \cup {old}

(* Mutant: listed under the account of the last session to arrive.          *)
AddSessionMisfiled ==
  /\ phase = "add" /\ pending # <<>>
  /\ pending' = Tail(pending)
  /\ LET s == Head(pending) IN
       /\ AddNew(s) \/ AddReplacing(s)
       /\ world' = [world EXCEPT ![AccountOf[Last(pending)]] = s]
  /\ UNCHANGED <<creationVars, disconnects, phase, todo>>

AddSession_ ==
  /\ phase = "add" /\ pending # <<>>
  /\ pending' = Tail(pending)
  /\ LET s == Head(pending) IN
       /\ AddNew(s) \/ AddReplacing(s)
       /\ world' = [world EXCEPT ![AccountOf[s]] = s]
  /\ UNCHANGED <<creationVars, disconnects, phase, todo>>

AddLoopEnds ==
  /\ phase = "add" /\ pending = <<>>
  /\ phase' = "update"
  /\ todo' = {a \in Accounts : world[a] # NoSession}
  /\ UNCHANGED <<creationVars, pending, listVars, offline, sessionCount>>

(* The second loop: the session stays ...                                  *)
UpdateStays(a) ==
  /\ phase = "update" /\ a \in todo
  /\ todo' = todo \ {a}
  /\ UNCHANGED <<creationVars, pending, listVars, offline, sessionCount, phase>>

(* ... or its Update returns false: RemoveQueuedPlayer twice, the          *)
(* disconnect is remembered, the session is unlisted and destroyed.        *)
UpdateLeaves(a) ==
  /\ phase = "update" /\ a \in todo
  /\ world[a] \in offline
  /\ LET once  == RemoveQueuedPlayer(State, world[a])
         twice == RemoveQueuedPlayer(once, world[a])
     IN SetState([twice EXCEPT !.count = Minus(@),
                               !.initializing = @ \ {world[a]}])
  /\ disconnects' = IF world[a] \notin Waiting /\ tolerance
                    THEN disconnects \cup {a} ELSE disconnects
  /\ world' = [world EXCEPT ![a] = NoSession]
  /\ todo' = todo \ {a}
  /\ UNCHANGED <<creationVars, pending, lingering, offline, phase>>

UpdateLoopEnds ==
  /\ phase = "update" /\ todo = {}
  /\ phase' = "idle"
  /\ UNCHANGED <<creationVars, pending, listVars, offline, sessionCount, todo>>

(* InitializeSessionCallback, run by the session's Update.                 *)
InitializeSessionCallback(s) ==
  /\ s \in initializing /\ s \in Listed
  /\ initializing' = initializing \ {s}
  /\ inQueue' = inQueue \ {s}
  /\ UNCHANGED <<creationVars, pending, world, queue, admitted, tolerance, staff, lingering,
                 disconnects, offline, sessionCount, phase, todo>>

(* The map thread drops its reference to a replaced session.               *)
MapDrops(s) ==
  /\ s \in lingering
  /\ lingering' = lingering \ {s}
  /\ sessionCount' = Minus(sessionCount)
  /\ UNCHANGED <<creationVars, pending, world, queueVars, disconnects,
                 offline, phase, todo>>
-----------------------------------------------------------------------------
Next ==
  \/ \E t \in Threads, s \in Sessions : CreateBegin(t, s)
  \/ \E t \in Threads : CreateEnd(t)
  \/ \E s \in Sessions :
       \/ AddSession(s) \/ AuthDropped(s) \/ Disconnect(s)
       \/ InitializeSessionCallback(s) \/ MapDrops(s)
  \/ UpdateSessions \/ AddSession_ \/ AddLoopEnds
  \/ \E a \in Accounts : UpdateStays(a) \/ UpdateLeaves(a)
  \/ UpdateLoopEnds

Spec == Init /\ [][Next]_vars
-----------------------------------------------------------------------------
(***************************************************************************)
(* The list and the queue agree.  No session waits twice; a waiting one is *)
(* listed, was never let in, and is still marked m_inQueue, so that no     *)
(* character-list packet of it is served; a listed session marked m_inQueue *)
(* waits or is about to get its answer.  Replacing, leaving and letting in *)
(* each touch the list, the queue and the mark in a different order.       *)
(***************************************************************************)
QueueConsistent ==
  /\ IsInjective(queue)
  /\ Waiting \subseteq Listed /\ Waiting \cap admitted = {}
  /\ inQueue \cap Listed = Waiting \cup (inQueue \cap initializing)
  /\ Waiting \subseteq inQueue

(* The counter says how many session objects exist, whatever is being      *)
(* replaced, dropped, queued or still held by a map: every decision about  *)
(* the limit is taken from it.  Only a lost update of the plain integer    *)
(* makes it wrong.                                                         *)
CountIsSessions ==
  ~lostUpdate => sessionCount = Cardinality(Constructed)

(* MaxAccountsOnline: the players' sessions let in are never more than the *)
(* limit - staff and accounts with a remembered disconnect are exempt -    *)
(* although RemoveQueuedPlayer runs twice for one departure and the        *)
(* counter it reads also counts sessions that are not listed yet.          *)
LimitRespected ==
  (~lostUpdate /\ Limit > 0) => Cardinality({s \in Active : AccountOf[s] \notin staff \cup disconnects}) <= Limit
-----------------------------------------------------------------------------
(***************************************************************************)
(* What these rest on.  A session object is in one place at a time - being *)
(* constructed, authenticating, pending, listed, lingering - and one that  *)
(* was let in or has gone offline never comes back.                        *)
(***************************************************************************)
Creating == {creating[t].session : t \in Threads} \ {NoSession}

OnePlace ==
  /\ \A t, u \in Threads :
       creating[t].session = creating[u].session /\ creating[t].session # NoSession => t = u
  /\ Creating \cap (Constructed \cup offline \cup admitted) = {}
  /\ IsInjective(pending)
  /\ authing \cap ToSet(pending) = {}
  /\ (authing \cup ToSet(pending)) \cap (Listed \cup lingering \cup admitted) = {}
  /\ lingering \cap Listed = {} /\ lingering \subseteq offline

(* The queue, the marks and the answers under way, against the list L.     *)
Agree(st, L) ==
  /\ IsInjective(st.queue) /\ ToSet(st.queue) \subseteq L
  /\ ToSet(st.queue) \cap st.admitted = {}
  /\ st.initializing \subseteq L \cap st.admitted
  /\ ToSet(st.queue) \subseteq st.inQueue
  /\ st.inQueue \subseteq ToSet(st.queue) \cup st.admitted
  /\ st.inQueue \cap L \subseteq ToSet(st.queue) \cup st.initializing

LoginInv == TypeOK /\ OnePlace /\ Agree(State, Listed) /\ CountIsSessions /\ LimitRespected
=============================================================================
