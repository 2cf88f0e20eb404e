--------------------------- MODULE DungeonFinder ---------------------------
(***************************************************************************)
(* The dungeon finder: lfg::LFGMgr with its queues (LFGQueue.cpp), the     *)
(* data of players and groups (LFGPlayerData.cpp, LFGGroupData.cpp), the   *)
(* group and player scripts (LFGScripts.cpp) and the places of Group.cpp   *)
(* and Player.cpp that call them.                                          *)
(*                                                                         *)
(* A player may wait in several queues at once.  Every World::Update looks *)
(* for groups in each queue; a match is a proposal its players answer, and *)
(* when all agree they are put into one group.  Teleports pause and resume *)
(* the queues of a player, from another thread and without the lock of the *)
(* manager.                                                                *)
(*                                                                         *)
(* Each queue stands for one dungeon, a player offers one role, and there  *)
(* is one team and no ignore list.  All stores of LFGMgr are the fields of *)
(* the variable lfg, because the handlers call each other in sequence on   *)
(* them; an operator that takes and returns such a record is one function  *)
(* of the code.                                                            *)
(***************************************************************************)
EXTENDS Integers, Sequences, FiniteSets, SequencesExt, FiniteSetsExt, Functions

CONSTANTS
    Players,
    QueueOrder,     \* the queues, in the order of the std::map QueuesStore
    Party,          \* the group players formed themselves
    Starts,         \* where runs start: who is in Party, the queues whose
                    \* dungeon is not locked for each player, and bounds on
                    \* the requests to join and the teleports that follow
    NoGroup,        \* ObjectGuid::Empty
    NoQueue,        \* dungeon or queue 0
    Role,           \* the role each player offers
    Needed,         \* how many of each role the dungeon takes
    MinSize, MaxSize, \* the dungeon's group sizes
    MaxQueues,      \* DungeonFinder.MaxQueues
    MaxProposals    \* bound: proposals made in a run

Queues == Range(QueueOrder)
LfgGroups == 1..MaxProposals
Groups == {Party} \cup LfgGroups
Entries == Players \cup Groups

\* A role a dungeon does not take is masked out of a request, so a player's
\* role is one of those needed.
ASSUME FinderAssumption ==
    /\ IsFiniteSet(Players) /\ QueueOrder \in Seq(Queues)
    /\ MinSize \in 1..MaxSize
    /\ MaxSize \in Nat /\ MaxQueues \in Nat \ {0} /\ MaxProposals \in Nat
    /\ Role \in [Players -> DOMAIN Needed]
    /\ \A r \in DOMAIN Needed : Needed[r] \in Nat \ {0}
    /\ Starts \subseteq [party : SUBSET Players, open : [Players -> SUBSET Queues],
                         joins : Nat, trips : Nat]
    /\ \A s \in Starts : Cardinality(s.party) # 1
    /\ Party \notin LfgGroups /\ Players \cap Groups = {}
    /\ NoGroup \notin Players \cup Groups /\ NoQueue \notin Queues

VARIABLES
    lfg,    \* the stores of LFGMgr and the players' groups, see TypeOK
    phase,  \* where World's thread is in LFGMgr::Update: 0 outside, i about
            \* to search the i-th queue, beyond the last about to announce
    left,   \* the requests to join and the teleports a run still may make
    outdated \* history: the dungeon groups that took in a player while the
            \* finder still held them, see InFinder

vars == <<lfg, phase, left, outdated>>

-----------------------------------------------------------------------------
States == {"none", "rolecheck", "queued", "proposal", "dungeon", "finished",
           "waite"}
Lasting == {"none", "dungeon", "finished"}
Verdicts == {"no", "less", "bad", "match"}

NoPlayerData == [now |-> "none", old |-> "none", group |-> NoGroup]
NoGroupData == [now |-> "none", old |-> "none", dungeon |-> NoQueue,
                queue |-> NoQueue, players |-> {}]

\* LfgPlayerData::SetState and RestoreState, LfgGroupData's likewise: a
\* state that lasts is also the one to come back to.
MovedTo(d, s) == [d EXCEPT !.now = s, !.old = IF s \in Lasting THEN s ELSE @]
Restored(d) == [d EXCEPT !.now = d.old]

SetGroupState(L, g, s) ==
    LET d == MovedTo(L.gr[g], s)
    IN  [L EXCEPT !.gr[g] = IF s = "none" THEN [d EXCEPT !.dungeon = NoQueue] ELSE d]
SetStates(L, S, q, s) ==
    [L EXCEPT !.pl = [p \in Players |->
        IF p \in S THEN [L.pl[p] EXCEPT ![q] = MovedTo(@, s)] ELSE L.pl[p]]]
RestoreStates(L, S, q) ==
    [L EXCEPT !.pl = [p \in Players |->
        IF p \in S THEN [L.pl[p] EXCEPT ![q] = Restored(@)] ELSE L.pl[p]]]
RestoreGroup(L, g) == [L EXCEPT !.gr[g] = Restored(@)]

GetState(L, e, q) == IF e \in Groups THEN L.gr[e].now ELSE L.pl[e][q].now
GetOldState(L, e, q) == IF e \in Groups THEN L.gr[e].old ELSE L.pl[e][q].old
AllQueued(L, es, q) == \A e \in es : GetState(L, e, q) = "queued"
IsLfgGroup(L, e) == e \in Groups /\ L.gr[e].old # "none"

\* The states of the players in all their queues but q; NoQueue: in all.
InOthers(L, S, q, s) ==
    [L EXCEPT !.pl = [p \in Players |-> [r \in Queues |->
        IF p \in S /\ r \in L.mem[p] \ {q} THEN MovedTo(@[p][r], s) ELSE @[p][r]]]]
StopAllOtherQueue(L, S, q) == InOthers(L, S, q, "waite")
StartAllOtherQueue(L, S, q) == InOthers(L, S, q, "queued")

-----------------------------------------------------------------------------
(* LFGQueue *)

\* std::list::remove, for each entry of E.
Minus(s, E) ==
    LET kept[i \in 0..Len(s)] == IF i = 0 THEN <<>>
                                 ELSE IF s[i] \in E THEN kept[i - 1]
                                 ELSE Append(kept[i - 1], s[i])
    IN  kept[Len(s)]
Listed(L, q) == Range(L.fresh[q]) \cup Range(L.cur[q])

\* Mutant: the entry stays in the list of those already tried.
RemoveEntriesKeepsCurrent(L, q, E) ==
    [L EXCEPT !.fresh[q] = Minus(@, E),
              !.data[q] = Restrict(@, DOMAIN @ \ E),
              !.cache[q] = Restrict(@, {k \in DOMAIN @ : k \cap E = {}})]

\* LFGQueue::RemoveFromQueue, for each entry of E.
RemoveEntries(L, q, E) ==
    [L EXCEPT !.fresh[q] = Minus(@, E),
              !.cur[q] = Minus(@, E),
              !.data[q] = Restrict(@, DOMAIN @ \ E),
              !.cache[q] = Restrict(@, {k \in DOMAIN @ : k \cap E = {}})]

AddQueueData(L, q, e, S) ==
    [L EXCEPT !.data[q] = [x \in DOMAIN @ \cup {e} |-> IF x = e THEN S ELSE @[x]],
              !.fresh[q] = Append(@, e)]

\* Mutant: only entries without queue data are listed.
AddToQueueInverted(L, q, s) ==
    [L EXCEPT !.fresh[q] = @ \o Minus(s, DOMAIN L.data[q])]

\* LFGQueue::AddToQueue, for each entry of s.
AddToQueue(L, q, s) ==
    [L EXCEPT !.fresh[q] = @ \o Minus(s, Entries \ DOMAIN L.data[q])]

\* Mutant: one player too many passes.
RolesFitOneMore(S) ==
    \A r \in DOMAIN Needed : Cardinality({p \in S : Role[p] = r}) <= Needed[r] + 1

\* CheckGroupRoles for players that offer one role each.
RolesFit(S) ==
    \A r \in DOMAIN Needed : Cardinality({p \in S : Role[p] = r}) <= Needed[r]

NumPlayers(L, q, check) ==
    Cardinality({x \in (1..Len(check)) \X Players : x[2] \in L.data[q][check[x[1]]]})

Cached(L, q, check, v) ==
    [v |-> v,
     L |-> [L EXCEPT !.cache[q] =
               [k \in DOMAIN @ \cup {Range(check)} |->
                   IF k = Range(check) THEN v ELSE @[k]]]]

\* AddProposal: the entries leave the two lists but keep their queue data.
AddProposal(L, q, check, isNew) ==
    LET S == UNION {L.data[q][e] : e \in Range(check)}
        From(p) == LET E == {e \in Range(check) \cap Groups : p \in L.data[q][e]}
                   IN  IF E = {} THEN NoGroup ELSE CHOOSE e \in E : TRUE
        own == {e \in Range(check) : IsLfgGroup(L, e)}
        grp == IF own = {} THEN NoGroup ELSE CHOOSE e \in own : TRUE
        pr == [queue |-> q, entries |-> check, group |-> grp, isNew |-> isNew,
               from |-> [p \in S |-> From(p)],
               answer |-> [p \in S |-> IF ~isNew /\ From(p) = grp /\ grp # NoGroup
                                       THEN "agree" ELSE "pending"]]
    IN  [L EXCEPT !.fresh[q] = Minus(@, Range(check)),
                  !.cur[q] = Minus(@, Range(check)),
                  !.last = @ + 1,
                  !.prop = [i \in DOMAIN @ \cup {L.last + 1} |->
                               IF i = L.last + 1 THEN pr ELSE @[i]]]

\* CheckCompatibility of the entries in check, after its tail was checked.
CheckOne(L, q, check) ==
    LET n == NumPlayers(L, q, check)
        S == UNION {L.data[q][e] : e \in Range(check)}
        lfgGroups == Cardinality({i \in DOMAIN check : IsLfgGroup(L, check[i])})
        isNew == lfgGroups # 1 \/ GetOldState(L, check[1], q) # "dungeon"
        enough == n >= (IF isNew THEN MaxSize ELSE MinSize)
    IN  CASE Len(check) = 1 /\ ~enough -> Cached(L, q, check, "less")
          [] lfgGroups > 1 \/ n > MaxSize -> Cached(L, q, check, "no")
          [] Len(check) > 1 /\ (Cardinality(S) # n \/ ~RolesFit(S)) ->
                Cached(L, q, check, "no")
          [] ~enough -> Cached(L, q, check, "less")
          [] ~AllQueued(L, Range(check), q) -> Cached(L, q, check, "bad")
          [] OTHER -> Cached(AddProposal(L, q, check, isNew), q, check, "match")

\* CheckCompatibility: the code checks the list without its front entry
\* first, and so on down to two entries; such a check may make a proposal of
\* its own.
CheckLonger(r, q, tail) ==
    IF r.v = "no" THEN Cached(r.L, q, tail, "no") ELSE CheckOne(r.L, q, tail)
CheckCompatibility(L, q, check) ==
    LET tail(k) == SubSeq(check, Len(check) - k + 1, Len(check))
        upTo[k \in 1..Len(check)] == IF k <= 2 THEN CheckOne(L, q, tail(k))
                                     ELSE CheckLonger(upTo[k - 1], q, tail(k))
    IN  IF Len(check) > MaxSize THEN [v |-> "no", L |-> L] ELSE upTo[Len(check)]

\* FindNewGroups up to its recursion: the cached verdict or a new one, and
\* a match once those whose states were bad are all queued.
BadNoMore(r, q, check) ==
    IF r.v = "bad" /\ AllQueued(r.L, Range(check), q)
    THEN Cached(r.L, q, check, "match")
    ELSE r
Verdict(L, q, check) ==
    BadNoMore(IF Range(check) \in DOMAIN L.cache[q]
              THEN [v |-> L.cache[q][Range(check)], L |-> L]
              ELSE CheckCompatibility(L, q, check),
              q, check)

\* FindNewGroups: the list of the others is passed by reference, so a list
\* of entries that is compatible but short is extended with the rest only.
With(acc, e, r) ==
    [check |-> IF r.v \in {"less", "match"} THEN Append(acc.check, e) ELSE acc.check,
     r |-> IF r.v \in {"less", "match"} THEN r ELSE [v |-> acc.r.v, L |-> r.L]]
TryWith(acc, q, e) ==
    IF acc.r.v # "less" \/ GetState(acc.r.L, e, q) = "waite" THEN acc
    ELSE With(acc, e, Verdict(acc.r.L, q, Append(acc.check, e)))
FindNewGroups(L, q, front) ==
    LET tried[i \in 0..Len(L.cur[q])] ==
            IF i = 0 THEN [check |-> <<front>>, r |-> Verdict(L, q, <<front>>)]
            ELSE TryWith(tried[i - 1], q, L.cur[q][i])
    IN  tried[Len(L.cur[q])].r

\* FindGroups: every new entry is tried once against the waiting ones.
Tried(r, q, e) ==
    IF r.v = "match" THEN r.L ELSE [r.L EXCEPT !.cur[q] = Append(@, e)]
TryEntry(M, q, e) ==
    IF e \notin Range(M.fresh[q]) THEN M
    ELSE Tried(FindNewGroups([M EXCEPT !.fresh[q] = Minus(@, {e})], q, e), q, e)
FindGroups(L, q) ==
    LET after[i \in 0..Len(L.fresh[q])] ==
            IF i = 0 THEN L ELSE TryEntry(after[i - 1], q, L.fresh[q][i])
    IN  after[Len(L.fresh[q])]

-----------------------------------------------------------------------------
(* Proposals, role checks and leaving *)

Drop(f, x) == Restrict(f, DOMAIN f \ {x})

\* RemoveProposal: who refused, or let the time pass, is put out with its
\* party; the others go back to the queue.
RemoveProposal(L, id, timeout) ==
    LET pr == L.prop[id]
        q == pr.queue
        S == DOMAIN pr.answer
        Home(p) == IF pr.from[p] = NoGroup THEN p ELSE pr.from[p]
        denied == {p \in S : pr.answer[p] \in IF timeout THEN {"deny", "pending"}
                                                         ELSE {"deny"}}
        out == {Home(p) : p \in denied}
        back == {p \in S : Home(p) \notin out}
        parties == {Home(p) : p \in S} \cap Groups
        states == SetStates(RestoreStates(StartAllOtherQueue(L, S, q), S \ back, q),
                            back, q, "queued")
        removed == RemoveEntries(
            [states EXCEPT
                !.gr = [g \in Groups |->
                          IF g \notin parties THEN @[g]
                          ELSE IF g \in out THEN Restored(@[g])
                          ELSE MovedTo(@[g], "queued")],
                !.mem = [p \in Players |-> IF p \in out THEN @[p] \ {q} ELSE @[p]],
                !.prop = Drop(@, id)], q, out)
    IN  AddToQueue(removed, q, Minus(pr.entries, out))

\* UpdateProposal with the answer "deny".
Decline(L, id, p) ==
    RemoveProposal([L EXCEPT !.prop[id].answer[p] = "deny"], id, FALSE)

\* UpdateRoleCheck: how is "abort", "no_role", or "role" for p's own role.
\* A check that ends any other way than by its roles fitting puts back the
\* states of members who are away, and of the others only after "no_role".
UpdateRoleCheck(L, g, p, how) ==
    LET old == L.chk[g]
        c == IF how = "role" THEN [old EXCEPT !.asked = @ \cup {p}, !.given = @ \cup {p}]
             ELSE old
        waiting == how = "role" /\ c.given # c.asked
        finished == how = "role" /\ c.given = c.asked /\ RolesFit(c.asked)
        ended == [L EXCEPT !.chk = Drop(@, g)]
    IN  CASE waiting -> [L EXCEPT !.chk[g] = c]
          [] finished ->
                AddQueueData(SetGroupState(SetStates(ended, c.asked, c.queue, "queued"),
                                           g, "queued"), c.queue, g, c.asked)
          [] OTHER ->
                RestoreGroup(RestoreStates(ended,
                    IF how = "no_role" THEN c.asked ELSE c.asked \cap L.away,
                    c.queue), g)

Forget(L, p, q) == [L EXCEPT !.mem[p] = @ \ {q}]

LeaveLfg(L, p, q) ==
    LET d == L.pl[p][q]
        in == {id \in DOMAIN L.prop : p \in DOMAIN L.prop[id].answer}
    IN  CASE d.now \in {"queued", "waite"} /\ d.group # NoGroup ->
                Forget(SetStates(SetGroupState(RemoveEntries(L, q, {d.group}),
                                               d.group, "none"),
                                 L.gr[d.group].players, q, "none"), p, q)
          [] d.now \in {"queued", "waite"} /\ d.group = NoGroup ->
                Forget(SetStates(RemoveEntries(L, q, {p}), {p}, q, "none"), p, q)
          [] d.now = "rolecheck" /\ d.group \in DOMAIN L.chk ->
                UpdateRoleCheck(L, d.group, p, "abort")
          [] d.now = "proposal" /\ in # {} ->
                Decline(L, Min(in), p)
          [] d.now \in {"dungeon", "finished"} ->
                Forget(SetStates(RemoveEntries(L, q, {p}), {p}, q, "none"), p, q)
          [] OTHER -> L

-----------------------------------------------------------------------------
(* Groups *)

Members(L, g) == {p \in Players : L.grp[p] = g}

\* Group::Disband, with RemoveGroupData called by its hook.
Disband(L, g) ==
    LET d == L.gr[g]
        freed == [L EXCEPT !.pl = [p \in Players |->
                    IF p \in d.players THEN [L.pl[p] EXCEPT ![d.queue].group = NoGroup]
                    ELSE L.pl[p]]]
        idle == IF d.now = "proposal" THEN freed
                ELSE SetStates(freed, d.players, d.queue, "none")
    IN  [idle EXCEPT !.gr[g] = NoGroupData,
                     !.grp = [p \in Players |-> IF @[p] = g THEN NoGroup ELSE @[p]]]

\* Group::RemoveMember with LFGGroupScript::OnRemoveMember; stay: the member
\* left alone is inside the dungeon, and a dungeon group then lives on.
RemoveMember(L, p, g, byFinder, stay) ==
    LET q == L.gr[g].queue
        other == StartAllOtherQueue(L, {p}, q)
        out == IF L.gr[g].now = "proposal" /\ byFinder THEN other
               ELSE LeaveLfg(other, p, q)
        M == IF g = Party THEN L
             ELSE [out EXCEPT !.pl[p][q].group = NoGroup, !.gr[g].players = @ \ {p}]
        n == Cardinality(Members(L, g))
        fewer == [M EXCEPT !.grp[p] = NoGroup]
    IN  CASE n <= (IF g = Party THEN 2 ELSE 1) -> Disband(M, g)
          [] g # Party /\ n = 2 /\ ~stay -> Disband(fewer, g)
          [] OTHER -> fewer

\* Mutant: the group's data is not told of the new member.
AddMemberUntold(L, p, g) ==
    LET q == L.gr[g].queue
    IN  [L EXCEPT !.pl[p][q].group = g, !.grp[p] = g]

\* Group::AddMember to a dungeon group with LFGGroupScript::OnAddMember.
AddMember(L, p, g) ==
    LET q == L.gr[g].queue
        single == IF L.pl[p][q].now = "queued" THEN LeaveLfg(L, p, q) ELSE L
        M == IF L.gr[g].now # "queued" THEN single
             ELSE SetGroupState(RemoveEntries(single, q, {g}), g, "none")
    IN  [M EXCEPT !.pl[p][q].group = g, !.gr[g].players = @ \cup {p}, !.grp[p] = g]

\* MakeNewGroup: players not in the world are passed over.  The group's first
\* player is added before the group has its queue, so only the later ones
\* get the group into their data of the queue.
LeaveOwn(L, p, g, stay) ==
    IF L.grp[p] \in {NoGroup, g} THEN L ELSE RemoveMember(L, p, L.grp[p], TRUE, stay)
Create(L, id, q, p) ==
    [L EXCEPT !.grp[p] = id,
              !.gr[id] = [now |-> "dungeon", old |-> "dungeon", dungeon |-> q,
                          queue |-> q, players |-> {p}]]
Enter(acc, id, q, p, stay) ==
    CASE acc.g = NoGroup ->
            [g |-> id, L |-> Create(LeaveOwn(acc.L, p, NoGroup, stay), id, q, p)]
      [] acc.g # NoGroup /\ acc.L.grp[p] # acc.g ->
            [g |-> acc.g, L |-> AddMember(LeaveOwn(acc.L, p, acc.g, stay), p, acc.g)]
      [] OTHER -> acc
MakeNewGroup(L, id, first, stay) ==
    LET pr == L.prop[id]
        alive == pr.group # NoGroup /\ Members(L, pr.group) # {}
        S == DOMAIN pr.answer \ L.away
        order == SetToSeq(S \cap {first}) \o SetToSeq(S \ {first})
        entered[i \in 0..Len(order)] ==
            IF i = 0 THEN [g |-> IF alive THEN pr.group ELSE NoGroup, L |-> L]
            ELSE Enter(entered[i - 1], id, pr.queue, order[i], stay)
    IN  entered[Len(order)].L

\* UpdateProposal once all agreed.  The entries are taken from the queue the
\* answer's ticket names, which the finder itself leaves 0.
Succeed(L, id, ticket, first, stay) ==
    LET pr == L.prop[id]
        M == SetStates(L, DOMAIN pr.answer, pr.queue, "dungeon")
        out == IF ticket = NoQueue THEN M ELSE RemoveEntries(M, ticket, Range(pr.entries))
    IN  [MakeNewGroup(out, id, first, stay) EXCEPT !.prop = Drop(@, id)]

-----------------------------------------------------------------------------
(* What players in the world do; m_lock keeps them out of LFGMgr while      *)
(* Update runs.                                                            *)

Idle == phase = 0 /\ UNCHANGED phase

\* JoinLfg; ok: no restriction on a member.  The old entry is removed before
\* the restrictions are looked at.
JoinLfg(p, chosen, ok) ==
    LET g == lfg.grp[p]
        e == IF g = NoGroup THEN p ELSE g
        continued == g \in LfgGroups /\ lfg.gr[g].now # "finished"
        q == IF continued THEN lfg.gr[g].dungeon ELSE chosen
        S == IF g = NoGroup THEN {p} ELSE Members(lfg, g)
        fits == Cardinality(S) <= MaxSize /\ \A x \in S : q \in lfg.open[x]
        L == IF GetState(lfg, e, q) = "queued" THEN RemoveEntries(lfg, q, {e}) ELSE lfg
        joined == [L EXCEPT !.mem[p] = @ \cup {q}]
    IN  /\ Idle /\ q \in Queues
        /\ Cardinality(lfg.mem[p]) < MaxQueues
        /\ left.joins > 0
        /\ lfg' = IF ~(ok /\ fits) THEN L
                  ELSE IF g = NoGroup
                  THEN SetStates(AddQueueData(joined, q, p, {p}), {p}, q, "queued")
                  ELSE UpdateRoleCheck(
                          SetStates(SetGroupState(
                              [joined EXCEPT !.chk = [x \in DOMAIN @ \cup {g} |->
                                  IF x = g THEN [queue |-> q, asked |-> S, given |-> {}]
                                  ELSE @[x]]],
                              g, "rolecheck"), S, q, "rolecheck"),
                          g, p, "role")
        /\ left' = IF lfg' = lfg THEN left ELSE [left EXCEPT !.joins = @ - 1]

\* HandleLfgCompleteRoleCheck.
AnswerRoleCheck(p, how) ==
    /\ Idle /\ UNCHANGED left /\ lfg.grp[p] \in DOMAIN lfg.chk
    /\ lfg' = UpdateRoleCheck(lfg, lfg.grp[p], p, how)

\* HandleLfgLeave.
Leave(p, q) ==
    /\ Idle /\ UNCHANGED left
    /\ lfg' = LeaveLfg(lfg, p, q)

\* HandleLfgProposalResponse: any proposal the player is in may be answered, the
\* one it was shown or another that Update never announced, and answered again.
Refuse(p, id) ==
    /\ Idle /\ UNCHANGED left
    /\ id \in DOMAIN lfg.prop /\ p \in DOMAIN lfg.prop[id].answer
    /\ lfg' = Decline(lfg, id, p)

\* Mutant: a player who has not answered yet counts as agreed.
AgreeForAll(p, id) ==
    /\ Idle /\ UNCHANGED left
    /\ id \in DOMAIN lfg.prop /\ p \in DOMAIN lfg.prop[id].answer
    /\ LET L == [lfg EXCEPT !.prop[id].answer[p] = "agree"]
       IN  \E first \in DOMAIN L.prop[id].answer \ lfg.away, stay \in BOOLEAN :
                lfg' = Succeed(L, id, L.prop[id].queue, first, stay)

Agree(p, id) ==
    /\ Idle /\ UNCHANGED left
    /\ id \in DOMAIN lfg.prop /\ p \in DOMAIN lfg.prop[id].answer
    /\ LET L == [lfg EXCEPT !.prop[id].answer[p] = "agree"]
           all == Range(L.prop[id].answer) = {"agree"}
       IN  \/ ~all /\ lfg' = L
           \/ /\ all
              /\ \E first \in DOMAIN L.prop[id].answer \ lfg.away, stay \in BOOLEAN :
                    lfg' = Succeed(L, id, L.prop[id].queue, first, stay)

\* Player::RemoveFromGroup at the player's wish.  LeaveLfg waits for the lock;
\* the lines of the script and of Group around it, which do not hold it, are
\* taken together with it.
LeaveGroup(p, stay) ==
    /\ Idle /\ UNCHANGED left /\ lfg.grp[p] # NoGroup
    /\ lfg' = RemoveMember(lfg, p, lfg.grp[p], FALSE, stay)

\* FinishDungeon, from the thread of the dungeon's map and without the lock.
FinishDungeon(g) ==
    /\ lfg.gr[g].dungeon # NoQueue /\ lfg.gr[g].now # "finished"
    /\ LET q == lfg.gr[g].dungeon
           S == {p \in lfg.gr[g].players : lfg.pl[p][q].now # "finished"}
       IN  lfg' = StartAllOtherQueue(SetStates(SetGroupState(lfg, g, "finished"),
                                               S, q, "finished"), S, q)
    /\ UNCHANGED <<phase, left>>

\* TeleportTo pauses all queues of the player, and arriving on the new map
\* resumes them; neither takes the lock.
Teleport(p) ==
    /\ lfg' = [StopAllOtherQueue(lfg, {p}, NoQueue) EXCEPT !.away = @ \cup {p}]
    /\ left.trips > 0 /\ left' = [left EXCEPT !.trips = @ - 1]
    /\ UNCHANGED phase

Arrive(p) ==
    /\ lfg' = [StartAllOtherQueue(lfg, {p}, NoQueue) EXCEPT !.away = @ \ {p}]
    /\ UNCHANGED <<phase, left>>

-----------------------------------------------------------------------------
(* LFGMgr::Update *)

\* A queue without new entries is passed by, and so is the announcement when
\* no proposal was made.
GoOn(L, i) ==
    LET next == {j \in DOMAIN QueueOrder : j > i /\ L.fresh[QueueOrder[j]] # <<>>}
        to == IF next # {} THEN Min(next)
              ELSE IF L.last # L.before THEN Len(QueueOrder) + 1 ELSE 0
    IN  /\ phase' = to
        /\ lfg' = [L EXCEPT !.before = IF to = 0 THEN 0 ELSE @]
        /\ UNCHANGED left

\* Role checks and proposals whose time is over end.
TimeOut(L, E) ==
    [L EXCEPT
        !.pl = [p \in Players |-> [q \in Queues |->
            IF \E g \in E : p \in L.chk[g].asked /\ q = L.chk[g].queue
            THEN Restored(@[p][q]) ELSE @[p][q]]],
        !.gr = [g \in Groups |-> IF g \in E THEN Restored(@[g]) ELSE @[g]],
        !.chk = Restrict(@, DOMAIN @ \ E)]
Ended(L, E, D) ==
    LET ended[id \in 0..L.last] ==
            IF id = 0 THEN TimeOut(L, E)
            ELSE IF id \in D THEN RemoveProposal(ended[id - 1], id, TRUE)
            ELSE ended[id - 1]
    IN  ended[L.last]
Expire(E, D) ==
    LET L == Ended(lfg, E, D)
    IN  /\ phase = 0
        /\ E \subseteq DOMAIN lfg.chk /\ D \subseteq DOMAIN lfg.prop
        /\ GoOn([L EXCEPT !.before = L.last], 0)

\* The search of one queue, up to MaxProposals proposals in a run.
Search ==
    /\ phase \in DOMAIN QueueOrder
    /\ \E L \in {FindGroups(lfg, QueueOrder[phase])} :
          GoOn(IF L.last > MaxProposals THEN lfg ELSE L, phase)

\* Mutant: the step does not leave Update.
AnnounceNeverEnds(stay) ==
    /\ phase = Len(QueueOrder) + 1 /\ phase' = phase + 1 /\ UNCHANGED left
    /\ lfg' = [lfg EXCEPT !.before = 0]

\* Only the proposal made last is shown to its players.
Announce(stay) ==
    /\ phase = Len(QueueOrder) + 1 /\ phase' = 0 /\ UNCHANGED left
    /\ LET id == lfg.last
           pr == lfg.prop[id]
           S == DOMAIN pr.answer
           asked == {lfg.pl[p][pr.queue].group : p \in S} \ {NoGroup}
           paused == StopAllOtherQueue(SetStates(lfg, S, pr.queue, "proposal"),
                                       S, pr.queue)
           L == [paused EXCEPT !.before = 0,
                               !.gr = [g \in Groups |-> IF g \in asked
                                         THEN MovedTo(@[g], "proposal") ELSE @[g]]]
       IN  lfg' = IF Range(pr.answer) = {"agree"}
                  THEN Succeed(L, id, NoQueue, NoGroup, stay)
                  ELSE L

-----------------------------------------------------------------------------
Init ==
    /\ \E s \in Starts :
        /\ left = [joins |-> s.joins, trips |-> s.trips]
        /\ lfg = [pl |-> [p \in Players |-> [q \in Queues |-> NoPlayerData]],
                mem |-> [p \in Players |-> {}],
                gr |-> [g \in Groups |-> NoGroupData],
                grp |-> [p \in Players |-> IF p \in s.party THEN Party ELSE NoGroup],
                data |-> [q \in Queues |-> <<>>],
                fresh |-> [q \in Queues |-> <<>>],
                cur |-> [q \in Queues |-> <<>>],
                cache |-> [q \in Queues |-> <<>>],
                open |-> s.open,
                prop |-> <<>>, chk |-> <<>>, last |-> 0, before |-> 0, away |-> {}]
    /\ phase = 0 /\ outdated = {}

\* The finder holds an entry of the group, a proposal with it or its role
\* check.  JoinLfg keeps no group from asking again while a proposal with it
\* is out, so a group may be filled up while that is still so.
InFinder(L, g) ==
    \/ \E q \in Queues : g \in Listed(L, q)
    \/ \E id \in DOMAIN L.prop : g \in Range(L.prop[id].entries)
    \/ g \in DOMAIN L.chk

NoteOutdated ==
    outdated' = outdated \cup {g \in LfgGroups :
        InFinder(lfg', g) /\ ~(Members(lfg', g) \subseteq Members(lfg, g))}

UpdateStep ==
    \/ \E E \in SUBSET DOMAIN lfg.chk, D \in SUBSET DOMAIN lfg.prop :
          Expire(E, D) /\ NoteOutdated
    \/ Search /\ NoteOutdated
    \/ \E stay \in BOOLEAN : Announce(stay) /\ NoteOutdated

Present == Players \ lfg.away

Next ==
    \/ \E p \in Present, q \in Queues, ok \in BOOLEAN : JoinLfg(p, q, ok) /\ NoteOutdated
    \/ \E p \in Present, how \in {"role", "no_role"} : AnswerRoleCheck(p, how) /\ NoteOutdated
    \/ \E p \in Present, q \in Queues : Leave(p, q) /\ NoteOutdated
    \/ \E p \in Present, id \in DOMAIN lfg.prop : Refuse(p, id) /\ NoteOutdated
    \/ \E p \in Present, id \in DOMAIN lfg.prop : Agree(p, id) /\ NoteOutdated
    \/ \E p \in Present, stay \in BOOLEAN : LeaveGroup(p, stay) /\ NoteOutdated
    \/ \E p \in Present : Teleport(p) /\ NoteOutdated
    \/ \E p \in lfg.away : Arrive(p) /\ NoteOutdated
    \/ \E g \in LfgGroups : FinishDungeon(g) /\ NoteOutdated
    \/ UpdateStep

Spec == Init /\ [][Next]_vars

-----------------------------------------------------------------------------
(* Properties *)

PlayerData == [now : States, old : States, group : Groups \cup {NoGroup}]
GroupData == [now : States, old : States, dungeon : Queues \cup {NoQueue},
              queue : Queues \cup {NoQueue}, players : SUBSET Players]

\* The stores of LFGMgr hold what the code's types allow, and Update is in
\* one of its steps.
TypeOK ==
    /\ lfg.pl \in [Players -> [Queues -> PlayerData]]
    /\ lfg.gr \in [Groups -> GroupData]
    /\ lfg.grp \in [Players -> Groups \cup {NoGroup}]
    /\ {lfg.mem, lfg.open} \subseteq [Players -> SUBSET Queues] /\ lfg.away \subseteq Players
    /\ \A q \in Queues : /\ DOMAIN lfg.data[q] \subseteq Entries
                         /\ Range(lfg.cache[q]) \subseteq Verdicts
    /\ DOMAIN lfg.prop \subseteq LfgGroups /\ DOMAIN lfg.chk \subseteq Groups
    /\ phase \in 0..Len(QueueOrder) + 1 /\ left \in [joins : Nat, trips : Nat]
    /\ outdated \subseteq LfgGroups

\* An entry in one of a queue's two lists, or in the cache of verdicts, has
\* its queue data: the search reads them without a test, and logs "is not
\* queued but listed as queued" as an error.  RemoveFromQueue is called from
\* a dozen places that each take an entry out of all four stores.
QueueStoresAgree ==
    \A q \in Queues :
        Listed(lfg, q) \cup UNION DOMAIN lfg.cache[q] \subseteq DOMAIN lfg.data[q]

\* LfgGroupData's players are those of the Group, whatever order of joining,
\* leaving, disbanding and replacing made it, and no player's data names a
\* dungeon group it is not in.
GroupDataAgrees ==
    /\ \A g \in LfgGroups : lfg.gr[g].players = Members(lfg, g)
    /\ \A p \in Players, q \in Queues :
          lfg.pl[p][q].group \in {NoGroup, lfg.grp[p]}

\* A dungeon group never has more players, or more of a role, than the
\* dungeon takes, also when an old group is filled up again after some left,
\* unless it was once filled up while the finder still held it for another
\* search: MakeNewGroup and Group::AddMember test no size, so of two
\* proposals that each fill up the same group by one both may succeed.
GroupsFit ==
    \A g \in LfgGroups \ outdated :
        /\ Cardinality(Members(lfg, g)) <= MaxSize
        /\ \A r \in DOMAIN Needed :
              Cardinality({p \in Members(lfg, g) : Role[p] = r}) <= Needed[r]

\* Nobody is put into a dungeon group without having agreed: the group comes
\* from a proposal nobody refused and all but the one who answers in this
\* step have agreed to.
OnlyByConsent ==
    [][\A p \in Players :
        lfg'.grp[p] \in LfgGroups \ {lfg.grp[p]} =>
            \E id \in DOMAIN lfg.prop \ DOMAIN lfg'.prop :
                LET answer == lfg.prop[id].answer
                IN  /\ p \in DOMAIN answer
                    /\ "deny" \notin Range(answer)
                    /\ Cardinality({x \in DOMAIN answer : answer[x] = "pending"}) <= 1]_vars

\* Who agreed to a proposal that another refuses, or lets pass, goes on
\* waiting: unless it left the queue meanwhile, it is listed again.
InnocentRequeued ==
    [][\A id \in DOMAIN lfg.prop \ DOMAIN lfg'.prop :
        LET pr == lfg.prop[id]
            S == DOMAIN pr.answer
            agreed == {p \in S : pr.answer[p] = "agree" /\ pr.from[p] = NoGroup}
            failed == \E p \in S : lfg'.pl[p][pr.queue].now # "dungeon"
        IN  failed => agreed \cap DOMAIN lfg'.data[pr.queue]
                        \subseteq Listed(lfg', pr.queue)]_vars
=============================================================================
