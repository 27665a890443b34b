------------------------------ MODULE Governance ------------------------------
(***************************************************************************)
(* The governance manager (governance.cpp, governance-object.cpp,          *)
(* governance-votedb.cpp) with the parts of the masternode and trigger     *)
(* managers it shares state with: objects and votes that arrive in any     *)
(* order, masternodes that come and go, deletion, expiry and restarts.     *)
(*                                                                         *)
(* A hash is a number.  Votes carry the one signal that changes control,   *)
(* VOTE_SIGNAL_DELETE; the instances of the other signals are kept beside  *)
(* it in the same way.  Peers announce everything all the time, so that an *)
(* object or vote arrives whenever ConfirmInventoryRequest would ask for   *)
(* it; one refused by the rate buffer is one that does not arrive.         *)
(***************************************************************************)
EXTENDS Integers, FiniteSets, Functions, SequencesExt

CONSTANTS Object, Masternode, Type, Owner, Created,
          Outdated,             \* when the block of a trigger is long past
          Vote,                 \* records [obj, mn, yes, time, valid]
          MinQuorum,            \* nGovernanceMinQuorum
          MaxOrphans,           \* orphan objects per masternode (10)
          OrphanExpiration, DeletionDelay, WatchdogExpiration, TwoCycles,
          FutureDeviation, MaxTime,
          Scenes                \* see scene

NoObject == 0

ASSUME GovernanceAssumption ==
    /\ Object \subseteq Nat \ {NoObject}
    /\ Type \in [Object -> {"proposal", "trigger", "watchdog"}]
    /\ Vote \subseteq [obj : Object, mn : Masternode, yes : BOOLEAN, time : Nat,
                       valid : BOOLEAN]

VARIABLES
    gov,       \* the members of the managers, see Empty
    now,       \* GetAdjustedTime()
    synced,    \* masternodeSync.IsSynced()
    gone,      \* history: the objects erased since governance.dat was empty
    left,      \* history: the masternodes that have left the list
    scene      \* the objects, votes, first masternodes, masternodes that come and
               \* go, further events and last time of a behaviour

vars == <<gov, now, synced, gone, left, scene>>

Nothing == <<>>

Without(f, S) == Restrict(f, DOMAIN f \ S)

Proposals == {o \in Object : Type[o] = "proposal"}

Watchdogs == {o \in Object : Type[o] = "watchdog"}

Empty(list, on, confs) ==
    [objs |-> Nothing,         \* mapObjects
     erased |-> Nothing,       \* mapErasedGovernanceObjects: when forgotten
     orphans |-> Nothing,      \* mapMasternodeOrphanObjects: nExpirationTime
     counter |-> [m \in Masternode |-> 0],   \* mapMasternodeOrphanCounter
     postponed |-> {},         \* mapPostponedObjects
     watchdogs |-> Nothing,    \* mapWatchdogObjects: when they expire
     current |-> NoObject,     \* nHashWatchdogCurrent
     currentTime |-> 0,        \* nTimeWatchdogCurrent
     votes |-> {},             \* keys of mapVoteToObject
     invalid |-> {},           \* mapInvalidVotes
     pending |-> {},           \* mapOrphanVotes, of [vote, exp]
     triggers |-> {},          \* triggerman.mapTrigger
     list |-> list,            \* mnodeman.mapMasternodes
     on |-> on,                \* their mapGovernanceObjectsVotedOn
     dirty |-> {},             \* vecDirtyGovernanceObjectHashes
     added |-> FALSE, removed |-> FALSE,    \* fMasternodesAdded, -Removed
     confs |-> confs]          \* confirmations of a proposal's collateral: none
                               \* (0), some (1) or enough (2)

NewObject(g) ==
    [delete |-> FALSE, expired |-> FALSE, deletion |-> 0,
     dirty |-> g.list = {},
     cur |-> Nothing,         \* mapCurrentMNVotes
     file |-> {},             \* fileVotes
     orphans |-> {}]          \* mapOrphanVotes, of [vote, exp]

Init ==
    /\ scene \in Scenes
    /\ gov = Empty(scene.first, [m \in Masternode |-> {}], [o \in Proposals |-> 0])
    /\ now = 1 /\ synced = TRUE /\ gone = {} /\ left = {}

(***************************************************************************)
(* Votes.                                                                  *)
(***************************************************************************)
\* CacheMultiMap::Insert.  Its inner map is ordered by operator< of the pair
\* (vote, expiry) and operator< of votes is never true, so that two votes under one
\* key that expire at the same time are the same entry.
Put(S, v, key) ==
    LET e == [vote |-> v, exp |-> now + OrphanExpiration]
    IN  IF \E x \in S : x.vote[key] = v[key] /\ x.exp = e.exp THEN S ELSE S \cup {e}

\* Faulty: an older vote replaces a newer one.
ObjectVote_Obsolete(g, ob, v) ==
    LET no == [g |-> g, ob |-> ob, ok |-> FALSE]
    IN  IF v.mn \notin g.list
        THEN [no EXCEPT !.ob.orphans = Put(@, v, "mn")]
        ELSE IF ~v.valid THEN [no EXCEPT !.g.invalid = @ \cup {v}]
        ELSE [g |-> [g EXCEPT !.on[v.mn] = @ \cup {v.obj}],
              ob |-> [ob EXCEPT !.cur = (v.mn :> v) @@ @, !.file = @ \cup {v},
                                !.dirty = TRUE],
              ok |-> TRUE]

\* CGovernanceObject::ProcessVote on object ob: the managers, the object and
\* whether the vote was accepted.
ObjectVote(g, ob, v) ==
    LET no == [g |-> g, ob |-> ob, ok |-> FALSE]
    IN  IF v.mn \notin g.list
        THEN [no EXCEPT !.ob.orphans = Put(@, v, "mn")]
        ELSE IF v.mn \in DOMAIN ob.cur /\ v.time < ob.cur[v.mn].time THEN no
        ELSE IF ~v.valid THEN [no EXCEPT !.g.invalid = @ \cup {v}]
        ELSE [g |-> [g EXCEPT !.on[v.mn] = @ \cup {v.obj}],
              ob |-> [ob EXCEPT !.cur = (v.mn :> v) @@ @, !.file = @ \cup {v},
                                !.dirty = TRUE],
              ok |-> TRUE]

\* CGovernanceManager::CheckOrphanVotes for ob, a copy of object o: GetAll lists the
\* votes in the order of the inner map.
CheckOrphanVotes(g, o, ob) ==
    LET Try(acc, e) ==
            IF e.exp < now THEN [acc EXCEPT !.g.pending = @ \ {e}]
            ELSE LET r == ObjectVote(acc.g, acc.ob, e.vote)
                 IN  IF r.ok THEN [r EXCEPT !.g.pending = @ \ {e}] ELSE r
    IN  FoldLeft(Try, [g |-> g, ob |-> ob, ok |-> FALSE],
                 SetToSortSeq({e \in g.pending : e.vote.obj = o},
                              LAMBDA a, b : a.exp < b.exp))

\* CGovernanceObject::CheckOrphanVotes, newest first.  An expired vote is tried once more, and
\* goes back to the map with a new time when its masternode is still missing.
RetryVotes(g, o) ==
    LET Try(acc, e) ==
            IF e.exp >= now /\ e.vote.mn \notin acc.g.list THEN acc
            ELSE LET r == ObjectVote(acc.g, acc.ob, e.vote)
                 IN  IF r.ok \/ e.exp < now THEN [r EXCEPT !.ob.orphans = @ \ {e}]
                     ELSE r
        r == FoldLeft(Try, [g |-> g, ob |-> g.objs[o], ok |-> FALSE],
                      SetToSortSeq(g.objs[o].orphans, LAMBDA a, b : a.exp > b.exp))
    IN  [r.g EXCEPT !.objs[o] = r.ob]

\* CheckMasternodeOrphanVotes
CheckMasternodeOrphanVotes(g) ==
    FoldLeft(RetryVotes, g, SetToSortSeq(DOMAIN g.objs, <))

Flagged(ob) == ob.delete \/ ob.expired

\* CGovernanceManager::ProcessVote
ProcessVote(g, v) ==
    IF v \in g.invalid THEN g
    ELSE IF v.obj \notin DOMAIN g.objs
    THEN [g EXCEPT !.pending = Put(@, v, "obj")]
    ELSE IF Flagged(g.objs[v.obj]) THEN g
    ELSE LET r == ObjectVote(g, g.objs[v.obj], v)
         IN  [r.g EXCEPT !.objs[v.obj] = r.ob,
                         !.votes = IF r.ok THEN @ \cup {v} ELSE @]

(***************************************************************************)
(* Objects.                                                                *)
(***************************************************************************)
\* IsCollateralValid
IsCollateralValid(g, o) == g.confs[o] = 2

MissingConfirmations(g, o) == g.confs[o] = 1

IsValidLocally(g, o) ==
    IF Type[o] = "proposal" THEN IsCollateralValid(g, o) ELSE Owner[o] \in g.list

\* MasternodeRateCheck but for the rate.
MasternodeRateCheck(o) ==
    synced /\ Type[o] # "proposal" =>
        Created[o] >= now - TwoCycles /\ Created[o] <= now + FutureDeviation

Expired(ob) ==
    [ob EXCEPT !.expired = TRUE, !.deletion = IF @ = 0 THEN now ELSE @]

ExpireObjects(g, S) ==
    [g EXCEPT !.objs = [o \in DOMAIN @ |-> IF o \in S THEN Expired(@[o]) ELSE @[o]]]

BetterWatchdog(g, o) ==
    LET delay == WatchdogExpiration \div 2
    IN  \/ g.current = NoObject
        \/ now - Created[o] < delay /\ (now - g.currentTime > delay \/ o > g.current)

\* Faulty: the watchdog before stays.
UpdateCurrentWatchdog_Keeps(g, o) ==
    [g EXCEPT !.current = o, !.currentTime = Created[o]]

\* UpdateCurrentWatchdog when it accepts o.
UpdateCurrentWatchdog(g, o) ==
    [ExpireObjects(g, {g.current}) EXCEPT !.current = o, !.currentTime = Created[o]]

\* AddGovernanceObject once o is to be stored.  mapObjects gets a copy; the pending
\* votes are then applied to the object that was passed in.
Insert(g, o) ==
    LET ob == NewObject(g)
        h == [g EXCEPT !.objs = (o :> ob) @@ @,
                       !.triggers = IF Type[o] = "trigger" THEN @ \cup {o} ELSE @,
                       !.watchdogs = IF Type[o] = "watchdog"
                                     THEN (o :> Created[o] + WatchdogExpiration) @@ @
                                     ELSE @]
    IN  CheckOrphanVotes(h, o, ob).g

AddGovernanceObject(g, o) ==
    IF ~IsValidLocally(g, o) \/ o \in DOMAIN g.objs THEN g
    ELSE IF Type[o] # "watchdog" THEN Insert(g, o)
    ELSE IF /\ Created[o] >= now - WatchdogExpiration
            /\ Created[o] <= now + WatchdogExpiration
            /\ BetterWatchdog(g, o)
    THEN Insert(UpdateCurrentWatchdog(g, o), o)
    ELSE g

\* Faulty: the hashes of erased objects are not looked at.
Seen_NotErased(g, o) ==
    o \in DOMAIN g.objs \cup DOMAIN g.orphans \cup g.postponed

\* Known to the handler of MNGOVERNANCEOBJECT.
Seen(g, o) ==
    o \in DOMAIN g.objs \cup DOMAIN g.erased \cup DOMAIN g.orphans \cup g.postponed

\* ExpirationInfo info(pfrom->GetId(), time): the first argument is the time.
Sender == 0

\* Faulty: the orphans of a masternode are not counted.
OrphanObject_Uncounted(g, o) ==
    [g EXCEPT !.orphans = (o :> Sender) @@ @]

OrphanObject(g, o) ==
    IF g.counter[Owner[o]] >= MaxOrphans THEN g
    ELSE [g EXCEPT !.counter[Owner[o]] = @ + 1, !.orphans = (o :> Sender) @@ @]

\* CheckMasternodeOrphanObjects
CheckMasternodeOrphanObjects(g) ==
    LET Try(h, o) ==
            LET fresh == h.orphans[o] >= now
                i == IF fresh THEN AddGovernanceObject(h, o) ELSE h
            IN  IF fresh /\ Owner[o] \notin h.list THEN h
                ELSE [i EXCEPT !.counter[Owner[o]] = @ - 1,
                               !.orphans = Without(@, {o})]
    IN  FoldLeft(Try, g, SetToSortSeq(DOMAIN g.orphans, <))

\* CheckPostponedObjects when synced.
CheckPostponedObjects(g) ==
    LET Try(h, o) ==
            IF MissingConfirmations(h, o) THEN h
            ELSE [AddGovernanceObject(h, o) EXCEPT !.postponed = @ \ {o}]
    IN  FoldLeft(Try, g, SetToSortSeq(g.postponed, <))

(***************************************************************************)
(* UpdateCachesAndClean.                                                   *)
(***************************************************************************)
ExpireWatchdogs(g) ==
    LET old == {o \in DOMAIN g.watchdogs : g.watchdogs[o] < now}
    IN  IF Cardinality(DOMAIN g.watchdogs) <= 1 THEN g
        ELSE [ExpireObjects(g, old) EXCEPT
                !.current = IF @ \in old THEN NoObject ELSE @,
                !.watchdogs = Without(@, old)]

\* ClearMasternodeVotes, for an object in the vector of dirty hashes.
ClearMasternodeVotes(g, ob) ==
    [ob EXCEPT !.cur = Restrict(@, DOMAIN @ \cap g.list),
               !.file = {v \in @ : v.mn \notin DOMAIN ob.cur \ g.list},
               !.dirty = TRUE]

\* CGovernanceTriggerManager::CleanAndRemove
CleanTriggers(g) ==
    LET old == {o \in g.triggers : now > Outdated[o]}
    IN  [g EXCEPT !.triggers = @ \ old,
                  !.objs = [o \in DOMAIN @ |->
                      IF o \in old THEN [@[o] EXCEPT !.expired = TRUE, !.deletion = now]
                      ELSE @[o]]]

AbsoluteYesCount(ob) ==
    LET yes == {m \in DOMAIN ob.cur : ob.cur[m].yes}
    IN  Cardinality(yes) - Cardinality(DOMAIN ob.cur \ yes)

\* UpdateSentinelVariables of an object whose cache is dirty.
UpdateSentinelVariables(g, ob) ==
    LET n == Cardinality(g.list)
        delete == AbsoluteYesCount(ob) >= Max({MinQuorum, (2 * n) \div 3})
    IN  IF n = 0 \/ ~ob.dirty THEN ob
        ELSE [ob EXCEPT !.dirty = FALSE, !.delete = @ \/ delete,
                        !.deletion = IF delete /\ ~ob.delete /\ @ = 0 THEN now ELSE @]

\* Faulty: a hash is kept for one cycle only.
KeptUntil_Short(o) == Created[o] + TwoCycles \div 2

\* How long the hash of an erased object is kept: of a proposal for ever.
KeptUntil(o) ==
    IF Type[o] = "proposal" THEN MaxTime + 1 ELSE Created[o] + TwoCycles + DeletionDelay

\* Faulty: the keys of the votes stay.
EraseObjects_Votes(g, S) ==
    [g EXCEPT !.on = [m \in Masternode |-> @[m] \ S],
              !.watchdogs = Without(@, S),
              !.erased = @ @@ [o \in S |-> KeptUntil(o)],
              !.objs = Without(@, S)]

EraseObjects(g, S) ==
    [g EXCEPT !.on = [m \in Masternode |-> @[m] \ S],
              !.votes = {v \in @ : v.obj \notin S},
              !.watchdogs = Without(@, S),
              !.erased = @ @@ [o \in S |-> KeptUntil(o)],
              !.objs = Without(@, S)]

UpdateCachesAndClean(g) ==
    LET a == ExpireWatchdogs(g)
        b == [a EXCEPT !.dirty = {},
                       !.objs = [o \in DOMAIN @ |->
                           IF o \in g.dirty THEN ClearMasternodeVotes(g, @[o]) ELSE @[o]]]
        c == CleanTriggers(b)
        d == [c EXCEPT !.objs = [o \in DOMAIN @ |-> UpdateSentinelVariables(g, @[o])]]
        e == [d EXCEPT !.current = IF @ \in DOMAIN d.objs /\ d.objs[@].delete
                                   THEN NoObject ELSE @]
        over == {o \in DOMAIN e.objs :
                    Flagged(e.objs[o]) /\ now - e.objs[o].deletion >= DeletionDelay}
        f == EraseObjects(e, over)
    IN  [f EXCEPT !.erased = Restrict(@, {o \in DOMAIN @ : @[o] >= now})]

(***************************************************************************)
(* Actions.  The message thread completes what a new masternode starts     *)
(* before it takes the next message.                                       *)
(***************************************************************************)
\* What a step makes of the managers, and the objects it erases.
Becomes(g) ==
    /\ gov' = g
    /\ gone' = gone \cup (DOMAIN gov.objs \ DOMAIN g.objs)

\* MNGOVERNANCEOBJECT
ObjectArrives(o) ==
    /\ ~gov.added /\ ~Seen(gov, o) /\ MasternodeRateCheck(o)
    /\ Becomes(IF IsValidLocally(gov, o) THEN AddGovernanceObject(gov, o)
               ELSE IF Type[o] # "proposal" THEN OrphanObject(gov, o)
               ELSE IF MissingConfirmations(gov, o) THEN [gov EXCEPT !.postponed = @ \cup {o}]
               ELSE gov)
    /\ UNCHANGED <<now, synced, left>>

\* MNGOVERNANCEOBJECTVOTE
VoteArrives(v) ==
    /\ ~gov.added /\ v \notin gov.votes
    /\ Becomes(ProcessVote(gov, v))
    /\ UNCHANGED <<now, synced, left>>

\* CMasternodeMan::Add for a new announcement
AddMasternode(m) ==
    /\ m \notin gov.list /\ ~gov.added
    /\ m \in left => "return" \in scene.events
    /\ Becomes([gov EXCEPT !.list = @ \cup {m}, !.on[m] = {}, !.added = TRUE])
    /\ UNCHANGED <<now, synced, left>>

\* Faulty: what the masternode voted on is not flagged.
RemoveMasternode_Unflagged(m) ==
    /\ m \in gov.list
    /\ Becomes([gov EXCEPT !.list = @ \ {m}, !.on[m] = {}, !.removed = TRUE])
    /\ left' = left \cup {m}
    /\ UNCHANGED <<now, synced>>

\* CheckAndRemove of a masternode whose collateral is spent, with
\* FlagGovernanceItemsAsDirty
RemoveMasternode(m) ==
    /\ m \in gov.list
    /\ Becomes([gov EXCEPT !.list = @ \ {m}, !.on[m] = {}, !.removed = TRUE,
                           !.dirty = @ \cup gov.on[m]])
    /\ left' = left \cup {m}
    /\ UNCHANGED <<now, synced>>

NotifyMasternodeUpdates ==
    /\ gov.added \/ gov.removed
    /\ LET g == IF gov.added
                THEN CheckMasternodeOrphanVotes(CheckMasternodeOrphanObjects(gov))
                ELSE gov
           h == IF gov.removed THEN UpdateCachesAndClean(g) ELSE g
       IN  Becomes([h EXCEPT !.added = FALSE, !.removed = FALSE])
    /\ UNCHANGED <<now, synced, left>>

\* DoMaintenance, with CleanOrphanObjects
DoMaintenance ==
    /\ synced
    /\ Becomes(UpdateCachesAndClean([gov EXCEPT !.pending = {e \in @ : e.exp >= now}]))
    /\ UNCHANGED <<now, synced, left>>

\* A block is connected, or the chain is reorganised; CheckPostponedObjects.
UpdatedBlockTip(c) ==
    /\ c # gov.confs
    /\ LET g == [gov EXCEPT !.confs = c]
       IN  Becomes(IF synced THEN CheckPostponedObjects(g) ELSE g)
    /\ UNCHANGED <<now, synced, left>>

\* RebuildIndexes and AddCachedTriggers
InitOnLoad(g) ==
    [g EXCEPT !.votes = UNION {g.objs[o].file : o \in DOMAIN g.objs},
              !.triggers = {o \in DOMAIN g.objs : Type[o] = "trigger"}]

\* What is read back from governance.dat and mncache.dat: the members that the two
\* SerializationOp write, the others as constructed.
Loaded(g) ==
    [Empty(g.list, g.on, g.confs) EXCEPT
        !.objs = [o \in DOMAIN g.objs |->
                    [g.objs[o] EXCEPT !.delete = FALSE, !.dirty = TRUE, !.orphans = {}]],
        !.erased = g.erased, !.invalid = g.invalid, !.pending = g.pending,
        !.watchdogs = g.watchdogs, !.current = g.current,
        !.currentTime = g.currentTime]

\* A shutdown, which writes the files, and the start after it.  Load cleans before
\* the indexes are built; without masternodes governance.dat is not read.
Restart ==
    /\ "restart" \in scene.events /\ ~gov.added /\ ~gov.removed
    /\ IF gov.list = {}
       THEN gov' = Empty({}, gov.on, gov.confs) /\ gone' = {}
       ELSE Becomes(InitOnLoad(UpdateCachesAndClean(Loaded(gov))))
    /\ synced' = FALSE
    /\ UNCHANGED <<now, left>>

\* The end of the synchronisation.
Sync ==
    /\ ~synced /\ synced' = TRUE
    /\ UNCHANGED <<gov, now, gone, left>>

Tick ==
    /\ now < scene.until /\ now' = now + 1
    /\ UNCHANGED <<gov, synced, gone, left>>

Next ==
    /\ UNCHANGED scene
    /\ \/ \E o \in scene.objects : ObjectArrives(o)
       \/ \E v \in scene.votes : VoteArrives(v)
       \/ \E m \in scene.masternodes : AddMasternode(m) \/ RemoveMasternode(m)
       \/ \E c \in [Proposals -> 0 .. 2] : UpdatedBlockTip(c)
       \/ NotifyMasternodeUpdates \/ DoMaintenance \/ Restart \/ Sync \/ Tick

Spec == Init /\ [][Next]_vars

(***************************************************************************)
(* Properties.                                                             *)
(***************************************************************************)
\* The variables have the types their declarations give them; a masternode has at
\* most as many orphan objects as the limit.
TypeOK ==
    /\ {DOMAIN gov.objs, DOMAIN gov.erased, DOMAIN gov.orphans, gov.postponed,
        gov.triggers, gov.dirty, gone} \subseteq SUBSET Object
    /\ DOMAIN gov.watchdogs \subseteq Watchdogs
    /\ gov.votes \cup gov.invalid \subseteq Vote
    /\ gov.counter \in [Masternode -> 0 .. MaxOrphans]
    /\ now \in 1 .. MaxTime

\* An object that MNGOVERNANCEOBJECT took in is in one place: stored, waiting for
\* confirmations, waiting for its masternode, or erased.
OnePlace ==
    \A o \in Object :
        Cardinality({S \in {<<1, DOMAIN gov.objs>>, <<2, DOMAIN gov.erased>>,
                            <<3, DOMAIN gov.orphans>>, <<4, gov.postponed>>} :
                        o \in S[2]}) <= 1

\* mapVoteToObject holds plain pointers to the objects: none of them outlives its
\* object, also when votes are indexed again after a restart.
VoteRefsLive == \A v \in gov.votes : v.obj \in DOMAIN gov.objs

\* mapMasternodeOrphanCounter, which is decremented through an iterator that must
\* exist, counts the orphan objects of each masternode.
OrphanCount ==
    \A m \in Masternode :
        gov.counter[m] = Cardinality({o \in DOMAIN gov.orphans : Owner[o] = m})

\* What counts for a masternode is the newest of its votes in the file, whatever the
\* order in which votes arrived, waited for the object or for the masternode.
NewestVote ==
    \A o \in DOMAIN gov.objs : \A v \in gov.objs[o].file :
        /\ v.mn \in DOMAIN gov.objs[o].cur
        /\ gov.objs[o].cur[v.mn] \in gov.objs[o].file
        /\ v.time <= gov.objs[o].cur[v.mn].time

\* A vote of a masternode that is no longer listed is dropped at the next cleaning,
\* unless the masternode came back to the list before it.
VotesOfMembers ==
    "return" \notin scene.events =>
        \A o \in DOMAIN gov.objs : \A v \in gov.objs[o].file :
            v.mn \in gov.list \/ o \in gov.dirty

\* The maps of the manager agree: an object is in one of them, references and
\* counters follow it.
MapsAgree == TypeOK /\ OnePlace /\ VoteRefsLive /\ OrphanCount

\* The votes that count are the newest ones of the masternodes that are listed.
VotesCurrent == NewestVote /\ VotesOfMembers

\* There is one watchdog: the current one is stored and not expired, and every other
\* has been expired or deleted (a restart can forget that it was deleted, when the
\* masternodes that voted so are gone, but not when).
OneWatchdog ==
    /\ gov.current # NoObject =>
          gov.current \in DOMAIN gov.objs /\ ~gov.objs[gov.current].expired
    /\ \A o \in DOMAIN gov.objs \cap Watchdogs :
          o = gov.current \/ gov.objs[o].deletion # 0

\* A node that is in sync never stores again an object it erased: while its hash is
\* kept the message is ignored, and when the hash is forgotten the object is too old
\* for the rate check.
ErasedStaysOut ==
    [][synced => gone \cap (DOMAIN gov'.objs \ DOMAIN gov.objs) = {}]_vars

\* "WE MIGHT HAVE PENDING/ORPHAN VOTES FOR THIS OBJECT": a valid vote of a listed
\* masternode that waits for an object is counted when the object is stored.
PendingVotesCounted ==
    [][\A e \in gov.pending :
          /\ e.vote.obj \in DOMAIN gov'.objs \ DOMAIN gov.objs
          /\ e.exp >= now /\ e.vote.valid /\ e.vote.mn \in gov.list
          => e.vote.mn \in DOMAIN gov'.objs[e.vote.obj].cur]_vars

===============================================================================
