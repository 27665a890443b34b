------------------------ MODULE MasternodePoSeProofs ------------------------
(***************************************************************************)
(* For any number of masternodes and addresses and any order of requests,  *)
(* replies, broadcasts, bans, announcements and restarts, at most one      *)
(* masternode of an address is verified, a verification counts once, and   *)
(* nobody is punished who runs at the address they announced.              *)
(*                                                                         *)
(* The scores alone are not inductive: a ban that ends takes a point off   *)
(* one masternode and gives none to the others.  What a step may never     *)
(* lower is the sum of the standings of two masternodes of one address, a  *)
(* standing being the score and a point for not being banned.              *)
(***************************************************************************)
EXTENDS MasternodePoSe, FiniteSetTheorems, TLAPS

\* The inductive invariant.
Inv == PoSeTyped /\ BalancedList(mapMasternodes)

\* An entry that became f without taking anything from the others of its address,
\* or that cannot unbalance any of them.
NoWorse(e, f) ==
    \/ f.addr = e.addr /\ Standing(f) >= Standing(e)
    \/ Standing(f) >= 0

\* The list of a step that changes each entry on its own, drops or adds some.
EachNoWorse(list, list2) ==
    \A m \in DOMAIN list2 \ {activeOutpoint} :
        \/ m \in DOMAIN list /\ NoWorse(list[m], list2[m])
        \/ Standing(list2[m]) >= 0

-----------------------------------------------------------------------------
\* A standing is a number, and not below the lowest score.
LEMMA StandingBounds ==
  ASSUME NEW e \in Entry
  PROVE  Standing(e) \in Int /\ Standing(e) >= -MaxScore /\ Standing(e) >= e.score
  BY BoundsAssumption DEF Entry, Standing, MaxScore

\* Raising a score by IncreasePoSeBanScore harms nobody.
LEMMA IncreaseNoWorse ==
  ASSUME NEW e \in Entry
  PROVE  /\ IncreasePoSeBanScore(e) \in Entry
         /\ NoWorse(e, IncreasePoSeBanScore(e))
  BY BoundsAssumption DEF IncreasePoSeBanScore, Entry, NoWorse, Standing, MaxScore

\* Check bans at the highest score only, and the point that the end of a ban takes
\* off the score is the one that the standing wins back.
LEMMA CheckNoWorse ==
  ASSUME NEW e \in Entry, NEW spent \in BOOLEAN, NEW h \in Int, NEW size \in Int
  PROVE  /\ Check(e, spent, h, size) \in Entry
         /\ NoWorse(e, Check(e, spent, h, size))
<1> DEFINE f == Check(e, spent, h, size)
           d == DecreasePoSeBanScore(e)
<1> USE BoundsAssumption DEF Entry, NoWorse, Standing, MaxScore
<1>1. /\ d \in Entry /\ d.addr = e.addr
      /\ d.score \in Int /\ d.score >= e.score - 1
  BY DEF DecreasePoSeBanScore
<1>2. \/ f = e
      \/ f = [e EXCEPT !.state = "spent"]
      \/ e.state = "banned" /\ f = [d EXCEPT !.state = "active"]
      \/ e.score >= MaxScore /\ f = [e EXCEPT !.state = "banned", !.banHeight = h + size]
  BY Zenon DEF Check
<1> HIDE DEF f, d
<1>3. CASE f = e
  BY <1>3 DEF f
<1>4. CASE f = [e EXCEPT !.state = "spent"]
  <2>1. f \in Entry /\ NoWorse(e, f)
    BY <1>4
  <2> QED
    BY <2>1 DEF f
<1>5. CASE e.state = "banned" /\ f = [d EXCEPT !.state = "active"]
  <2>1. f \in Entry /\ f.score = d.score /\ f.addr = e.addr /\ f.state = "active"
    BY <1>1, <1>5
  <2>2. NoWorse(e, f)
    BY <1>1, <1>5, <2>1, SMTT(60)
  <2> QED
    BY <2>1, <2>2 DEF f
<1>6. CASE e.score >= MaxScore /\ f = [e EXCEPT !.state = "banned", !.banHeight = h + size]
  <2> DEFINE until == h + size
  <2>1. until \in Int
    OBVIOUS
  <2>2. f = [e EXCEPT !.state = "banned", !.banHeight = until]
    BY <1>6
  <2> HIDE DEF until
  <2>3. f.score = e.score /\ f \in Entry
    BY <2>1, <2>2, Zenon
  <2>4. NoWorse(e, f)
    BY <1>6, <2>3
  <2> QED
    BY <2>3, <2>4 DEF f
<1> QED
  BY <1>2, <1>3, <1>4, <1>5, <1>6, SMTT(60)

\* A list each of whose entries is no worse is balanced if the list was.
LEMMA EachNoWorseBalanced ==
  ASSUME NEW list, NEW list2,
         list \in [DOMAIN list -> Entry], list2 \in [DOMAIN list2 -> Entry],
         BalancedList(list), EachNoWorse(list, list2)
  PROVE  BalancedList(list2)
<1> SUFFICES ASSUME NEW m \in DOMAIN list2 \ {activeOutpoint},
                    NEW n \in DOMAIN list2 \ {activeOutpoint},
                    m # n, list2[m].addr = list2[n].addr
             PROVE  Standing(list2[m]) + Standing(list2[n]) >= -MaxScore
  BY DEF BalancedList
<1>1. list2[m] \in Entry /\ list2[n] \in Entry
  OBVIOUS
<1>2. /\ Standing(list2[m]) \in Int /\ Standing(list2[m]) >= -MaxScore
      /\ Standing(list2[n]) \in Int /\ Standing(list2[n]) >= -MaxScore
  BY <1>1, StandingBounds
<1>3. MaxScore \in Nat
  BY BoundsAssumption DEF MaxScore
<1>4. CASE Standing(list2[m]) >= 0 \/ Standing(list2[n]) >= 0
  BY <1>2, <1>3, <1>4, SMTT(60)
<1>5. CASE ~ (Standing(list2[m]) >= 0 \/ Standing(list2[n]) >= 0)
  <2>1. /\ m \in DOMAIN list /\ n \in DOMAIN list
        /\ list2[m].addr = list[m].addr /\ Standing(list2[m]) >= Standing(list[m])
        /\ list2[n].addr = list[n].addr /\ Standing(list2[n]) >= Standing(list[n])
    BY <1>5 DEF EachNoWorse, NoWorse
  <2>2. Standing(list[m]) \in Int /\ Standing(list[n]) \in Int
    BY <2>1, StandingBounds
  <2>3. Standing(list[m]) + Standing(list[n]) >= -MaxScore
    BY <2>1, Zenon DEF BalancedList
  <2> QED
    BY <1>2, <1>3, <2>1, <2>2, <2>3, SMTT(60)
<1> QED
  BY <1>4, <1>5

\* One masternode loses a point at most, and every other one of its address gains
\* one or has the highest score already.
LEMMA VerifiedBalanced ==
  ASSUME NEW list, list \in [DOMAIN list -> Entry], BalancedList(list),
         NEW r \in DOMAIN list, NEW others,
         others = {m \in DOMAIN list : list[m].addr = list[r].addr} \ {r}
  PROVE  /\ Verified(list, {r}, others) \in [DOMAIN list -> Entry]
         /\ BalancedList(Verified(list, {r}, others))
<1> DEFINE list2 == Verified(list, {r}, others)
<1>1. DOMAIN list2 = DOMAIN list
  BY DEF Verified
<1>2. ASSUME NEW m \in DOMAIN list, m # r
      PROVE  /\ list2[m] \in Entry /\ NoWorse(list[m], list2[m])
             /\ list2[m].addr = list[m].addr
             /\ list[m].addr = list[r].addr =>
                  list2[m].score = MaxScore \/ Standing(list2[m]) = Standing(list[m]) + 1
  <2>1. CASE m \in others
    <3>1. list2[m] = IncreasePoSeBanScore(list[m]) /\ list[m] \in Entry
      BY <1>2, <2>1, SMTT(60) DEF Verified
    <3>2. list2[m] \in Entry /\ NoWorse(list[m], list2[m])
      BY <3>1, IncreaseNoWorse, SMTT(60)
    <3>3. /\ list2[m].addr = list[m].addr
          /\ list2[m].score = MaxScore \/ Standing(list2[m]) = Standing(list[m]) + 1
      BY <3>1, BoundsAssumption, SMTT(60)
         DEF IncreasePoSeBanScore, Entry, Standing, MaxScore
    <3> QED
      BY <3>2, <3>3, SMTT(60)
  <2>2. CASE m \notin others
    <3>1. list2[m] = list[m] /\ list[m] \in Entry /\ list[m].addr # list[r].addr
      BY <1>2, <2>2 DEF Verified
    <3> QED
      BY <3>1, StandingBounds DEF NoWorse
  <2> QED
    BY <2>1, <2>2, SMTT(60)
<1>3. /\ list2[r] \in Entry /\ list2[r].addr = list[r].addr
      /\ Standing(list2[r]) >= Standing(list[r]) - 1
  <2>1. list2[r] = IF IsPoSeVerified(list[r]) THEN list[r]
                   ELSE DecreasePoSeBanScore(list[r])
    BY DEF Verified
  <2>2. list[r] \in Entry
    OBVIOUS
  <2> HIDE DEF list2
  <2> QED
    BY <2>1, <2>2, BoundsAssumption, SMTT(60)
       DEF DecreasePoSeBanScore, Entry, Standing, MaxScore
<1>4. list2 \in [DOMAIN list -> Entry]
  BY <1>1, <1>2, <1>3, SMTT(60) DEF Verified
<1>5. MaxScore \in Nat
  BY BoundsAssumption, SMTT(60) DEF MaxScore
<1>6. ASSUME NEW n \in DOMAIN list \ {activeOutpoint}, n # r, r # activeOutpoint,
             list2[r].addr = list2[n].addr
      PROVE  Standing(list2[r]) + Standing(list2[n]) >= -MaxScore
  <2>1. list2[n] \in Entry /\ list2[r] \in Entry /\ list[n] \in Entry
        /\ list[r] \in Entry
    BY <1>4, <1>6, ZenonT(60)
  <2>2. list[n].addr = list[r].addr
    BY <1>2, <1>3, <1>6
  <2>3. Standing(list[r]) + Standing(list[n]) >= -MaxScore
    BY <1>6, <2>2 DEF BalancedList
  <2>4. list2[n].score = MaxScore \/ Standing(list2[n]) = Standing(list[n]) + 1
    BY <1>2, <1>6, <2>2, ZenonT(60)
  <2>5. /\ Standing(list2[r]) \in Int /\ Standing(list2[r]) >= -MaxScore
        /\ Standing(list2[n]) \in Int /\ Standing(list2[n]) >= list2[n].score
        /\ Standing(list[r]) \in Int /\ Standing(list[n]) \in Int
    BY <2>1, StandingBounds
  <2> QED
    BY <1>3, <1>5, <2>3, <2>4, <2>5, SMTT(60)
<1>7. ASSUME NEW m \in DOMAIN list \ {activeOutpoint},
             NEW n \in DOMAIN list \ {activeOutpoint},
             m # n, m # r, n # r, list2[m].addr = list2[n].addr
      PROVE  Standing(list2[m]) + Standing(list2[n]) >= -MaxScore
  <2>1. list2[n] \in Entry /\ list2[m] \in Entry /\ list[n] \in Entry
        /\ list[m] \in Entry
    BY <1>4, <1>7, ZenonT(60)
  <2>2. /\ Standing(list2[m]) \in Int /\ Standing(list2[m]) >= -MaxScore
        /\ Standing(list2[n]) \in Int /\ Standing(list2[n]) >= -MaxScore
        /\ Standing(list[m]) \in Int /\ Standing(list[n]) \in Int
    BY <2>1, StandingBounds
  <2>3. NoWorse(list[m], list2[m]) /\ NoWorse(list[n], list2[n])
        /\ list2[m].addr = list[m].addr /\ list2[n].addr = list[n].addr
    BY <1>2, <1>7
  <2>4. Standing(list[m]) + Standing(list[n]) >= -MaxScore
    BY <1>7, <2>3, SMTT(60) DEF BalancedList
  <2> QED
    BY <1>5, <2>2, <2>3, <2>4 DEF NoWorse
<1>8. BalancedList(list2)
  <2> SUFFICES ASSUME NEW m \in DOMAIN list \ {activeOutpoint},
                      NEW n \in DOMAIN list \ {activeOutpoint},
                      m # n, list2[m].addr = list2[n].addr
               PROVE  Standing(list2[m]) + Standing(list2[n]) >= -MaxScore
    BY <1>1, Zenon DEF BalancedList
  <2> HIDE DEF list2
  <2>1. CASE m = r
    BY <1>6, <2>1
  <2>2. CASE n = r
    <3>1. Standing(list2[n]) + Standing(list2[m]) >= -MaxScore
      BY <1>6, <2>2
    <3>2. Standing(list2[n]) \in Int /\ Standing(list2[m]) \in Int
      BY <1>4, StandingBounds
    <3> QED
      BY <3>1, <3>2
  <2> QED
    BY <1>7, <2>1, <2>2, SMTT(60)
<1> QED
  BY <1>4, <1>8, ZenonT(60)

-----------------------------------------------------------------------------
\* The step of a list whose entries change one by one keeps the invariant.
LEMMA EachStep ==
  ASSUME Inv, mapMasternodes' \in [DOMAIN mapMasternodes' -> Entry],
         DOMAIN mapMasternodes' \subseteq Masternodes,
         nCachedBlockHeight' \in Int, EachNoWorse(mapMasternodes, mapMasternodes')
  PROVE  Inv'
<1>1. BalancedList(mapMasternodes')
  BY EachNoWorseBalanced DEF Inv, PoSeTyped, Listed
<1> QED
  BY <1>1 DEF Inv, PoSeTyped, Listed, BalancedList

\* A reply or a broadcast that counts: one masternode of the address answered.
LEMMA VerifiedStep ==
  ASSUME Inv, NEW r \in Listed, UNCHANGED nCachedBlockHeight,
         mapMasternodes' = Verified(mapMasternodes, {r},
             {m \in Listed : mapMasternodes[m].addr = mapMasternodes[r].addr} \ {r})
  PROVE  Inv'
<1>1. /\ mapMasternodes' \in [DOMAIN mapMasternodes -> Entry]
      /\ BalancedList(mapMasternodes')
  BY VerifiedBalanced, ZenonT(60) DEF Inv, PoSeTyped, Listed
<1> QED
  BY <1>1, Zenon DEF Inv, PoSeTyped, Listed, BalancedList

\* ProcessVerifyReply: of the masternodes at the address at most one has the key
\* that signed.
LEMMA ReplyStep ==
  ASSUME Inv, NEW r, ProcessVerifyReply(r), UNCHANGED nCachedBlockHeight
  PROVE  Inv'
<1> DEFINE at == {m \in Listed : mapMasternodes[m].addr = r.addr}
           real == {m \in at : m = r.signer}
<1>1. \/ UNCHANGED mapMasternodes
      \/ /\ \E m \in real : TRUE
         /\ mapMasternodes' = Verified(mapMasternodes, real, at \ real)
  BY Zenon DEF ProcessVerifyReply
<1>2. CASE UNCHANGED mapMasternodes
  BY <1>2 DEF Inv, PoSeTyped, Listed, BalancedList
<1>3. ASSUME NEW m \in real, mapMasternodes' = Verified(mapMasternodes, real, at \ real)
      PROVE  Inv'
  <2>1. m \in Listed /\ mapMasternodes[m].addr = r.addr /\ real = {m}
    BY <1>3
  <2>2. at = {n \in Listed : mapMasternodes[n].addr = mapMasternodes[m].addr}
    BY <2>1
  <2> HIDE DEF at, real
  <2> QED
    BY <1>3, <2>1, <2>2, VerifiedStep, SMTT(60)
<1> QED
  BY <1>1, <1>2, <1>3

\* ProcessVerifyBroadcast: nothing, or the masternode named by the message.
LEMMA BroadcastStep ==
  ASSUME Inv, NEW v, ProcessVerifyBroadcast(v), UNCHANGED nCachedBlockHeight
  PROVE  Inv'
<1> DEFINE at == {m \in Listed : mapMasternodes[m].addr = v.addr}
<1>1. \/ UNCHANGED mapMasternodes
      \/ /\ v.vin1 \in at
         /\ mapMasternodes' = Verified(mapMasternodes, {v.vin1}, at \ {v.vin1})
  BY DEF ProcessVerifyBroadcast
<1>2. CASE UNCHANGED mapMasternodes
  BY <1>2 DEF Inv, PoSeTyped, Listed, BalancedList
<1>3. CASE /\ v.vin1 \in at
           /\ mapMasternodes' = Verified(mapMasternodes, {v.vin1}, at \ {v.vin1})
  <2>1. v.vin1 \in Listed
        /\ at = {n \in Listed : mapMasternodes[n].addr = mapMasternodes[v.vin1].addr}
    BY <1>3
  <2> HIDE DEF at
  <2> QED
    BY <1>3, <2>1, VerifiedStep, SMTT(60)
<1> QED
  BY <1>1, <1>2, <1>3, SMTT(60)

\* UpdatedBlockTip with CheckSameAddr: some scores rise.
LEMMA TipStep ==
  ASSUME Inv, UpdatedBlockTip
  PROVE  Inv'
<1>1. PICK vBan : mapMasternodes' = Verified(mapMasternodes, {}, vBan)
  BY DEF UpdatedBlockTip
<1>2. ASSUME NEW m \in Listed
      PROVE  mapMasternodes'[m] \in Entry /\ NoWorse(mapMasternodes[m], mapMasternodes'[m])
  <2>1. mapMasternodes[m] \in Entry
    BY <1>2 DEF Inv, PoSeTyped
  <2>2. \/ mapMasternodes'[m] = mapMasternodes[m]
        \/ mapMasternodes'[m] = IncreasePoSeBanScore(mapMasternodes[m])
    BY <1>1, <1>2, SMTT(60) DEF Verified, Listed
  <2> QED
    BY <2>1, <2>2, IncreaseNoWorse, StandingBounds, SMTT(60) DEF NoWorse
<1>3. DOMAIN mapMasternodes' = Listed /\ mapMasternodes' \in [Listed -> Entry]
  BY <1>1, <1>2, SMTT(60) DEF Verified, Listed
<1>4. nCachedBlockHeight' \in Int
  BY DEF UpdatedBlockTip, Inv, PoSeTyped
<1> QED
  BY <1>2, <1>3, <1>4, EachStep, SMTT(60) DEF EachNoWorse, Listed, Inv, PoSeTyped

\* The number of masternodes is a number.
LEMMA SizeType ==
  ASSUME PoSeTyped
  PROVE  Cardinality(Listed) \in Int
<1>1. IsFiniteSet(Listed)
  BY BoundsAssumption, FS_Subset DEF PoSeTyped
<1>2. Cardinality(Listed) \in Nat
  BY <1>1, FS_CardinalityType
<1> QED
  BY <1>2

\* CheckAndRemove: Check on some entries, and some leave.
LEMMA RemoveStep ==
  ASSUME Inv, CheckAndRemove
  PROVE  Inv'
<1> DEFINE size == Cardinality(Listed)
           checked(due, spent) ==
               [m \in Listed |->
                   IF m \notin due THEN mapMasternodes[m]
                   ELSE Check(mapMasternodes[m], m \in spent, nCachedBlockHeight, size)]
<1>1. PICK due \in SUBSET Listed, spent \in SUBSET Listed :
         mapMasternodes' = [m \in {n \in Listed : checked(due, spent)[n].state # "spent"} |->
                               checked(due, spent)[m]]
  BY DEF CheckAndRemove
<1> DEFINE c == checked(due, spent)
<1>2. size \in Int
  BY SizeType DEF Inv
<1> HIDE DEF size
<1>3. ASSUME NEW m \in Listed
      PROVE  c[m] \in Entry /\ NoWorse(mapMasternodes[m], c[m])
  <2>1. mapMasternodes[m] \in Entry /\ nCachedBlockHeight \in Int
    BY <1>3 DEF Inv, PoSeTyped
  <2>2. CASE m \notin due
    BY <2>1, <2>2, StandingBounds, SMTT(60) DEF NoWorse
  <2>3. CASE m \in due
    <3>1. c[m] = Check(mapMasternodes[m], m \in spent, nCachedBlockHeight, size)
      BY <2>3, <1>3
    <3>2. (m \in spent) \in BOOLEAN
      OBVIOUS
    <3> QED
      BY <1>2, <2>1, <3>1, <3>2, CheckNoWorse, Zenon
  <2> QED
    BY <2>2, <2>3, SMTT(60)
<1> HIDE DEF c
<1>4. mapMasternodes' = [m \in {n \in Listed : c[n].state # "spent"} |-> c[m]]
  BY <1>1 DEF c
<1>5. /\ DOMAIN mapMasternodes' \subseteq Listed
      /\ mapMasternodes' \in [DOMAIN mapMasternodes' -> Entry]
      /\ \A m \in DOMAIN mapMasternodes' : NoWorse(mapMasternodes[m], mapMasternodes'[m])
  BY <1>3, <1>4, SMTT(60)
<1>6. nCachedBlockHeight' \in Int
  BY DEF CheckAndRemove, Inv, PoSeTyped
<1>7. EachNoWorse(mapMasternodes, mapMasternodes')
  BY <1>5 DEF EachNoWorse, Listed
<1> QED
  BY <1>5, <1>6, <1>7, EachStep, SMTT(60) DEF Inv, PoSeTyped

\* Replacing the address, the score and the ban height of an entry gives an entry.
LEMMA EntryUpdate ==
  ASSUME NEW Scores, NEW States,
         NEW e \in [addr : Addresses, score : Scores, state : States, banHeight : Int],
         NEW a \in Addresses, NEW k \in Scores, NEW h \in Int
  PROVE  LET u == [e EXCEPT !.addr = a, !.score = k, !.banHeight = h]
         IN  /\ u \in [addr : Addresses, score : Scores, state : States, banHeight : Int]
             /\ u.score = k
BY Zenon

\* An announcement clears the record of a masternode that is not our own.
LEMMA UpdateType ==
  ASSUME NEW e \in Entry, NEW m, NEW a \in Addresses
  PROVE  /\ UpdateFromNewBroadcast(e, m, a) \in Entry
         /\ m # activeOutpoint => UpdateFromNewBroadcast(e, m, a).score = 0
<1> DEFINE k == IF m = activeOutpoint THEN -MaxScore ELSE 0
           u == [e EXCEPT !.addr = a, !.score = k, !.banHeight = 0]
           Scores == -MaxScore .. MaxScore
           States == {"active", "spent", "banned"}
<1>1. k \in Scores /\ (m # activeOutpoint => k = 0) /\ 0 \in Int
  BY BoundsAssumption DEF MaxScore
<1>2. Entry = [addr : Addresses, score : Scores, state : States, banHeight : Int]
  BY DEF Entry
<1> HIDE DEF k, Scores, States
<1>3. u \in Entry /\ u.score = k
  BY <1>1, <1>2, EntryUpdate, ZenonT(60)
<1> QED
  BY <1>1, <1>3, Zenon DEF UpdateFromNewBroadcast, k

\* A new entry starts at zero, a known one starts again at zero unless it is banned.
LEMMA AnnounceStep ==
  ASSUME Inv, NEW m \in Masternodes, NEW a \in Addresses, NewBroadcast(m, a)
  PROVE  Inv'
<1> DEFINE size == Cardinality(Listed)
           new == [addr |-> a, score |-> 0, banHeight |-> 0, state |-> "active"]
           CheckNow(e, spent) == Check(e, spent, nCachedBlockHeight, size)
<1>1. nCachedBlockHeight' = nCachedBlockHeight /\ nCachedBlockHeight \in Int
  BY DEF NewBroadcast, Inv, PoSeTyped
<1>2. size \in Int
  BY SizeType DEF Inv
<1>3. mapMasternodes \in [Listed -> Entry] /\ Listed \subseteq Masternodes
  BY DEF Inv, PoSeTyped
<1>4. ASSUME m \notin Listed,
             mapMasternodes' = [n \in Listed \cup {m} |->
                                   IF n = m THEN new ELSE mapMasternodes[n]]
      PROVE  Inv'
  <2>1. new \in Entry /\ Standing(new) >= 0
    BY BoundsAssumption DEF Entry, Standing, MaxScore
  <2> HIDE DEF new
  <2>2. /\ DOMAIN mapMasternodes' \subseteq Masternodes
        /\ mapMasternodes' \in [DOMAIN mapMasternodes' -> Entry]
    BY <1>3, <1>4, <2>1, SMTT(60)
  <2>3. EachNoWorse(mapMasternodes, mapMasternodes')
    BY <1>3, <1>4, <2>1, StandingBounds, SMTT(60) DEF EachNoWorse, NoWorse, Listed
  <2> QED
    BY <1>1, <2>2, <2>3, EachStep, SMTT(60)
<1>5. ASSUME m \in Listed, NEW f \in Entry,
             m # activeOutpoint => NoWorse(mapMasternodes[m], f),
             mapMasternodes' = [mapMasternodes EXCEPT ![m] = f]
      PROVE  Inv'
  <2>1. /\ DOMAIN mapMasternodes' = Listed
        /\ mapMasternodes' \in [DOMAIN mapMasternodes' -> Entry]
    BY <1>3, <1>5, SMTT(60)
  <2>2. EachNoWorse(mapMasternodes, mapMasternodes')
    BY <1>3, <1>5, StandingBounds, SMTT(60) DEF EachNoWorse, NoWorse, Listed
  <2> QED
    BY <1>1, <1>3, <2>1, <2>2, EachStep, SMTT(60)
<1>6. ASSUME m \in Listed, NEW due \in BOOLEAN, NEW spent \in BOOLEAN
      PROVE  LET e == IF due THEN CheckNow(mapMasternodes[m], spent) ELSE mapMasternodes[m]
                 f == IF e.state = "banned" THEN e
                      ELSE CheckNow(UpdateFromNewBroadcast(e, m, a), spent)
             IN  f \in Entry /\ (m # activeOutpoint => NoWorse(mapMasternodes[m], f))
  <2> DEFINE e == IF due THEN CheckNow(mapMasternodes[m], spent) ELSE mapMasternodes[m]
             u == UpdateFromNewBroadcast(e, m, a)
             f == IF e.state = "banned" THEN e ELSE CheckNow(u, spent)
  <2>1. mapMasternodes[m] \in Entry
    BY <1>3, <1>6, SMTT(60)
  <2> HIDE DEF size
  <2>2. e \in Entry /\ NoWorse(mapMasternodes[m], e)
    <3>1. CASE due
      BY <1>1, <1>2, <1>6, <2>1, <3>1, CheckNoWorse, SMTT(60)
    <3>2. CASE ~ due
      BY <2>1, <3>2, StandingBounds, SMTT(60) DEF NoWorse
    <3> QED
      BY <3>1, <3>2, SMTT(60)
  <2> HIDE DEF e
  <2>3. u \in Entry /\ (m # activeOutpoint => u.score = 0)
    BY <2>2, UpdateType, SMTT(60)
  <2> HIDE DEF u
  <2>4. CheckNow(u, spent) \in Entry /\ NoWorse(u, CheckNow(u, spent))
    BY <1>1, <1>2, <1>6, <2>3, CheckNoWorse, SMTT(60)
  <2> DEFINE c == CheckNow(u, spent)
  <2> HIDE DEF c
  <2>5. c \in Entry /\ NoWorse(u, c)
    BY <2>4 DEF c
  <2>6. m # activeOutpoint => Standing(c) >= 0
    <3>1. Standing(c) \in Int /\ Standing(u) \in Int /\ Standing(u) >= u.score
      BY <2>3, <2>5, StandingBounds, SMTT(60)
    <3> QED
      BY <2>3, <2>5, <3>1, SMTT(60) DEF NoWorse
  <2> QED
    BY <2>2, <2>5, <2>6, SMTT(60) DEF NoWorse, e, u, c
<1>7. CASE m \notin Listed
  BY <1>4, <1>7, SMTT(60) DEF NewBroadcast
<1>8. CASE m \in Listed
  <2>1. PICK due \in BOOLEAN, spent \in BOOLEAN :
           LET e == IF due THEN CheckNow(mapMasternodes[m], spent) ELSE mapMasternodes[m]
               f == IF e.state = "banned" THEN e
                    ELSE CheckNow(UpdateFromNewBroadcast(e, m, a), spent)
           IN  mapMasternodes' = [mapMasternodes EXCEPT ![m] = f]
    BY <1>8, Zenon DEF NewBroadcast
  <2> QED
    BY <1>5, <1>6, <1>8, <2>1, ZenonT(60)
<1> QED
  BY <1>7, <1>8, SMTT(60)

\* InstantSend sets the highest score.
LEMMA PoSeBanStep ==
  ASSUME Inv, NEW m \in Masternodes, PoSeBan(m)
  PROVE  Inv'
<1> DEFINE f == [mapMasternodes[m] EXCEPT !.score = MaxScore]
<1>1. /\ m \in Listed /\ nCachedBlockHeight' \in Int
      /\ mapMasternodes' = [mapMasternodes EXCEPT ![m] = f]
  BY DEF PoSeBan, Inv, PoSeTyped
<1>2. mapMasternodes \in [Listed -> Entry] /\ Listed \subseteq Masternodes
  BY DEF Inv, PoSeTyped
<1>3. f \in Entry /\ Standing(f) >= 0
  <2>1. mapMasternodes[m] \in Entry
    BY <1>1, <1>2, SMTT(60)
  <2> QED
    BY <2>1, BoundsAssumption, SMTT(60) DEF Entry, Standing, MaxScore
<1> HIDE DEF f
<1>4. /\ DOMAIN mapMasternodes' = Listed
      /\ mapMasternodes' \in [DOMAIN mapMasternodes' -> Entry]
  BY <1>1, <1>2, <1>3, SMTT(60)
<1>5. EachNoWorse(mapMasternodes, mapMasternodes')
  BY <1>1, <1>2, <1>3, StandingBounds, SMTT(60) DEF EachNoWorse, NoWorse, Listed
<1> QED
  BY <1>1, <1>2, <1>4, <1>5, EachStep

\* Every step keeps the inductive invariant.
LEMMA StepInv == Inv /\ [Next]_vars => Inv'
<1> SUFFICES ASSUME Inv, [Next]_vars PROVE Inv'
  OBVIOUS
<1>1. CASE UNCHANGED <<mapMasternodes, nCachedBlockHeight>>
  BY <1>1 DEF Inv, PoSeTyped, Listed, BalancedList
<1>2. CASE DoFullVerificationStep
  BY <1>1, <1>2, Zenon DEF DoFullVerificationStep
<1>3. CASE ProcessMessage
  BY <1>3, ReplyStep, BroadcastStep, SMTT(60) DEF ProcessMessage
<1>4. CASE UpdatedBlockTip
  BY <1>4, TipStep, SMTT(60)
<1>5. CASE CheckAndRemove
  BY <1>5, RemoveStep, SMTT(60)
<1>6. ASSUME NEW m \in Masternodes, NEW a \in Addresses, NewBroadcast(m, a) PROVE Inv'
  BY <1>6, AnnounceStep, SMTT(60)
<1>7. ASSUME NEW m \in Masternodes, PoSeBan(m) PROVE Inv'
  BY <1>7, PoSeBanStep, SMTT(60)
<1>8. CASE Expire \/ Restart \/ SendVerifyReply
  BY <1>1, <1>8, SMTT(60) DEF Expire, Restart, SendVerifyReply
<1>9. ASSUME NEW v \in Masternodes \ {activeOutpoint}, NEW a \in Addresses,
             OtherVerifies(v, a)
      PROVE  Inv'
  BY <1>1, <1>9, SMTT(60) DEF OtherVerifies
<1>10. ASSUME NEW m \in Masternodes, NEW a \in Addresses, StartAt(m, a) PROVE Inv'
  BY <1>1, <1>10, SMTT(60) DEF StartAt
<1>11. CASE UNCHANGED vars
  BY <1>1, <1>11, SMTT(60) DEF vars
<1> QED
  BY <1>2, <1>3, <1>4, <1>5, <1>6, <1>7, <1>8, <1>9, <1>10, <1>11, SMTT(60) DEF Next

\* Two verified masternodes of one address would have too low a sum.
LEMMA InvUnique == Inv => VerifiedUnique
<1> SUFFICES ASSUME Inv, NEW m \in Listed \ {activeOutpoint},
                    NEW n \in Listed \ {activeOutpoint}, m # n,
                    mapMasternodes[m].addr = mapMasternodes[n].addr,
                    IsPoSeVerified(mapMasternodes[m]), IsPoSeVerified(mapMasternodes[n])
             PROVE  FALSE
  BY Zenon DEF VerifiedUnique, Inv
<1>1. mapMasternodes[m] \in Entry /\ mapMasternodes[n] \in Entry
  BY DEF Inv, PoSeTyped
<1>2. /\ Standing(mapMasternodes[m]) \in Int /\ Standing(mapMasternodes[m]) <= 1 - MaxScore
      /\ Standing(mapMasternodes[n]) \in Int /\ Standing(mapMasternodes[n]) <= 1 - MaxScore
  BY <1>1, BoundsAssumption, SMTT(60) DEF IsPoSeVerified, Standing, Entry, MaxScore
<1>3. Standing(mapMasternodes[m]) + Standing(mapMasternodes[n]) >= -MaxScore
  BY DEF Inv, BalancedList, Listed
<1>4. MaxScore \in Nat /\ MaxScore >= 3
  BY BoundsAssumption DEF MaxScore
<1> QED
  BY <1>2, <1>3, <1>4, SMTT(60)

\* DoFullVerificationStep, ProcessVerifyReply and ProcessVerifyBroadcast verify at
\* most one masternode of an address, other than our own, whatever the order.
THEOREM VerifiedAlwaysUnique == Spec => []VerifiedUnique
<1>1. Init => Inv
  BY BoundsAssumption, LoadedAssumption DEF Init, Inv, PoSeTyped, Listed
<1> QED
  BY <1>1, StepInv, InvUnique, PTL DEF Spec

-----------------------------------------------------------------------------
(* A verification counts once *)

\* What asks for an answer, of the messages N on their way.
Pending(N) == {msg \in N : msg.type \in {"request", "reply"}}

MsgType == {"request", "reply", "verified"}

Nonce(msg) == IF msg.type = "verified" THEN msg.mnv.nonce ELSE msg.nonce

Height(msg) == IF msg.type = "verified" THEN msg.mnv.height ELSE msg.height

\* Up to k the nonces are used, each for one request or reply, or for what came of
\* it: one message N, or one of the verifications D that were counted.
NonceInv(N, k, D) ==
    /\ k \in Nat
    /\ \A msg \in N : /\ msg.type \in MsgType
                      /\ Nonce(msg) \in Int /\ Nonce(msg) <= k
                      /\ Height(msg) \in Int
    /\ \A p \in Pending(N), msg \in N : Nonce(p) = Nonce(msg) => p = msg
    /\ \A v \in D : /\ v.nonce \in Int /\ v.nonce <= k
                    /\ \A p \in Pending(N) : Nonce(p) # v.nonce

\* What was counted is remembered, or too old to be counted again.
CountsInv ==
    \A v \in DOMAIN counts :
        /\ counts[v] = 1
        /\ v.height \in Int
        /\ v \in mapSeenMasternodeVerification \/ TooOld(v.height)

OnceInv == NonceInv(net, nNonce, DOMAIN counts) /\ CountsInv

\* Messages may be lost.
LEMMA NonceDrop ==
  ASSUME NEW N, NEW k, NEW D, NonceInv(N, k, D), NEW M \in SUBSET N
  PROVE  NonceInv(M, k, D)
  BY Zenon DEF NonceInv, Pending

\* Messages with new nonces may be sent.
LEMMA NonceAdd ==
  ASSUME NEW N, NEW k, NEW D, NonceInv(N, k, D), NEW l \in Nat, l >= k, NEW M,
         \A msg \in M : /\ msg.type \in MsgType
                        /\ Nonce(msg) \in k + 1 .. l
                        /\ Height(msg) \in Int,
         \A p, q \in M : Nonce(p) = Nonce(q) => p = q
  PROVE  NonceInv(N \cup M, l, D)
<1> HIDE DEF Nonce, Height
<1>1. k \in Nat /\ \A msg \in N : Nonce(msg) \in Int /\ Nonce(msg) <= k
  BY DEF NonceInv
<1>2. \A msg \in M, old \in N : Nonce(msg) # Nonce(old)
  BY <1>1
<1>3. \A msg \in N \cup M : /\ msg.type \in MsgType
                            /\ Nonce(msg) \in Int /\ Nonce(msg) <= l
                            /\ Height(msg) \in Int
  BY <1>1 DEF NonceInv
<1>4. \A p \in Pending(N \cup M), msg \in N \cup M : Nonce(p) = Nonce(msg) => p = msg
  BY <1>2, Zenon DEF NonceInv, Pending
<1>5. ASSUME NEW v \in D
      PROVE  /\ v.nonce \in Int /\ v.nonce <= l
             /\ \A p \in Pending(N \cup M) : Nonce(p) # v.nonce
  <2>1. /\ v.nonce \in Int /\ v.nonce <= k
        /\ \A p \in Pending(N) : Nonce(p) # v.nonce
    BY DEF NonceInv
  <2>2. \A p \in M : Nonce(p) # v.nonce
    BY <1>1, <2>1
  <2>3. v.nonce <= l
    BY <1>1, <2>1
  <2> QED
    BY <2>1, <2>2, <2>3, Zenon DEF Pending
<1> QED
  BY <1>3, <1>4, <1>5, Zenon DEF NonceInv

\* An answer takes the place and the nonce of what it answers.
LEMMA NonceAnswer ==
  ASSUME NEW N, NEW k, NEW D, NonceInv(N, k, D), NEW r \in Pending(N), NEW s,
         s.type \in MsgType, Nonce(s) = Nonce(r),
         Height(s) \in Int, NEW M, M = (N \ {r}) \cup {s}
  PROVE  NonceInv(M, k, D)
<1> HIDE DEF Nonce, Height
<1>1. r \in N
  BY DEF Pending
<1>2. \A msg \in N \ {r} : Nonce(msg) # Nonce(r)
  BY <1>1, Zenon DEF NonceInv
<1>3. \A msg \in M : /\ msg.type \in MsgType
                     /\ Nonce(msg) \in Int /\ Nonce(msg) <= k
                     /\ Height(msg) \in Int
  BY <1>1, Zenon DEF NonceInv
<1>4. \A p \in Pending(M), msg \in M : Nonce(p) = Nonce(msg) => p = msg
  BY <1>2, Zenon DEF NonceInv, Pending
<1>5. \A v \in D : \A p \in Pending(M) : Nonce(p) # v.nonce
  BY Zenon DEF NonceInv, Pending
<1> QED
  BY <1>3, <1>4, <1>5, Zenon DEF NonceInv

\* A verification that was received may be counted.
LEMMA NonceCount ==
  ASSUME NEW N, NEW k, NEW D, NonceInv(N, k, D), NEW msg \in N, msg.type = "verified"
  PROVE  NonceInv(N, k, D \cup {msg.mnv}) /\ msg.mnv.height \in Int
<1>1. Nonce(msg) = msg.mnv.nonce /\ Height(msg) = msg.mnv.height
  BY DEF Nonce, Height
<1>2. msg \notin Pending(N)
  BY DEF Pending
<1> HIDE DEF Nonce, Height
<1>3. /\ msg.mnv.nonce \in Int /\ msg.mnv.nonce <= k
      /\ \A p \in Pending(N) : Nonce(p) # msg.mnv.nonce
  BY <1>1, <1>2, Zenon DEF NonceInv
<1>4. msg.mnv.height \in Int
  BY <1>1, Zenon DEF NonceInv
<1> QED
  BY <1>3, <1>4, Zenon DEF NonceInv

\* Counting for the first time.
LEMMA CountFirst ==
  ASSUME CountsInv, NEW v, v \notin DOMAIN counts, Count(v)
  PROVE  /\ DOMAIN counts' = DOMAIN counts \cup {v}
         /\ \A n \in DOMAIN counts' : counts'[n] = 1
<1>1. \A n \in DOMAIN counts : counts[n] = 1
  BY DEF CountsInv
<1> QED
  BY <1>1 DEF Count

\* Elements of a finite set of numbers are counted off one by one.
LEMMA NthFacts ==
  ASSUME NEW S, IsFiniteSet(S), S \subseteq Int
  PROVE  /\ Cardinality(S) \in Nat
         /\ \A i \in S : Nth(S, i) \in 1 .. Cardinality(S)
         /\ \A i, j \in S : Nth(S, i) = Nth(S, j) => i = j
<1> DEFINE upto(i) == {j \in S : j <= i}
<1>1. Cardinality(S) \in Nat
  BY FS_CardinalityType
<1>2. ASSUME NEW i \in S
      PROVE  /\ IsFiniteSet(upto(i)) /\ Cardinality(upto(i)) \in Nat
             /\ Cardinality(upto(i)) <= Cardinality(S)
  <2>1. upto(i) \in SUBSET S
    OBVIOUS
  <2>2. IsFiniteSet(upto(i)) /\ Cardinality(upto(i)) <= Cardinality(S)
    BY <2>1, FS_Subset, Zenon
  <2>3. Cardinality(upto(i)) \in Nat
    BY <2>2, FS_CardinalityType, Zenon
  <2> QED
    BY <2>2, <2>3
<1>3. ASSUME NEW i \in S
      PROVE  Cardinality(upto(i)) # 0
  <2>1. upto(i) # {}
    <3>1. i \in upto(i)
      OBVIOUS
    <3> QED
      BY <3>1
  <2> QED
    BY <1>2, <2>1, FS_EmptySet, Zenon
<1>4. ASSUME NEW i \in S, NEW j \in S, i < j
      PROVE  Cardinality(upto(i)) # Cardinality(upto(j))
  <2>1. upto(i) \in SUBSET upto(j) /\ j \in upto(j) /\ j \notin upto(i)
    <3>1. \A k \in S : k <= i => k <= j
      BY <1>4
    <3>2. j <= j /\ ~(j <= i)
      BY <1>4
    <3> QED
      BY <3>1, <3>2, Zenon
  <2>2. upto(j) # upto(i)
    BY <2>1
  <2>3. IsFiniteSet(upto(j))
    BY <1>2
  <2> HIDE DEF upto
  <2>4. Cardinality(upto(j)) = Cardinality(upto(i)) => upto(j) = upto(i)
    BY <2>1, <2>3, FS_Subset, Zenon
  <2> QED
    BY <2>2, <2>4, Zenon
<1>5. ASSUME NEW i \in S, NEW j \in S, Nth(S, i) = Nth(S, j)
      PROVE  i = j
  <2>1. Cardinality(upto(i)) = Cardinality(upto(j))
    BY <1>5 DEF Nth
  <2>2. i \in Int /\ j \in Int
    OBVIOUS
  <2> HIDE DEF upto
  <2> QED
    BY <1>4, <2>1, <2>2
<1>6. ASSUME NEW i \in S
      PROVE  Nth(S, i) \in 1 .. Cardinality(S)
  <2>1. Nth(S, i) = Cardinality(upto(i))
    BY DEF Nth
  <2> HIDE DEF upto
  <2> QED
    BY <1>1, <1>2, <1>3, <2>1
<1> QED
  BY <1>1, <1>5, <1>6

\* The requests of one step have new nonces, each its own.
LEMMA RequestsFresh ==
  ASSUME PoSeTyped, nNonce \in Nat, DoFullVerificationStep
  PROVE  /\ nNonce' \in Nat /\ nNonce' >= nNonce
         /\ \E sent :
              /\ net' = net \cup {[type |-> "request", addr |-> r.addr, nonce |-> r.nonce,
                                   height |-> nCachedBlockHeight - 1] : r \in sent}
              /\ \A r \in sent : r.nonce \in nNonce + 1 .. nNonce'
              /\ \A r, s \in sent : r.nonce = s.nonce => r = s
<1> DEFINE nHeight == nCachedBlockHeight - 1
           size == Cardinality(Listed)
           nOffset == MAX_POSE_RANK + GetMasternodeRank(activeOutpoint, nHeight)
           turns == {k \in nOffset .. size : (k - nOffset) % MAX_POSE_CONNECTIONS = 0}
           turn == [i \in turns |-> GetMasternodeRanks(nHeight)[i]]
           asked == Asked(turn)
           sent == {[addr |-> mapMasternodes[turn[i]].addr, nonce |-> nNonce + Nth(asked, i)] :
                       i \in asked}
<1>1. /\ nNonce' = nNonce + Cardinality(asked)
      /\ net' = net \cup {[type |-> "request", addr |-> r.addr, nonce |-> r.nonce,
                           height |-> nCachedBlockHeight - 1] : r \in sent}
  BY Zenon DEF DoFullVerificationStep
<1>2. asked \subseteq DOMAIN turn
  <2> HIDE DEF turn
  <2> QED
    BY DEF Asked
<1>3. DOMAIN turn = turns
  OBVIOUS
<1>4. IsFiniteSet(nOffset .. size) /\ nOffset .. size \subseteq Int
  <2>1. IsFiniteSet(Listed)
    BY BoundsAssumption, FS_Subset DEF PoSeTyped
  <2>2. size \in Int
    BY SizeType
  <2>3. nOffset \in Int
    <3> DEFINE better == {n \in Listed : CalculateScore[nHeight][n] > CalculateScore[nHeight][activeOutpoint]}
    <3>1. better \in SUBSET Listed
      OBVIOUS
    <3>2. IsFiniteSet(better)
      BY <2>1, <3>1, FS_Subset, Zenon
    <3>3. Cardinality(better) \in Nat
      BY <3>2, FS_CardinalityType, Zenon
    <3>4. nOffset = MAX_POSE_RANK + (1 + Cardinality(better))
      BY Zenon DEF GetMasternodeRank
    <3> HIDE DEF better, nOffset
    <3> QED
      BY <3>3, <3>4, BoundsAssumption
  <2> HIDE DEF size, nOffset
  <2> QED
    BY <2>2, <2>3, FS_Interval
<1>5. asked \in SUBSET (nOffset .. size)
  <2>1. turns \subseteq nOffset .. size
    BY Zenon
  <2> HIDE DEF turns, turn, asked
  <2> QED
    BY <1>2, <1>3, <2>1, Zenon
<1> HIDE DEF asked, turn, turns, nOffset, size
<1>6. IsFiniteSet(asked) /\ asked \subseteq Int
  BY <1>4, <1>5, FS_Subset, Zenon
<1>7. /\ Cardinality(asked) \in Nat
      /\ \A i \in asked : Nth(asked, i) \in 1 .. Cardinality(asked)
      /\ \A i, j \in asked : Nth(asked, i) = Nth(asked, j) => i = j
  BY <1>6, NthFacts, Zenon
<1>8. \A r \in sent : r.nonce \in nNonce + 1 .. nNonce'
  BY <1>1, <1>7
<1>9. ASSUME NEW r \in sent, NEW s \in sent, r.nonce = s.nonce
      PROVE  r = s
  <2>1. PICK i \in asked : r = [addr |-> mapMasternodes[turn[i]].addr,
                                nonce |-> nNonce + Nth(asked, i)]
    BY <1>9
  <2>2. PICK j \in asked : s = [addr |-> mapMasternodes[turn[j]].addr,
                                nonce |-> nNonce + Nth(asked, j)]
    BY <1>9
  <2>3. nNonce + Nth(asked, i) = nNonce + Nth(asked, j)
    BY <1>9, <2>1, <2>2
  <2>4. Nth(asked, i) \in Int /\ Nth(asked, j) \in Int
    BY <1>7
  <2>5. Nth(asked, i) = Nth(asked, j)
    <3>1. \A k, l \in Int : nNonce + k = nNonce + l => k = l
      OBVIOUS
    <3> QED
      BY <2>3, <2>4, <3>1, Zenon
  <2>6. i = j
    BY <1>7, <2>5
  <2> QED
    BY <2>1, <2>2, <2>6
<1>10. nNonce' \in Nat /\ nNonce' >= nNonce
  BY <1>1, <1>7
<1> HIDE DEF sent
<1> QED
  BY <1>1, <1>8, <1>9, <1>10, Zenon

\* What is too old stays so.
LEMMA OlderYet ==
  ASSUME NEW h \in Int, NEW a \in Int, NEW b \in Int, NEW n \in Int, h < a - n, b >= a
  PROVE  h < b - n
  OBVIOUS

\* Steps that send and count nothing, and forget only what is too old.
LEMMA QuietOnce ==
  ASSUME OnceInv, PoSeTyped, UNCHANGED <<net, nNonce, counts>>,
         nCachedBlockHeight' \in Int, nCachedBlockHeight' >= nCachedBlockHeight,
         \A v \in mapSeenMasternodeVerification :
             v \in mapSeenMasternodeVerification' \/ TooOld(v.height)
  PROVE  OnceInv'
<1>1. NonceInv(net, nNonce, DOMAIN counts)'
  BY Zenon DEF OnceInv, NonceInv, Pending, Nonce, Height
<1>2. ASSUME NEW h \in Int, TooOld(h)
      PROVE  TooOld(h)'
  <2>1. nCachedBlockHeight \in Int /\ MAX_POSE_BLOCKS \in Int
    BY BoundsAssumption DEF PoSeTyped
  <2>2. h < nCachedBlockHeight - MAX_POSE_BLOCKS
    BY <1>2 DEF TooOld
  <2>3. h < nCachedBlockHeight' - MAX_POSE_BLOCKS
    BY <2>1, <2>2, OlderYet, Zenon
  <2> QED
    BY <2>3 DEF TooOld
<1>3. CountsInv'
  BY <1>2, Zenon DEF OnceInv, CountsInv
<1> QED
  BY <1>1, <1>3 DEF OnceInv

\* A restart forgets the history, too.
LEMMA RestartOnce ==
  ASSUME OnceInv, Restart
  PROVE  OnceInv'
<1>1. counts' = <<>> /\ UNCHANGED <<net, nNonce>>
  BY DEF Restart
<1>2. DOMAIN counts' = {}
  BY <1>1
<1> QED
  BY <1>1, <1>2, Zenon DEF OnceInv, CountsInv, NonceInv, Pending, Nonce, Height

\* What is sent, dropped or answered outside the list leaves what was counted.
LEMMA NetOnce ==
  ASSUME OnceInv, NonceInv(net', nNonce', DOMAIN counts),
         UNCHANGED <<counts, mapSeenMasternodeVerification, nCachedBlockHeight>>
  PROVE  OnceInv'
<1>1. NonceInv(net, nNonce, DOMAIN counts)'
  BY Zenon DEF NonceInv, Pending, Nonce, Height
<1>2. CountsInv'
  BY Zenon DEF OnceInv, CountsInv, TooOld
<1> QED
  BY <1>1, <1>2 DEF OnceInv

LEMMA RequestOnce ==
  ASSUME OnceInv, PoSeTyped, DoFullVerificationStep
  PROVE  OnceInv'
<1>1. nNonce \in Nat /\ NonceInv(net, nNonce, DOMAIN counts)
  BY DEF OnceInv, NonceInv
<1>2. nNonce' \in Nat /\ nNonce' >= nNonce
  BY <1>1, RequestsFresh, Zenon
<1>3. PICK sent :
        /\ net' = net \cup {[type |-> "request", addr |-> r.addr, nonce |-> r.nonce,
                             height |-> nCachedBlockHeight - 1] : r \in sent}
        /\ \A r \in sent : r.nonce \in nNonce + 1 .. nNonce'
        /\ \A r, s \in sent : r.nonce = s.nonce => r = s
  BY <1>1, RequestsFresh, Zenon
<1> DEFINE M == {[type |-> "request", addr |-> r.addr, nonce |-> r.nonce,
                  height |-> nCachedBlockHeight - 1] : r \in sent}
<1>4. \A msg \in M : /\ msg.type \in MsgType
                     /\ Nonce(msg) \in nNonce + 1 .. nNonce'
                     /\ Height(msg) \in Int
  BY <1>3 DEF Nonce, Height, PoSeTyped, MsgType
<1>5. \A p, q \in M : Nonce(p) = Nonce(q) => p = q
  BY <1>3 DEF Nonce
<1>6. net' = net \cup M
  BY <1>3
<1> HIDE DEF M
<1>7. NonceInv(net', nNonce', DOMAIN counts)
  BY <1>1, <1>2, <1>4, <1>5, <1>6, NonceAdd, Zenon
<1>8. UNCHANGED <<counts, mapSeenMasternodeVerification, nCachedBlockHeight>>
  BY Zenon DEF DoFullVerificationStep
<1> QED
  BY <1>7, <1>8, NetOnce, Zenon

\* The masternode at the address answers or does not.
LEMMA AnswerOnce ==
  ASSUME OnceInv, SendVerifyReply
  PROVE  OnceInv'
<1>1. PICK r \in net :
        /\ r.type = "request"
        /\ \/ net' = net \ {r}
           \/ net' = (net \ {r}) \cup {[type |-> "reply", addr |-> r.addr, nonce |-> r.nonce,
                                       height |-> r.height, signer |-> host[r.addr]]}
  BY Zenon DEF SendVerifyReply
<1> DEFINE s == [type |-> "reply", addr |-> r.addr, nonce |-> r.nonce,
                 height |-> r.height, signer |-> host[r.addr]]
<1>2. NonceInv(net, nNonce, DOMAIN counts) /\ r \in Pending(net) /\ Height(r) \in Int
  BY <1>1, Zenon DEF OnceInv, NonceInv, Pending
<1>3. /\ s.type \in MsgType
      /\ Nonce(s) = Nonce(r) /\ Height(s) = Height(r)
  BY <1>1 DEF Nonce, Height, MsgType
<1>4. net' = net \ {r} \/ net' = (net \ {r}) \cup {s}
  BY <1>1
<1> HIDE DEF s
<1>5. NonceInv(net', nNonce, DOMAIN counts)
  <2>1. CASE net' = net \ {r}
    BY <1>2, <2>1, NonceDrop, Zenon
  <2>2. CASE net' = (net \ {r}) \cup {s}
    <3>1. Height(s) \in Int
      BY <1>2, <1>3
    <3> QED
      BY <1>2, <1>3, <2>2, <3>1, NonceAnswer, Zenon
  <2> QED
    BY <1>4, <2>1, <2>2
<1>6. UNCHANGED <<counts, mapSeenMasternodeVerification, nCachedBlockHeight, nNonce>>
  BY Zenon DEF SendVerifyReply
<1> QED
  BY <1>5, <1>6, NetOnce, Zenon

\* Another masternode broadcasts a verification with a nonce of its own.
LEMMA OtherOnce ==
  ASSUME OnceInv, PoSeTyped, NEW v, NEW a, OtherVerifies(v, a)
  PROVE  OnceInv'
<1>1. nNonce \in Nat /\ nNonce' = nNonce + 1 /\ NonceInv(net, nNonce, DOMAIN counts)
  BY DEF OnceInv, NonceInv, OtherVerifies
<1>2. PICK h \in {nCachedBlockHeight - 1, nCachedBlockHeight + 1} :
        net' = net \cup {[type |-> "verified",
                         mnv |-> [vin1 |-> host[a], vin2 |-> v, addr |-> a, nonce |-> nNonce',
                                  height |-> h, signer |-> host[a]]]}
  BY Zenon DEF OtherVerifies
<1> DEFINE msg == [type |-> "verified",
                   mnv |-> [vin1 |-> host[a], vin2 |-> v, addr |-> a, nonce |-> nNonce',
                            height |-> h, signer |-> host[a]]]
<1>3. msg.type \in MsgType /\ Nonce(msg) = nNonce' /\ Height(msg) = h
  BY DEF Nonce, Height, MsgType
<1>4. nNonce' \in nNonce + 1 .. nNonce' /\ h \in Int /\ nNonce' \in Nat /\ nNonce' >= nNonce
  BY <1>1, <1>2 DEF PoSeTyped
<1>5. net' = net \cup {msg}
  BY <1>2
<1> HIDE DEF msg
<1>6. NonceInv(net', nNonce', DOMAIN counts)
  <2>1. \A m \in {msg} : /\ m.type \in MsgType
                         /\ Nonce(m) \in nNonce + 1 .. nNonce'
                         /\ Height(m) \in Int
    BY <1>3, <1>4, Zenon
  <2>2. \A p, q \in {msg} : Nonce(p) = Nonce(q) => p = q
    BY Zenon
  <2> QED
    BY <1>1, <1>4, <1>5, <2>1, <2>2, NonceAdd, Zenon
<1>7. UNCHANGED <<counts, mapSeenMasternodeVerification, nCachedBlockHeight>>
  BY Zenon DEF OtherVerifies
<1> QED
  BY <1>6, <1>7, NetOnce, Zenon

\* A verification v of the messages N is counted, for the first time, and remembered.
LEMMA CountedStep ==
  ASSUME OnceInv, NEW msg \in net', msg.type = "verified",
         NonceInv(net', nNonce, DOMAIN counts),
         msg.mnv \notin DOMAIN counts, Count(msg.mnv), Remember(msg.mnv),
         UNCHANGED <<nNonce, nCachedBlockHeight>>
  PROVE  OnceInv'
<1> DEFINE v == msg.mnv
<1>1. NonceInv(net', nNonce, DOMAIN counts \cup {v}) /\ v.height \in Int
  BY NonceCount, Zenon
<1>2. /\ DOMAIN counts' = DOMAIN counts \cup {v}
      /\ \A n \in DOMAIN counts' : counts'[n] = 1
  BY CountFirst, Zenon DEF OnceInv
<1>3. mapSeenMasternodeVerification' = mapSeenMasternodeVerification \cup {v}
  BY DEF Remember
<1> HIDE DEF v
<1>4. NonceInv(net, nNonce, DOMAIN counts)'
  BY <1>1, <1>2, Zenon DEF NonceInv, Pending, Nonce, Height
<1>5. CountsInv'
  BY <1>1, <1>2, <1>3, Zenon DEF OnceInv, CountsInv, TooOld
<1> QED
  BY <1>4, <1>5 DEF OnceInv

\* A reply is consumed; what it verifies has its nonce and was not counted before.
LEMMA ReplyOnce ==
  ASSUME OnceInv, NEW r \in net, r.type = "reply", ProcessVerifyReply(r),
         UNCHANGED <<nNonce, nCachedBlockHeight>>
  PROVE  OnceInv'
<1> DEFINE mnv(m) == [vin1 |-> m, vin2 |-> activeOutpoint, addr |-> r.addr,
                      nonce |-> r.nonce, height |-> r.height, signer |-> r.signer]
           s(m) == [type |-> "verified", mnv |-> mnv(m)]
<1>1. \/ net' = net \ {r} /\ UNCHANGED <<mapSeenMasternodeVerification, counts>>
      \/ \E m : /\ net' = (net \ {r}) \cup {s(m)}
                /\ Count(mnv(m)) /\ Remember(mnv(m))
  BY Zenon DEF ProcessVerifyReply
<1>2. NonceInv(net, nNonce, DOMAIN counts) /\ r \in Pending(net) /\ Height(r) \in Int
  BY Zenon DEF OnceInv, NonceInv, Pending
<1>3. CASE net' = net \ {r} /\ UNCHANGED <<mapSeenMasternodeVerification, counts>>
  <2>1. NonceInv(net', nNonce', DOMAIN counts)
    BY <1>2, <1>3, NonceDrop, Zenon
  <2> QED
    BY <1>3, <2>1, NetOnce, Zenon
<1>4. ASSUME NEW m, net' = (net \ {r}) \cup {s(m)}, Count(mnv(m)), Remember(mnv(m))
      PROVE  OnceInv'
  <2>1. /\ s(m).type = "verified" /\ s(m).mnv = mnv(m)
        /\ Nonce(s(m)) = r.nonce /\ Height(s(m)) = r.height /\ mnv(m).nonce = r.nonce
        /\ Nonce(r) = r.nonce /\ Height(r) = r.height
    BY DEF Nonce, Height
  <2> HIDE DEF s, mnv
  <2>2. NonceInv(net', nNonce, DOMAIN counts)
    <3>1. /\ s(m).type \in MsgType
          /\ Nonce(s(m)) = Nonce(r) /\ Height(s(m)) \in Int
      BY <1>2, <2>1 DEF MsgType
    <3> QED
      BY <1>2, <1>4, <3>1, NonceAnswer, ZenonT(60)
  <2>3. mnv(m) \notin DOMAIN counts
    BY <1>2, <2>1, Zenon DEF NonceInv
  <2>4. s(m) \in net'
    BY <1>4, Zenon
  <2> QED
    BY <1>4, <2>1, <2>2, <2>3, <2>4, CountedStep, Zenon
<1> QED
  BY <1>1, <1>3, <1>4, Zenon

\* A broadcast is counted only if it is neither remembered nor too old.
LEMMA BroadcastOnce ==
  ASSUME OnceInv, NEW msg \in net, msg.type = "verified",
         ProcessVerifyBroadcast(msg.mnv), UNCHANGED <<net, nNonce, nCachedBlockHeight>>
  PROVE  OnceInv'
<1> DEFINE v == msg.mnv
<1>1. /\ v \notin mapSeenMasternodeVerification /\ Remember(v)
      /\ UNCHANGED counts \/ (~TooOld(v.height) /\ Count(v))
  BY Zenon DEF ProcessVerifyBroadcast
<1>2. NonceInv(net', nNonce, DOMAIN counts)
  BY Zenon DEF OnceInv, NonceInv
<1>3. CASE UNCHANGED counts
  <2>1. NonceInv(net, nNonce, DOMAIN counts)'
    BY <1>2, <1>3, Zenon DEF NonceInv, Pending, Nonce, Height
  <2>2. CountsInv'
    BY <1>1, <1>3, Zenon DEF OnceInv, CountsInv, TooOld, Remember
  <2> QED
    BY <2>1, <2>2 DEF OnceInv
<1>4. CASE ~TooOld(v.height) /\ Count(v)
  <2>1. v \notin DOMAIN counts
    BY <1>1, <1>4, Zenon DEF OnceInv, CountsInv
  <2> QED
    BY <1>1, <1>2, <1>4, <2>1, CountedStep, Zenon
<1> QED
  BY <1>1, <1>3, <1>4, Zenon

-----------------------------------------------------------------------------
(* Nobody is punished in their own place *)

\* k signed for address a; unless the address changed hands since, k runs there.
Ran(k, a) == a \in Addresses \ disturbed => k = host[a] /\ k # NoOne

\* Replies and verifications on their way name who ran at the address.
SignerInv ==
    \A msg \in net : /\ msg.type = "reply" => Ran(msg.signer, msg.addr)
                     /\ msg.type = "verified" => Ran(msg.mnv.signer, msg.mnv.addr)

\* Entry e of m shows no more than undisturbed service would.
Fair(m, e) == e.addr \notin disturbed => Undisturbed(m, e, host[e.addr])

RealInv ==
    /\ host \in [Addresses -> Masternodes \cup {NoOne}]
    /\ SignerInv
    /\ \A m \in Listed : Fair(m, mapMasternodes[m])

\* The others of an address where somebody runs may lose a point,
LEMMA UndisturbedIncrease ==
  ASSUME NEW e \in Entry, NEW m, NEW h, h # NoOne, m # h, Undisturbed(m, e, h)
  PROVE  /\ Undisturbed(m, IncreasePoSeBanScore(e), h)
         /\ IncreasePoSeBanScore(e).addr = e.addr
  BY BoundsAssumption DEF Entry, Undisturbed, IncreasePoSeBanScore, MaxScore

\* the one that runs there may gain one,
LEMMA UndisturbedDecrease ==
  ASSUME NEW e \in Entry, NEW m, Undisturbed(m, e, m)
  PROVE  Undisturbed(m, DecreasePoSeBanScore(e), m)
  BY BoundsAssumption DEF Entry, Undisturbed, DecreasePoSeBanScore, MaxScore

LEMMA DecreaseAddr ==
  ASSUME NEW e \in Entry
  PROVE  DecreasePoSeBanScore(e).addr = e.addr
  BY DEF Entry, DecreasePoSeBanScore

\* and Check bans and releases only the others.
LEMMA UndisturbedCheck ==
  ASSUME NEW e \in Entry, NEW spent \in BOOLEAN, NEW n \in Int, NEW size \in Int,
         NEW m, NEW h, Undisturbed(m, e, h)
  PROVE  Undisturbed(m, Check(e, spent, n, size), h)
<1> DEFINE f == Check(e, spent, n, size)
           d == DecreasePoSeBanScore(e)
<1> USE BoundsAssumption DEF Entry, Undisturbed, MaxScore
<1>1. \/ f = e
      \/ f = [e EXCEPT !.state = "spent"]
      \/ e.state = "banned" /\ f = [d EXCEPT !.state = "active"]
      \/ e.score >= MaxScore /\ f = [e EXCEPT !.state = "banned", !.banHeight = n + size]
  BY Zenon DEF Check
<1> HIDE DEF f
<1>2. CASE f = e \/ f = [e EXCEPT !.state = "spent"]
  <2>1. f.score = e.score /\ (f.state = "banned" => e.state = "banned")
    BY <1>2
  <2> QED
    BY <2>1 DEF f
<1>3. CASE e.state = "banned" /\ f = [d EXCEPT !.state = "active"]
  <2>1. m # h /\ e.score = MaxScore
    BY <1>3
  <2>2. f.state = "active" /\ f.score = MaxScore - 1
    BY <1>3, <2>1 DEF DecreasePoSeBanScore
  <2>3. h # NoOne
    BY <2>1
  <2> QED
    BY <2>1, <2>2, <2>3 DEF f
<1>4. CASE e.score >= MaxScore /\ f = [e EXCEPT !.state = "banned", !.banHeight = n + size]
  <2>1. f.score = e.score /\ e.score = MaxScore /\ m # h /\ h # NoOne
    BY <1>4
  <2> QED
    BY <2>1 DEF f
<1> QED
  BY <1>1, <1>2, <1>3, <1>4

\* The address of an entry stays the same in Check.
LEMMA CheckAddr ==
  ASSUME NEW e \in Entry, NEW spent \in BOOLEAN, NEW n \in Int, NEW size \in Int
  PROVE  Check(e, spent, n, size).addr = e.addr
<1> DEFINE until == n + size
<1>1. Check(e, spent, n, size) \in {e, [e EXCEPT !.state = "spent"],
         [DecreasePoSeBanScore(e) EXCEPT !.state = "active"],
         [e EXCEPT !.state = "banned", !.banHeight = until]}
  BY Zenon DEF Check
<1> HIDE DEF until
<1> QED
  BY <1>1, Zenon DEF Entry, DecreasePoSeBanScore

LEMMA CheckFair ==
  ASSUME NEW e \in Entry, NEW spent \in BOOLEAN, NEW n \in Int, NEW size \in Int, NEW m,
         Fair(m, e)
  PROVE  Fair(m, Check(e, spent, n, size))
<1> DEFINE f == Check(e, spent, n, size)
<1>1. f.addr = e.addr
  BY CheckAddr, Zenon
<1>2. e.addr \notin disturbed => Undisturbed(m, f, host[e.addr])
  BY UndisturbedCheck, Zenon DEF Fair
<1> HIDE DEF f
<1>3. Fair(m, f)
  BY <1>1, <1>2 DEF Fair
<1> QED
  BY <1>3 DEF f

\* Whoever signed gains, everyone else of the address loses.
LEMMA VerifiedFair ==
  ASSUME PoSeTyped, RealInv, NEW k \in Listed, Ran(k, mapMasternodes[k].addr),
         NEW others,
         others = {m \in Listed : mapMasternodes[m].addr = mapMasternodes[k].addr} \ {k}
  PROVE  \A m \in Listed : Fair(m, Verified(mapMasternodes, {k}, others)[m])
<1> DEFINE list2 == Verified(mapMasternodes, {k}, others)
           a == mapMasternodes[k].addr
<1> SUFFICES ASSUME NEW m \in Listed
             PROVE  Fair(m, list2[m])
  OBVIOUS
<1>1. mapMasternodes[m] \in Entry /\ mapMasternodes[k] \in Entry /\ a \in Addresses
  BY DEF PoSeTyped, Entry
<1>2. Fair(m, mapMasternodes[m])
  BY DEF RealInv
<1>3. /\ m = k => list2[m] \in {mapMasternodes[m], DecreasePoSeBanScore(mapMasternodes[m])}
      /\ m \in others => list2[m] = IncreasePoSeBanScore(mapMasternodes[m])
      /\ m # k /\ m \notin others => list2[m] = mapMasternodes[m]
  BY DEF Verified, Listed
<1> HIDE DEF list2
<1>4. CASE m = k
  <2>1. list2[m].addr = a
    BY <1>1, <1>3, <1>4, DecreaseAddr, Zenon
  <2>2. a \notin disturbed => m = host[a]
    BY <1>1, <1>4 DEF Ran
  <2>3. a \notin disturbed => Undisturbed(m, mapMasternodes[m], m)
    BY <1>2, <1>4, <2>2 DEF Fair
  <2>4. a \notin disturbed => Undisturbed(m, list2[m], m)
    BY <1>1, <1>3, <1>4, <2>3, UndisturbedDecrease, Zenon
  <2> QED
    BY <2>1, <2>2, <2>4 DEF Fair
<1>5. CASE m \in others
  <2>1. mapMasternodes[m].addr = a /\ m # k
    BY <1>5
  <2>2. ASSUME a \notin disturbed
        PROVE  Undisturbed(m, list2[m], host[a])
    <3>1. host[a] = k /\ k # NoOne
      BY <1>1, <2>2 DEF Ran
    <3>2. Undisturbed(m, mapMasternodes[m], host[a])
      BY <1>2, <2>1, <2>2 DEF Fair
    <3> QED
      BY <1>1, <1>3, <1>5, <2>1, <3>1, <3>2, UndisturbedIncrease, ZenonT(60)
  <2>3. list2[m].addr = a
    BY <1>1, <1>3, <1>5, <2>1 DEF IncreasePoSeBanScore, Entry
  <2> QED
    BY <2>2, <2>3 DEF Fair
<1> QED
  BY <1>2, <1>3, <1>4, <1>5, Zenon

\* Steps that leave the addresses to whom they belong.
LEMMA ListReal ==
  ASSUME RealInv, UNCHANGED <<host, disturbed>>, SignerInv',
         \A m \in DOMAIN mapMasternodes' : Fair(m, mapMasternodes'[m])
  PROVE  RealInv'
  BY Zenon DEF RealInv, Fair, Listed

\* Steps that do not touch the list, either.
LEMMA SendReal ==
  ASSUME RealInv, UNCHANGED <<mapMasternodes, host, disturbed>>,
         \A msg \in net' \ net :
             /\ msg.type = "reply" => Ran(msg.signer, msg.addr)
             /\ msg.type = "verified" => Ran(msg.mnv.signer, msg.mnv.addr)
  PROVE  RealInv'
  BY Zenon DEF RealInv, SignerInv, Fair, Listed, Ran

\* Steps in which nothing is sent.
LEMMA SilentSigners ==
  ASSUME RealInv, UNCHANGED <<host, disturbed>>, net' \subseteq net
  PROVE  SignerInv'
  BY Zenon DEF RealInv, SignerInv, Ran

LEMMA RequestReal ==
  ASSUME RealInv, DoFullVerificationStep
  PROVE  RealInv'
<1>1. PICK sent : net' = net \cup {[type |-> "request", addr |-> r.addr, nonce |-> r.nonce,
                                  height |-> nCachedBlockHeight - 1] : r \in sent}
  BY Zenon DEF DoFullVerificationStep
<1>2. \A msg \in net' \ net : msg.type = "request"
  BY <1>1
<1>3. UNCHANGED <<mapMasternodes, host, disturbed>>
  BY Zenon DEF DoFullVerificationStep
<1> QED
  BY <1>2, <1>3, SendReal

LEMMA AnswerReal ==
  ASSUME RealInv, SendVerifyReply
  PROVE  RealInv'
<1>1. PICK r \in net :
        \/ net' = net \ {r}
        \/ /\ host[r.addr] # NoOne
           /\ net' = (net \ {r}) \cup {[type |-> "reply", addr |-> r.addr, nonce |-> r.nonce,
                                       height |-> r.height, signer |-> host[r.addr]]}
  BY Zenon DEF SendVerifyReply
<1>2. \A msg \in net' \ net : /\ msg.type = "reply" /\ msg.signer = host[msg.addr]
                              /\ msg.signer # NoOne
  BY <1>1
<1>3. UNCHANGED <<mapMasternodes, host, disturbed>>
  BY Zenon DEF SendVerifyReply
<1> QED
  BY <1>2, <1>3, SendReal DEF Ran

LEMMA OtherReal ==
  ASSUME RealInv, NEW v, NEW a, OtherVerifies(v, a)
  PROVE  RealInv'
<1>1. /\ host[a] # NoOne
      /\ \E h : net' = net \cup {[type |-> "verified",
                 mnv |-> [vin1 |-> host[a], vin2 |-> v, addr |-> a, nonce |-> nNonce',
                          height |-> h, signer |-> host[a]]]}
  BY Zenon DEF OtherVerifies
<1>2. \A msg \in net' \ net : /\ msg.type = "verified" /\ msg.mnv.signer = host[msg.mnv.addr]
                              /\ msg.mnv.signer # NoOne
  <2>1. PICK h : net' = net \cup {[type |-> "verified",
                 mnv |-> [vin1 |-> host[a], vin2 |-> v, addr |-> a, nonce |-> nNonce',
                          height |-> h, signer |-> host[a]]]}
    BY <1>1
  <2>2. \A msg \in net' \ net : msg.type = "verified" /\ msg.mnv.signer = host[a] /\ msg.mnv.addr = a
    BY <2>1
  <2> QED
    BY <1>1, <2>2, Zenon
<1>3. UNCHANGED <<mapMasternodes, host, disturbed>>
  BY Zenon DEF OtherVerifies
<1> QED
  BY <1>2, <1>3, SendReal DEF Ran

LEMMA ReplyReal ==
  ASSUME PoSeTyped, RealInv, NEW r \in net, r.type = "reply", ProcessVerifyReply(r),
         UNCHANGED <<host, disturbed>>
  PROVE  RealInv'
<1> DEFINE at == {m \in Listed : mapMasternodes[m].addr = r.addr}
           real == {m \in at : m = r.signer}
           mnv(m) == [vin1 |-> m, vin2 |-> activeOutpoint, addr |-> r.addr,
                      nonce |-> r.nonce, height |-> r.height, signer |-> r.signer]
<1>1. \/ net' = net \ {r} /\ UNCHANGED mapMasternodes
      \/ \E m \in real : /\ mapMasternodes' = Verified(mapMasternodes, real, at \ real)
                         /\ net' = (net \ {r}) \cup {[type |-> "verified", mnv |-> mnv(m)]}
  BY Zenon DEF ProcessVerifyReply
<1>2. Ran(r.signer, r.addr)
  BY Zenon DEF RealInv, SignerInv
<1>3. CASE net' = net \ {r} /\ UNCHANGED mapMasternodes
  BY <1>3, SendReal, Zenon
<1>4. ASSUME NEW m \in real, mapMasternodes' = Verified(mapMasternodes, real, at \ real),
             net' = (net \ {r}) \cup {[type |-> "verified", mnv |-> mnv(m)]}
      PROVE  RealInv'
  <2>1. /\ m \in Listed /\ mapMasternodes[m].addr = r.addr /\ real = {m} /\ m = r.signer
        /\ at = {n \in Listed : mapMasternodes[n].addr = mapMasternodes[m].addr}
    BY <1>4, ZenonT(60)
  <2>2. SignerInv'
    <3>1. \A msg \in net' \ net : /\ msg.type = "verified" /\ msg.mnv.signer = r.signer
                                  /\ msg.mnv.addr = r.addr
      BY <1>4, SMTT(60)
    <3>2. \A msg \in net' : msg \in net \/ msg \in net' \ net
      OBVIOUS
    <3> QED
      BY <1>2, <3>1, <3>2 DEF RealInv, SignerInv, Ran
  <2> HIDE DEF at, real
  <2>3. mapMasternodes' = Verified(mapMasternodes, {m}, at \ {m})
    BY <1>4, <2>1
  <2>4. \A n \in Listed : Fair(n, mapMasternodes'[n])
    BY <1>2, <2>1, <2>3, VerifiedFair, Zenon
  <2>5. DOMAIN mapMasternodes' = Listed
    BY <2>3 DEF Verified, Listed
  <2> QED
    BY <2>2, <2>4, <2>5, ListReal, Zenon
<1> QED
  BY <1>1, <1>3, <1>4, Zenon

LEMMA BroadcastReal ==
  ASSUME PoSeTyped, RealInv, NEW msg \in net, msg.type = "verified",
         ProcessVerifyBroadcast(msg.mnv), UNCHANGED <<net, host, disturbed>>
  PROVE  RealInv'
<1> DEFINE v == msg.mnv
           at == {m \in Listed : mapMasternodes[m].addr = v.addr}
<1>1. \/ UNCHANGED mapMasternodes
      \/ /\ v.vin1 \in at /\ v.signer = v.vin1
         /\ mapMasternodes' = Verified(mapMasternodes, {v.vin1}, at \ {v.vin1})
  BY Zenon DEF ProcessVerifyBroadcast
<1>2. Ran(v.signer, v.addr)
  BY DEF RealInv, SignerInv
<1>3. CASE UNCHANGED mapMasternodes
  BY <1>3, SendReal, Zenon
<1>4. CASE /\ v.vin1 \in at /\ v.signer = v.vin1
           /\ mapMasternodes' = Verified(mapMasternodes, {v.vin1}, at \ {v.vin1})
  <2> DEFINE k == v.vin1
  <2>1. /\ k \in Listed /\ mapMasternodes[k].addr = v.addr
        /\ at = {n \in Listed : mapMasternodes[n].addr = mapMasternodes[k].addr}
    BY <1>4
  <2>2. SignerInv'
    BY SilentSigners
  <2>3. mapMasternodes' = Verified(mapMasternodes, {k}, at \ {k}) /\ Ran(k, v.addr)
    BY <1>2, <1>4
  <2> HIDE DEF at, k
  <2>4. \A n \in Listed : Fair(n, mapMasternodes'[n])
    BY <2>1, <2>3, VerifiedFair, Zenon
  <2>5. DOMAIN mapMasternodes' = Listed
    BY <2>3 DEF Verified, Listed
  <2> QED
    BY <2>2, <2>4, <2>5, ListReal, Zenon
<1> QED
  BY <1>1, <1>3, <1>4, Zenon

\* CheckSameAddr punishes at an address only if one of it is verified, and not that one.
LEMMA SameAddrSpares ==
  ASSUME NEW group, NEW bans \in SameAddrBans(group), NEW m \in bans
  PROVE  \E v \in group : IsPoSeVerified(mapMasternodes[v]) /\ v \notin bans
<1> DEFINE verified == {n \in group : IsPoSeVerified(mapMasternodes[n])}
           after(v, before) == group \ (before \cup {v})
<1>1. verified # {}
  BY DEF SameAddrBans
<1>2. PICK v \in verified, before \in SUBSET (group \ verified) :
        \/ bans = after(v, before)
        \/ \E p \in before : bans = after(v, before) \cup {p}
  BY <1>1 DEF SameAddrBans
<1>3. v \notin bans
  BY <1>2
<1> QED
  BY <1>2, <1>3

LEMMA TipReal ==
  ASSUME PoSeTyped, RealInv, UpdatedBlockTip
  PROVE  RealInv'
<1> DEFINE activeAt(a) == {m \in Listed : /\ mapMasternodes[m].addr = a
                                          /\ mapMasternodes[m].state = "active"}
<1>1. PICK enabled, vBan \in SUBSET Listed :
        /\ \A a \in Addresses : {m \in vBan : mapMasternodes[m].addr = a}
                                   \in SameAddrBans(activeAt(a) \cap enabled)
        /\ mapMasternodes' = Verified(mapMasternodes, {}, vBan)
  BY Zenon DEF UpdatedBlockTip
<1>2. UNCHANGED <<host, disturbed, net>>
  BY DEF UpdatedBlockTip
<1>3. SignerInv'
  BY <1>2, SilentSigners
<1>4. DOMAIN mapMasternodes' = Listed
  BY <1>1 DEF Verified, Listed
<1>5. ASSUME NEW m \in Listed
      PROVE  Fair(m, mapMasternodes'[m])
  <2> DEFINE e == mapMasternodes[m]
             a == e.addr
  <2>1. e \in Entry /\ a \in Addresses
    BY DEF PoSeTyped, Entry
  <2>2. Fair(m, e)
    BY DEF RealInv
  <2>3. CASE m \notin vBan
    <3>1. mapMasternodes'[m] = e
      BY <1>1, <2>3 DEF Verified, Listed
    <3> QED
      BY <2>2, <3>1
  <2>4. CASE m \in vBan
    <3> DEFINE bans == {n \in vBan : mapMasternodes[n].addr = a}
    <3>1. mapMasternodes'[m] = IncreasePoSeBanScore(e)
      BY <1>1, <2>4 DEF Verified, Listed
    <3>2. m \in bans /\ bans \in SameAddrBans(activeAt(a) \cap enabled)
      BY <1>1, <2>1, <2>4
    <3>3. PICK v \in activeAt(a) \cap enabled :
                  IsPoSeVerified(mapMasternodes[v]) /\ v \notin bans
      BY <3>2, SameAddrSpares, Zenon
    <3>4. v \in Listed /\ mapMasternodes[v].addr = a /\ v # m
      BY <3>2, <3>3
    <3>5. mapMasternodes[v] \in Entry /\ v # NoOne
      BY <3>4, BoundsAssumption DEF PoSeTyped
    <3>6. ~(mapMasternodes[v].score >= 0)
      BY <3>3, <3>5, BoundsAssumption DEF IsPoSeVerified, Entry, MaxScore
    <3> HIDE DEF bans, e, a
    <3>7. ASSUME a \notin disturbed
          PROVE  Undisturbed(m, IncreasePoSeBanScore(e), host[a])
      <4>1. Undisturbed(v, mapMasternodes[v], host[a])
        BY <3>4, <3>7 DEF RealInv, Fair
      <4>2. host[a] = v
        BY <3>6, <4>1, Zenon DEF Undisturbed
      <4>3. Undisturbed(m, e, host[a])
        BY <2>2, <3>7 DEF Fair, a
      <4> QED
        BY <2>1, <3>4, <3>5, <4>2, <4>3, UndisturbedIncrease, Zenon
    <3>8. IncreasePoSeBanScore(e).addr = a
      BY <2>1 DEF IncreasePoSeBanScore, Entry, a
    <3> QED
      BY <3>1, <3>7, <3>8 DEF Fair
  <2> QED
    BY <2>3, <2>4
<1> QED
  BY <1>2, <1>3, <1>4, <1>5, ListReal, Zenon

LEMMA RemoveReal ==
  ASSUME PoSeTyped, RealInv, CheckAndRemove
  PROVE  RealInv'
<1> DEFINE size == Cardinality(Listed)
           checked(due, spent) ==
               [m \in Listed |->
                   IF m \notin due THEN mapMasternodes[m]
                   ELSE Check(mapMasternodes[m], m \in spent, nCachedBlockHeight, size)]
<1>1. PICK due \in SUBSET Listed, spent \in SUBSET Listed :
         mapMasternodes' = [m \in {n \in Listed : checked(due, spent)[n].state # "spent"} |->
                               checked(due, spent)[m]]
  BY DEF CheckAndRemove
<1> DEFINE c == checked(due, spent)
<1> HIDE DEF size
<1>2. ASSUME NEW m \in Listed
      PROVE  Fair(m, c[m])
  <2>1. mapMasternodes[m] \in Entry /\ Fair(m, mapMasternodes[m])
    BY DEF RealInv, PoSeTyped
  <2>2. CASE m \notin due
    BY <2>1, <2>2
  <2>3. CASE m \in due
    <3>1. c[m] = Check(mapMasternodes[m], m \in spent, nCachedBlockHeight, size)
      BY <1>2, <2>3
    <3> HIDE DEF c
    <3>2. (m \in spent) \in BOOLEAN /\ nCachedBlockHeight \in Int /\ size \in Int
      BY SizeType, SMTT(60) DEF PoSeTyped, size
    <3> QED
      BY <2>1, <3>1, <3>2, CheckFair, Zenon
  <2> QED
    BY <2>2, <2>3
<1> HIDE DEF c
<1>3. mapMasternodes' = [m \in {n \in Listed : c[n].state # "spent"} |-> c[m]]
  BY <1>1 DEF c
<1>4. \A m \in DOMAIN mapMasternodes' : Fair(m, mapMasternodes'[m])
  BY <1>2, <1>3
<1>5. UNCHANGED <<host, disturbed, net>>
  BY Zenon DEF CheckAndRemove
<1>6. SignerInv'
  BY <1>5, SilentSigners
<1> QED
  BY <1>4, <1>5, <1>6, ListReal, Zenon

\* An announcement: a clean record, or what Check left of a ban.
LEMMA AnnounceReal ==
  ASSUME PoSeTyped, RealInv, NEW m \in Masternodes, NEW a \in Addresses, NewBroadcast(m, a)
  PROVE  RealInv'
<1> DEFINE size == Cardinality(Listed)
           CheckNow(e, spent) == Check(e, spent, nCachedBlockHeight, size)
<1> HIDE DEF size
<1>1. UNCHANGED <<host, disturbed, net>> /\ (m = activeOutpoint => host[a] = m)
  BY Zenon DEF NewBroadcast
<1>2. SignerInv'
  BY <1>1, SilentSigners
<1>3. ASSUME NEW f, Fair(m, f),
             \/ mapMasternodes' = [n \in Listed \cup {m} |-> IF n = m THEN f ELSE mapMasternodes[n]]
             \/ mapMasternodes' = [mapMasternodes EXCEPT ![m] = f]
      PROVE  RealInv'
  <2>1. \A n \in DOMAIN mapMasternodes' : Fair(n, mapMasternodes'[n])
    BY <1>3 DEF RealInv, Listed
  <2> QED
    BY <1>1, <1>2, <2>1, ListReal, Zenon
<1>4. m # NoOne
  BY BoundsAssumption
<1>5. CASE m \notin Listed
  <2> DEFINE new == [addr |-> a, score |-> 0, banHeight |-> 0, state |-> "active"]
  <2>1. mapMasternodes' = [n \in Listed \cup {m} |-> IF n = m THEN new ELSE mapMasternodes[n]]
    BY <1>5, Zenon DEF NewBroadcast
  <2>2. Fair(m, new)
    BY BoundsAssumption DEF Fair, Undisturbed
  <2> HIDE DEF new
  <2> QED
    BY <1>3, <2>1, <2>2, Zenon
<1>6. CASE m \in Listed
  <2>1. PICK due \in BOOLEAN, spent \in BOOLEAN :
           LET e == IF due THEN CheckNow(mapMasternodes[m], spent) ELSE mapMasternodes[m]
               f == IF e.state = "banned" THEN e
                    ELSE CheckNow(UpdateFromNewBroadcast(e, m, a), spent)
           IN  mapMasternodes' = [mapMasternodes EXCEPT ![m] = f]
    BY <1>6, Zenon DEF NewBroadcast, size
  <2> DEFINE e == IF due THEN CheckNow(mapMasternodes[m], spent) ELSE mapMasternodes[m]
             u == UpdateFromNewBroadcast(e, m, a)
             f == IF e.state = "banned" THEN e ELSE CheckNow(u, spent)
  <2>2. mapMasternodes[m] \in Entry /\ Fair(m, mapMasternodes[m]) /\ nCachedBlockHeight \in Int
    BY <1>6 DEF RealInv, PoSeTyped
  <2>3. size \in Int
    BY SizeType DEF size
  <2>4. e \in Entry /\ Fair(m, e)
    <3> DEFINE c == CheckNow(mapMasternodes[m], spent)
    <3>1. c \in Entry
      BY <2>2, <2>3, CheckNoWorse, Zenon
    <3>2. Fair(m, c)
      BY <2>2, <2>3, CheckFair, Zenon
    <3> HIDE DEF c
    <3> QED
      BY <2>2, <3>1, <3>2 DEF c
  <2> HIDE DEF e
  <2>5. u \in Entry /\ u.addr = a
    <3>1. u \in Entry
      BY <2>4, UpdateType, Zenon
    <3>2. u.addr = a
      BY <2>4 DEF UpdateFromNewBroadcast, Entry
    <3> QED
      BY <3>1, <3>2
  <2>6. ASSUME e.state # "banned"
        PROVE  Undisturbed(m, u, host[a])
    <3>1. u.state = e.state
      BY <2>4, Zenon DEF UpdateFromNewBroadcast, Entry
    <3>2. u.score = IF m = activeOutpoint THEN -MaxScore ELSE 0
      BY <2>4, Zenon DEF UpdateFromNewBroadcast, Entry
    <3>3. MaxScore \in Nat
      BY BoundsAssumption DEF MaxScore
    <3> HIDE DEF u
    <3>4. CASE m = activeOutpoint
      <4>1. u.score <= 0
        BY <3>2, <3>3, <3>4, SMTT(60)
      <4> QED
        BY <1>1, <2>6, <3>1, <3>4, <4>1 DEF Undisturbed
    <3>5. CASE m # activeOutpoint
      <4>1. u.score = 0 /\ u.state # "banned"
        BY <2>6, <3>1, <3>2, <3>5
      <4> QED
        BY <4>1 DEF Undisturbed
    <3> QED
      BY <3>4, <3>5
  <2> HIDE DEF u
  <2>7. ASSUME e.state # "banned"
        PROVE  Fair(m, CheckNow(u, spent))
    <3>1. Fair(m, u)
      BY <2>5, <2>6, <2>7 DEF Fair
    <3> QED
      BY <2>2, <2>3, <2>5, <3>1, CheckFair, Zenon
  <2>8. Fair(m, f)
    BY <2>4, <2>7, Zenon
  <2>9. mapMasternodes' = [mapMasternodes EXCEPT ![m] = f]
    BY <2>1 DEF e, u
  <2> HIDE DEF f
  <2> QED
    BY <1>3, <2>8, <2>9, Zenon
<1> QED
  BY <1>5, <1>6

LEMMA PoSeBanReal ==
  ASSUME PoSeTyped, RealInv, NEW m, PoSeBan(m)
  PROVE  RealInv'
<1>1. /\ m \in Listed /\ UNCHANGED <<host, net>>
      /\ disturbed' = disturbed \cup {mapMasternodes[m].addr}
      /\ mapMasternodes' = [mapMasternodes EXCEPT ![m] = [mapMasternodes[m] EXCEPT !.score = MaxScore]]
  BY DEF PoSeBan
<1>2. mapMasternodes[m] \in Entry
  BY <1>1 DEF PoSeTyped
<1>3. /\ DOMAIN mapMasternodes' = Listed
      /\ \A n \in Listed : n # m => mapMasternodes'[n] = mapMasternodes[n]
      /\ mapMasternodes'[m].addr = mapMasternodes[m].addr
  BY <1>1, <1>2 DEF Listed, Entry
<1>4. \A n \in DOMAIN mapMasternodes' : Fair(n, mapMasternodes[n])' \/ n = m
  BY <1>1, <1>3, Zenon DEF RealInv, Fair
<1>5. Fair(m, mapMasternodes[m])'
  <2>1. mapMasternodes'[m].addr \in disturbed'
    BY <1>1, <1>3
  <2> QED
    BY <2>1 DEF Fair
<1>6. SignerInv'
  BY <1>1, Zenon DEF RealInv, SignerInv, Ran
<1>7. \A n \in Listed' : Fair(n, mapMasternodes[n])'
  BY <1>4, <1>5 DEF Listed
<1>8. host' \in [Addresses -> Masternodes \cup {NoOne}]
  BY <1>1 DEF RealInv
<1> QED
  BY <1>6, <1>7, <1>8, Zenon DEF RealInv

\* Whoever starts where nobody ran finds no record, and no answer on its way.
LEMMA StartReal ==
  ASSUME PoSeTyped, RealInv, NEW m \in Masternodes, NEW a \in Addresses, StartAt(m, a)
  PROVE  RealInv'
<1>1. /\ host' = [host EXCEPT ![a] = m] /\ UNCHANGED <<mapMasternodes, net>>
      /\ disturbed' = IF host[a] = NoOne THEN disturbed ELSE disturbed \cup {a}
  BY Zenon DEF StartAt
<1>2. host \in [Addresses -> Masternodes \cup {NoOne}]
  BY DEF RealInv
<1>3. host' \in [Addresses -> Masternodes \cup {NoOne}]
  BY <1>1, <1>2
<1>4. \A b \in Addresses \ {a} : host'[b] = host[b] /\ (b \notin disturbed' => b \notin disturbed)
  BY <1>1, <1>2
<1>5. a \notin disturbed' => host[a] = NoOne /\ a \notin disturbed /\ host'[a] = m
  BY <1>1, <1>2
<1>6. ASSUME NEW k, NEW b, Ran(k, b)
      PROVE  Ran(k, b)'
  BY <1>4, <1>5, <1>6, Zenon DEF Ran
<1>7. ASSUME NEW n \in Listed
      PROVE  Fair(n, mapMasternodes[n])'
  <2>0. PICK e : e = mapMasternodes[n]
    OBVIOUS
  <2>1. e \in Entry /\ Fair(n, e) /\ n \in Masternodes /\ mapMasternodes'[n] = e
    BY <1>1, <2>0 DEF PoSeTyped, RealInv
  <2>2. e.addr \in Addresses
    BY <2>1 DEF Entry
  <2>3. CASE e.addr # a
    <3>1. Fair(n, e)'
      BY <1>4, <2>1, <2>2, <2>3, Zenon DEF Fair
    <3> QED
      BY <2>1, <3>1 DEF Fair
  <2>4. CASE e.addr = a
    <3>1. ASSUME a \notin disturbed'
          PROVE  Undisturbed(n, e, m)
      <4>1. Undisturbed(n, e, NoOne)
        BY <1>5, <2>1, <2>4, <3>1 DEF Fair
      <4>2. n # NoOne /\ m # NoOne /\ MaxScore # 0
        BY <2>1, BoundsAssumption DEF MaxScore
      <4>3. e.score = 0 /\ e.state # "banned"
        BY <4>1, <4>2 DEF Undisturbed
      <4> QED
        BY <4>2, <4>3, SMTT(60) DEF Undisturbed
    <3>2. Fair(n, e)'
      BY <1>5, <2>1, <2>4, <3>1, Zenon DEF Fair
    <3> QED
      BY <2>1, <3>2 DEF Fair
  <2> QED
    BY <2>3, <2>4
<1> QED
  BY <1>1, <1>3, <1>6, <1>7, Zenon DEF RealInv, SignerInv, Listed

\* Every step keeps the two.
LEMMA StepRight ==
  ASSUME PoSeTyped, PoSeTyped', OnceInv, RealInv, [Next]_vars
  PROVE  OnceInv' /\ RealInv'
<1>1. ASSUME UNCHANGED <<net, nNonce, counts, nCachedBlockHeight, mapSeenMasternodeVerification>>
      PROVE  OnceInv'
  <2>1. NonceInv(net', nNonce', DOMAIN counts)
    BY <1>1, Zenon DEF OnceInv
  <2> QED
    BY <1>1, <2>1, NetOnce, Zenon
<1>2. ASSUME UNCHANGED <<mapMasternodes, host, disturbed, net>>
      PROVE  RealInv'
  BY <1>2, SendReal, Zenon
<1>3. CASE DoFullVerificationStep
  BY <1>3, RequestOnce, RequestReal, Zenon
<1>4. CASE ProcessMessage
  <2>1. UNCHANGED <<nNonce, nCachedBlockHeight, host, disturbed>>
    BY <1>4, Zenon DEF ProcessMessage
  <2>2. PICK msg \in net :
          \/ msg.type = "reply" /\ ProcessVerifyReply(msg)
          \/ msg.type = "verified" /\ ProcessVerifyBroadcast(msg.mnv) /\ UNCHANGED net
    BY <1>4, Zenon DEF ProcessMessage
  <2>3. CASE msg.type = "reply" /\ ProcessVerifyReply(msg)
    BY <2>1, <2>3, ReplyOnce, ReplyReal, Zenon
  <2>4. CASE msg.type = "verified" /\ ProcessVerifyBroadcast(msg.mnv) /\ UNCHANGED net
    BY <2>1, <2>4, BroadcastOnce, BroadcastReal, Zenon
  <2> QED
    BY <2>2, <2>3, <2>4, Zenon
<1>5. CASE UpdatedBlockTip
  <2>1. /\ UNCHANGED <<net, nNonce, counts, mapSeenMasternodeVerification>>
        /\ nCachedBlockHeight' = nCachedBlockHeight + 1
    BY <1>5, Zenon DEF UpdatedBlockTip
  <2>2. nCachedBlockHeight' \in Int /\ nCachedBlockHeight' >= nCachedBlockHeight
    BY <2>1 DEF PoSeTyped
  <2> QED
    BY <1>5, <2>1, <2>2, QuietOnce, TipReal, Zenon
<1>6. CASE CheckAndRemove
  <2>1. /\ UNCHANGED <<net, nNonce, counts, nCachedBlockHeight>>
        /\ mapSeenMasternodeVerification' =
              {v \in mapSeenMasternodeVerification : ~Forgotten(v.height)}
    BY <1>6, Zenon DEF CheckAndRemove
  <2>2. \A v \in mapSeenMasternodeVerification :
            v \in mapSeenMasternodeVerification' \/ TooOld(v.height)
    BY <2>1, Zenon DEF Forgotten
  <2>3. nCachedBlockHeight' \in Int /\ nCachedBlockHeight' >= nCachedBlockHeight
    BY <2>1 DEF PoSeTyped
  <2> QED
    BY <1>6, <2>1, <2>2, <2>3, QuietOnce, RemoveReal, Zenon
<1>7. ASSUME NEW m \in Masternodes, NEW a \in Addresses, NewBroadcast(m, a)
      PROVE  OnceInv' /\ RealInv'
  BY <1>1, <1>7, AnnounceReal, Zenon DEF NewBroadcast
<1>8. ASSUME NEW m \in Masternodes, PoSeBan(m)
      PROVE  OnceInv' /\ RealInv'
  BY <1>1, <1>8, PoSeBanReal, Zenon DEF PoSeBan
<1>9. CASE Expire
  BY <1>1, <1>2, <1>9, Zenon DEF Expire
<1>10. CASE Restart
  BY <1>2, <1>10, RestartOnce, Zenon DEF Restart
<1>11. CASE SendVerifyReply
  BY <1>11, AnswerOnce, AnswerReal, Zenon
<1>12. ASSUME NEW v \in Masternodes \ {activeOutpoint}, NEW a \in Addresses, OtherVerifies(v, a)
       PROVE  OnceInv' /\ RealInv'
  BY <1>12, OtherOnce, OtherReal, Zenon
<1>13. ASSUME NEW m \in Masternodes, NEW a \in Addresses, StartAt(m, a)
       PROVE  OnceInv' /\ RealInv'
  BY <1>1, <1>13, StartReal, Zenon DEF StartAt
<1>14. CASE UNCHANGED vars
  BY <1>1, <1>2, <1>14, Zenon DEF vars
<1> QED
  BY <1>3, <1>4, <1>5, <1>6, <1>7, <1>8, <1>9, <1>10, <1>11, <1>12, <1>13, <1>14, Zenon DEF Next

LEMMA InitRight == Init => OnceInv /\ RealInv
<1> SUFFICES ASSUME Init
             PROVE  OnceInv /\ RealInv
  OBVIOUS
<1>1. net = {} /\ nNonce = 0 /\ counts = <<>>
  BY DEF Init
<1>2. DOMAIN counts = {}
  BY <1>1, SMTT(60)
<1>3. OnceInv
  BY <1>1, <1>2 DEF OnceInv, NonceInv, CountsInv, Pending
<1>4. SignerInv
  BY <1>1 DEF SignerInv
<1>5. ASSUME NEW m \in Listed
      PROVE  Fair(m, mapMasternodes[m])
  <2>1. mapMasternodes[m] \in Entry
    BY LoadedAssumption DEF Init, Listed
  <2>2. mapMasternodes[m].addr \in Addresses
    BY <2>1 DEF Entry
  <2> QED
    BY <2>2, Zenon DEF Init, Fair
<1>6. host \in [Addresses -> Masternodes \cup {NoOne}]
  BY DEF Init
<1> QED
  BY <1>3, <1>4, <1>5, <1>6 DEF RealInv

\* ProcessVerifyReply and ProcessVerifyBroadcast count a verification once, however
\* often it comes back and whenever CheckAndRemove forgets it, and no step punishes the
\* masternode that has always run at the address it announced.
THEOREM PunishedAlwaysRightly == Spec => []PunishedRightly
<1>1. Init => Inv /\ OnceInv /\ RealInv
  BY InitRight, BoundsAssumption, LoadedAssumption DEF Init, Inv, PoSeTyped, Listed
<1>2. Inv /\ OnceInv /\ RealInv /\ [Next]_vars => Inv' /\ OnceInv' /\ RealInv'
  BY StepInv, StepRight, Zenon DEF Inv
<1>3. Inv /\ OnceInv /\ RealInv => PunishedRightly
  <2>1. OnceInv => CountedOnce
    BY DEF OnceInv, CountsInv, CountedOnce
  <2>2. RealInv => RealNeverPunished
    BY Zenon DEF RealInv, RealNeverPunished, Fair, Undisturbed
  <2> QED
    BY <2>1, <2>2 DEF PunishedRightly
<1> QED
  BY <1>1, <1>2, <1>3, PTL DEF Spec
=============================================================================
