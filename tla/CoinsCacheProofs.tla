--------------------------- MODULE CoinsCacheProofs ---------------------------
(***************************************************************************)
(* For any outpoints, coins and blocks: the flags of the cache entries are *)
(* sound, and the caches implement the maps of CoinsViewSpec.              *)
(***************************************************************************)
EXTENDS CoinsCache, TLAPS

IInv == TypeOK /\ FlagsSound

MaybeEntry == Entry \cup {NoEntry}

MaybeCoin == Coin \cup {Spent}

(***************************************************************************)
(* The operators on single entries.                                        *)
(***************************************************************************)
\* AddCoin makes a sound entry whenever the caller may add the coin.
LEMMA AddedSound ==
    ASSUME NEW e \in MaybeEntry, NEW below \in MaybeCoin, NEW c \in Coin,
           NEW w \in BOOLEAN,
           e # NoEntry => Sound(e, below),
           w \/ (IF e = NoEntry THEN below ELSE e.coin) = Spent
    PROVE  LET n == Added(IF e = NoEntry THEN Clean(Spent) ELSE e, c, w)
           IN  n \in Entry /\ n # NoEntry /\ n.coin = c /\ Sound(n, below)
  <1> DEFINE m == IF e = NoEntry THEN Clean(Spent) ELSE e
             n == Added(m, c, w)
  <1>1. m.dirty \in BOOLEAN /\ m.fresh \in BOOLEAN
    BY Zenon DEF MaybeEntry, Entry, Clean
  <1>2. n.coin = c /\ n.dirty = TRUE /\ n.fresh = (m.fresh \/ (~ w /\ ~ m.dirty))
    BY DEF Added
  <1>3. n \in Entry
    BY <1>1 DEF Added, Entry
  <1>4. m.coin = (IF e = NoEntry THEN Spent ELSE e.coin)
        /\ (e = NoEntry => m.dirty = FALSE /\ m.fresh = FALSE)
    BY DEF Clean
  <1>5. c # Spent
    BY CoinAssumption
  <1> HIDE DEF n
  <1>6. ASSUME n.fresh PROVE below = Spent
    <2>1. CASE m.fresh
      <3>1. e # NoEntry
        BY <2>1, <1>4
      <3> QED
        BY <2>1, <3>1 DEF Sound
    <2>2. CASE ~ w /\ ~ m.dirty
      BY <2>2 DEF Sound
    <2> QED
      BY <1>2, <1>6, <2>1, <2>2, Zenon
  <1>7. Sound(n, below)
    BY <1>2, <1>5, <1>6 DEF Sound
  <1>8. n # NoEntry
    BY <1>3, CoinAssumption
  <1> QED
    BY <1>2, <1>3, <1>7, <1>8 DEF n

\* SpendCoin leaves a sound entry, or nothing over nothing.
LEMMA SpentSound ==
    ASSUME NEW e \in Entry, NEW below \in MaybeCoin, Sound(e, below)
    PROVE  /\ SpentEntry(e) \in MaybeEntry
           /\ SpentEntry(e) # NoEntry =>
                Sound(SpentEntry(e), below) /\ SpentEntry(e).coin = Spent
           /\ SpentEntry(e) = NoEntry => below = Spent
  BY CoinAssumption, Zenon DEF MaybeEntry, MaybeCoin, Entry, SpentEntry, Sound

\* BatchWrite into pcoinsTip: the merged entry is sound over the database and
\* answers what the view answered.
LEMMA MergedSound ==
    ASSUME NEW p \in MaybeEntry, NEW c \in MaybeEntry, NEW d \in MaybeCoin,
           p # NoEntry => Sound(p, d),
           c # NoEntry => Sound(c, IF p = NoEntry THEN d ELSE p.coin)
    PROVE  /\ Merged(p, c) \in MaybeEntry
           /\ Merged(p, c) # NoEntry => Sound(Merged(p, c), d)
           /\ (IF Merged(p, c) = NoEntry THEN d ELSE Merged(p, c).coin)
                = IF c = NoEntry THEN IF p = NoEntry THEN d ELSE p.coin
                                 ELSE c.coin
  <1> DEFINE q == IF p = NoEntry THEN d ELSE p.coin
  <1>1. CASE c = NoEntry
    BY <1>1 DEF Merged
  <1>2. CASE c # NoEntry /\ ~ c.dirty
    BY <1>2 DEF Merged, Sound
  <1>3. CASE c # NoEntry /\ c.dirty
    <2>1. c \in Entry /\ c.coin \in MaybeCoin
      BY <1>3 DEF MaybeEntry, Entry, MaybeCoin
    <2>2. CASE p = NoEntry
      BY <1>3, <2>1, <2>2, CoinAssumption DEF Merged, Sound, MaybeEntry
    <2>3. CASE p # NoEntry
      <3>1. p \in Entry
        BY <2>3 DEF MaybeEntry
      <3>2. CASE p.fresh /\ c.coin = Spent
        BY <1>3, <2>3, <3>2 DEF Merged, Sound, MaybeEntry
      <3>3. CASE ~ (p.fresh /\ c.coin = Spent)
        <4> DEFINE r == [coin |-> c.coin, dirty |-> TRUE, fresh |-> p.fresh]
        <4>1. Merged(p, c) = r
          BY <1>3, <2>3, <3>3 DEF Merged
        <4>2. r \in Entry
          BY <2>1, <3>1 DEF Entry, MaybeCoin
        <4>3. r # NoEntry
          BY <4>2, CoinAssumption, Zenon
        <4>4. Sound(r, d)
          BY <2>3, <3>3 DEF Sound
        <4> QED
          BY <1>3, <4>1, <4>2, <4>3, <4>4 DEF MaybeEntry
      <3> QED
        BY <3>2, <3>3
    <2> QED
      BY <2>2, <2>3
  <1> QED
    BY <1>1, <1>2, <1>3

\* BatchWrite into the database: the record becomes what the cache answered.
LEMMA WrittenCoin ==
    ASSUME NEW e \in MaybeEntry, NEW d \in MaybeCoin,
           e # NoEntry => Sound(e, d)
    PROVE  /\ Written(d, e) \in MaybeCoin
           /\ Written(d, e) = IF e = NoEntry THEN d ELSE e.coin
  BY CoinAssumption DEF MaybeEntry, MaybeCoin, Entry, Written, Sound

\* FetchCoin: the entry is sound and the answer stays the same.
LEMMA FetchSound ==
    ASSUME NEW cache \in [Outpoint -> MaybeEntry], NEW o \in Outpoint,
           NEW below \in MaybeCoin,
           NEW x \in Outpoint,
           cache[o] # NoEntry => Sound(cache[o], below)
    PROVE  LET f == Fetch(cache, o, below)
           IN  /\ f \in [Outpoint -> MaybeEntry]
               /\ x # o => f[x] = cache[x]
               /\ f[o] # NoEntry => Sound(f[o], below)
               /\ f[o] = NoEntry => cache[o] = NoEntry /\ below = Spent
               /\ (IF f[o] = NoEntry THEN below ELSE f[o].coin)
                    = IF cache[o] = NoEntry THEN below ELSE cache[o].coin
  <1>1. Clean(below) \in Entry /\ Clean(below).coin = below
        /\ (below # Spent => Sound(Clean(below), below))
    BY DEF Clean, Entry, MaybeCoin, Sound
  <1>2. Clean(below) # NoEntry
    BY <1>1, CoinAssumption
  <1> QED
    BY <1>1, <1>2 DEF Fetch, MaybeEntry

(***************************************************************************)
(* The invariant, pointwise.                                               *)
(***************************************************************************)
\* The answers of both caches are coins, or Spent.
LEMMA Answers ==
    ASSUME IInv, NEW o \in Outpoint
    PROVE  /\ tip[o] \in MaybeEntry /\ view[o] \in MaybeEntry
           /\ db[o] \in MaybeCoin
           /\ TipCoin(o) \in MaybeCoin /\ ViewCoin(o) \in MaybeCoin
           /\ tip[o] # NoEntry => Sound(tip[o], db[o])
           /\ view[o] # NoEntry => Sound(view[o], TipCoin(o))
  BY DEF IInv, TypeOK, FlagsSound, TipCoin, ViewCoin, MaybeEntry, MaybeCoin, Entry

\* A fetch by pcoinsTip is invisible.
LEMMA TipFetch ==
    ASSUME IInv, NEW o \in Outpoint, tip' \in {tip, Fetch(tip, o, db[o])},
           UNCHANGED db
    PROVE  /\ tip' \in [Outpoint -> MaybeEntry]
           /\ \A x \in Outpoint :
                /\ tip'[x] # NoEntry => Sound(tip'[x], db'[x])
                /\ TipCoin(x)' = TipCoin(x)
  <1>1. tip \in [Outpoint -> MaybeEntry]
    BY DEF IInv, TypeOK, MaybeEntry
  <1>2. CASE tip' = tip
    BY <1>1, <1>2, Answers DEF TipCoin
  <1>3. CASE tip' = Fetch(tip, o, db[o])
    <2>1. tip' \in [Outpoint -> MaybeEntry]
      BY <1>1, <1>3, Answers, FetchSound
    <2>2. ASSUME NEW x \in Outpoint
          PROVE  /\ tip'[x] # NoEntry => Sound(tip'[x], db[x])
                 /\ TipCoin(x)' = TipCoin(x)
      BY <1>1, <1>3, Answers, FetchSound DEF TipCoin
    <2> QED
      BY <2>1, <2>2
  <1> QED
    BY <1>2, <1>3

\* A fetch by the view is invisible too.
LEMMA ViewFetch ==
    ASSUME IInv, NEW o \in Outpoint
    PROVE  /\ FetchedView(o) \in [Outpoint -> MaybeEntry]
           /\ FetchedView(o)[o] = NoEntry => ViewCoin(o) = Spent
           /\ FetchedTip(o) \in {tip, Fetch(tip, o, db[o])}
           /\ \A x \in Outpoint :
                /\ FetchedView(o)[x] # NoEntry =>
                      Sound(FetchedView(o)[x], TipCoin(x))
                /\ ViewCoin(x) = IF FetchedView(o)[x] = NoEntry THEN TipCoin(x)
                                 ELSE FetchedView(o)[x].coin
  <1>1. view \in [Outpoint -> MaybeEntry]
    BY DEF IInv, TypeOK, MaybeEntry
  <1>2. FetchedView(o) \in [Outpoint -> MaybeEntry]
    BY <1>1, Answers, FetchSound DEF FetchedView
  <1>3. FetchedView(o)[o] = NoEntry => ViewCoin(o) = Spent
    BY <1>1, Answers, FetchSound DEF FetchedView, ViewCoin
  <1>4. ASSUME NEW x \in Outpoint
        PROVE  /\ FetchedView(o)[x] # NoEntry =>
                      Sound(FetchedView(o)[x], TipCoin(x))
               /\ ViewCoin(x) = IF FetchedView(o)[x] = NoEntry THEN TipCoin(x)
                                ELSE FetchedView(o)[x].coin
    BY <1>1, Answers, FetchSound, SMTT(60) DEF FetchedView, ViewCoin
  <1> QED
    BY <1>2, <1>3, <1>4 DEF FetchedTip

(***************************************************************************)
(* One lemma per action: the invariant afterwards, and what the step does  *)
(* to the answers of the two caches.                                       *)
(***************************************************************************)
\* OpenView changes no answer.
LEMMA OpenViewStep ==
    ASSUME IInv, OpenView
    PROVE  /\ IInv' /\ TipGetBest' = TipGetBest /\ ViewGetBest' = ViewGetBest
           /\ \A x \in Outpoint :
                TipCoin(x)' = TipCoin(x) /\ ViewCoin(x)' = ViewCoin(x)
  <1>1. TipGetBest \in BlockHash /\ TipGetBest # Null
    BY CoinAssumption DEF IInv, TypeOK, TipGetBest
  <1>2. TypeOK'
    BY <1>1 DEF IInv, TypeOK, OpenView
  <1>3. \A x \in Outpoint : TipCoin(x)' = TipCoin(x) /\ ViewCoin(x)' = ViewCoin(x)
    BY DEF OpenView, TipCoin, ViewCoin
  <1>4. FlagsSound'
    BY <1>3 DEF IInv, FlagsSound, OpenView
  <1>5. TipGetBest' = TipGetBest /\ ViewGetBest' = ViewGetBest
    BY <1>1 DEF IInv, TypeOK, OpenView, TipGetBest, ViewGetBest
  <1> QED
    BY <1>2, <1>3, <1>4, <1>5 DEF IInv

\* AccessCoin changes no answer.
LEMMA AccessCoinStep ==
    ASSUME IInv, NEW o \in Outpoint, AccessCoin(o)
    PROVE  /\ IInv'
           /\ \A x \in Outpoint :
                TipCoin(x)' = TipCoin(x) /\ ViewCoin(x)' = ViewCoin(x)
  <1>1. tip' \in [Outpoint -> MaybeEntry] /\ view' \in [Outpoint -> MaybeEntry]
    BY ViewFetch, TipFetch DEF AccessCoin
  <1>2. \A x \in Outpoint :
            /\ tip'[x] # NoEntry => Sound(tip'[x], db'[x])
            /\ TipCoin(x)' = TipCoin(x)
    BY ViewFetch, TipFetch DEF AccessCoin
  <1>3. \A x \in Outpoint :
            /\ view'[x] # NoEntry => Sound(view'[x], TipCoin(x)')
            /\ ViewCoin(x)' = ViewCoin(x)
    <2> TAKE x \in Outpoint
    <2> QED
      BY <1>2, ViewFetch DEF AccessCoin, ViewCoin
  <1>4. TypeOK'
    BY <1>1 DEF IInv, TypeOK, AccessCoin, MaybeEntry
  <1> QED
    BY <1>2, <1>3, <1>4 DEF IInv, FlagsSound

\* Neither do a fetch and an eviction in pcoinsTip.
LEMMA TipAccessCoinStep ==
    ASSUME IInv, NEW o \in Outpoint, TipAccessCoin(o)
    PROVE  /\ IInv'
           /\ \A x \in Outpoint :
                TipCoin(x)' = TipCoin(x) /\ ViewCoin(x)' = ViewCoin(x)
  <1>1. /\ tip' \in [Outpoint -> MaybeEntry]
        /\ \A x \in Outpoint :
            /\ tip'[x] # NoEntry => Sound(tip'[x], db'[x])
            /\ TipCoin(x)' = TipCoin(x)
    BY TipFetch DEF TipAccessCoin
  <1>2. TypeOK'
    BY <1>1 DEF IInv, TypeOK, TipAccessCoin, MaybeEntry
  <1>3. \A x \in Outpoint : ViewCoin(x)' = ViewCoin(x)
    BY <1>1 DEF TipAccessCoin, ViewCoin
  <1>4. FlagsSound'
    BY <1>1 DEF IInv, FlagsSound, TipAccessCoin
  <1> QED
    BY <1>1, <1>2, <1>3, <1>4 DEF IInv

\* Uncache removes an entry that repeats the database.
LEMMA UncacheStep ==
    ASSUME IInv, NEW o \in Outpoint, Uncache(o)
    PROVE  /\ IInv'
           /\ \A x \in Outpoint :
                TipCoin(x)' = TipCoin(x) /\ ViewCoin(x)' = ViewCoin(x)
  <1>1. tip \in [Outpoint -> MaybeEntry]
    BY DEF IInv, TypeOK, MaybeEntry
  <1>2. tip' \in [Outpoint -> MaybeEntry] /\ tip'[o] = NoEntry
        /\ \A x \in Outpoint : x # o => tip'[x] = tip[x]
    BY <1>1 DEF Uncache, MaybeEntry
  <1>3. tip[o].coin = db[o]
    BY Answers DEF Uncache, Sound
  <1>4. \A x \in Outpoint : TipCoin(x)' = TipCoin(x)
    BY <1>2, <1>3 DEF Uncache, TipCoin
  <1>5. \A x \in Outpoint : ViewCoin(x)' = ViewCoin(x)
    BY <1>4 DEF Uncache, ViewCoin
  <1>6. TypeOK'
    BY <1>2 DEF IInv, TypeOK, Uncache, MaybeEntry
  <1>7. FlagsSound'
    BY <1>2, <1>4 DEF IInv, FlagsSound, Uncache
  <1> QED
    BY <1>4, <1>5, <1>6, <1>7 DEF IInv

\* AddCoin sets the answer of the view, and only that.
LEMMA AddCoinStep ==
    ASSUME IInv, NEW o \in Outpoint, NEW c \in Coin, NEW w \in BOOLEAN,
           AddCoin(o, c, w)
    PROVE  /\ IInv'
           /\ \A x \in Outpoint :
                /\ TipCoin(x)' = TipCoin(x)
                /\ ViewCoin(x)' = IF x = o THEN c ELSE ViewCoin(x)
  <1> DEFINE n == Added(IF view[o] = NoEntry THEN Clean(Spent) ELSE view[o], c, w)
  <1>1. w \/ (IF view[o] = NoEntry THEN TipCoin(o) ELSE view[o].coin) = Spent
    BY DEF AddCoin, ViewCoin
  <1>2. n \in Entry /\ n # NoEntry /\ n.coin = c /\ Sound(n, TipCoin(o))
    BY <1>1, Answers, AddedSound
  <1>3. view \in [Outpoint -> MaybeEntry]
    BY DEF IInv, TypeOK, MaybeEntry
  <1>4. view' = [view EXCEPT ![o] = n]
    BY DEF AddCoin
  <1> HIDE DEF n
  <1>5. view' \in [Outpoint -> MaybeEntry] /\ view'[o] = n
        /\ \A x \in Outpoint : x # o => view'[x] = view[x]
    BY <1>2, <1>3, <1>4 DEF MaybeEntry
  <1>6. \A x \in Outpoint : TipCoin(x)' = TipCoin(x)
    BY DEF AddCoin, TipCoin
  <1>7. \A x \in Outpoint : ViewCoin(x)' = IF x = o THEN c ELSE ViewCoin(x)
    BY <1>2, <1>5, <1>6 DEF ViewCoin
  <1>8. TypeOK'
    BY <1>5 DEF IInv, TypeOK, AddCoin, MaybeEntry
  <1>9. FlagsSound'
    BY <1>2, <1>5, <1>6 DEF IInv, FlagsSound, AddCoin
  <1> QED
    BY <1>6, <1>7, <1>8, <1>9 DEF IInv

\* SpendCoin makes the coin spent in the view.
LEMMA SpendCoinStep ==
    ASSUME IInv, NEW o \in Outpoint, SpendCoin(o)
    PROVE  /\ IInv'
           /\ \A x \in Outpoint :
                /\ TipCoin(x)' = TipCoin(x)
                /\ ViewCoin(x)' = IF x = o THEN Spent ELSE ViewCoin(x)
  <1> DEFINE v == FetchedView(o)
             n == IF v[o] = NoEntry THEN NoEntry ELSE SpentEntry(v[o])
  <1>1. /\ tip' \in [Outpoint -> MaybeEntry]
        /\ \A x \in Outpoint :
            /\ tip'[x] # NoEntry => Sound(tip'[x], db'[x])
            /\ TipCoin(x)' = TipCoin(x)
    BY ViewFetch, TipFetch DEF SpendCoin
  <1>2. v \in [Outpoint -> MaybeEntry]
    BY ViewFetch
  <1>3. n \in MaybeEntry
        /\ (n # NoEntry => Sound(n, TipCoin(o)) /\ n.coin = Spent)
        /\ (n = NoEntry => TipCoin(o) = Spent)
    <2>1. CASE v[o] = NoEntry
      BY <2>1, ViewFetch DEF MaybeEntry
    <2>2. CASE v[o] # NoEntry
      <3>1. v[o] \in Entry /\ Sound(v[o], TipCoin(o)) /\ TipCoin(o) \in MaybeCoin
        BY <1>2, <2>2, ViewFetch, Answers DEF MaybeEntry
      <3> QED
        BY <2>2, <3>1, SpentSound
    <2> QED
      BY <2>1, <2>2
  <1>4. view' = [v EXCEPT ![o] = n]
    BY <1>2, Zenon DEF SpendCoin
  <1>5. \A x \in Outpoint :
            /\ v[x] # NoEntry => Sound(v[x], TipCoin(x))
            /\ ViewCoin(x) = IF v[x] = NoEntry THEN TipCoin(x) ELSE v[x].coin
    BY ViewFetch
  <1> HIDE DEF n, v
  <1>6. view' \in [Outpoint -> MaybeEntry] /\ view'[o] = n
        /\ \A x \in Outpoint : x # o => view'[x] = v[x]
    BY <1>2, <1>3, <1>4
  <1>7. \A x \in Outpoint : ViewCoin(x)' = IF x = o THEN Spent ELSE ViewCoin(x)
    BY <1>1, <1>3, <1>5, <1>6 DEF ViewCoin
  <1>8. TypeOK'
    BY <1>1, <1>6 DEF IInv, TypeOK, SpendCoin, MaybeEntry
  <1>9. FlagsSound'
    BY <1>1, <1>3, <1>5, <1>6 DEF FlagsSound
  <1> QED
    BY <1>1, <1>7, <1>8, <1>9 DEF IInv

\* SetBestBlock changes the view's block only.
LEMMA SetBestBlockStep ==
    ASSUME IInv, NEW b \in BlockHash, SetBestBlock(b)
    PROVE  /\ IInv' /\ TipGetBest' = TipGetBest /\ ViewGetBest' = b
           /\ \A x \in Outpoint :
                TipCoin(x)' = TipCoin(x) /\ ViewCoin(x)' = ViewCoin(x)
  <1>1. b # Null
    BY CoinAssumption
  <1>2. TypeOK'
    BY <1>1 DEF IInv, TypeOK, SetBestBlock
  <1>3. \A x \in Outpoint : TipCoin(x)' = TipCoin(x) /\ ViewCoin(x)' = ViewCoin(x)
    BY DEF SetBestBlock, TipCoin, ViewCoin
  <1>4. FlagsSound'
    BY <1>3 DEF IInv, FlagsSound, SetBestBlock
  <1>5. TipGetBest' = TipGetBest /\ ViewGetBest' = b
    BY <1>1 DEF SetBestBlock, TipGetBest, ViewGetBest
  <1> QED
    BY <1>2, <1>3, <1>4, <1>5 DEF IInv

\* view.Flush() makes the tip answer what the view answered.
LEMMA FlushViewStep ==
    ASSUME IInv, FlushView
    PROVE  /\ IInv'
           /\ TipGetBest' = ViewGetBest /\ ViewGetBest' = ViewGetBest
           /\ \A x \in Outpoint :
                TipCoin(x)' = ViewCoin(x) /\ ViewCoin(x)' = ViewCoin(x)
  <1>1. \A x \in Outpoint : tip'[x] = Merged(tip[x], view[x]) /\ view'[x] = NoEntry
    BY DEF FlushView, Empty
  <1>2. \A x \in Outpoint :
            /\ tip'[x] \in MaybeEntry
            /\ tip'[x] # NoEntry => Sound(tip'[x], db'[x])
            /\ TipCoin(x)' = ViewCoin(x)
    <2> TAKE x \in Outpoint
    <2>1. view[x] # NoEntry =>
              Sound(view[x], IF tip[x] = NoEntry THEN db[x] ELSE tip[x].coin)
      BY Answers DEF TipCoin
    <2>2. /\ Merged(tip[x], view[x]) \in MaybeEntry
          /\ Merged(tip[x], view[x]) # NoEntry => Sound(Merged(tip[x], view[x]), db[x])
          /\ (IF Merged(tip[x], view[x]) = NoEntry THEN db[x]
              ELSE Merged(tip[x], view[x]).coin) = ViewCoin(x)
      BY <2>1, Answers, MergedSound DEF ViewCoin, TipCoin
    <2> QED
      BY <1>1, <2>2 DEF FlushView, TipCoin
  <1>3. \A x \in Outpoint : ViewCoin(x)' = ViewCoin(x)
    BY <1>1, <1>2 DEF ViewCoin
  <1>4. tip' \in [Outpoint -> MaybeEntry] /\ view' \in [Outpoint -> MaybeEntry]
    BY <1>1, <1>2 DEF FlushView, Empty, MaybeEntry
  <1>5. TypeOK'
    BY <1>4, Zenon DEF IInv, TypeOK, FlushView, MaybeEntry
  <1>6. FlagsSound'
    BY <1>1, <1>2 DEF FlagsSound
  <1>7. TipGetBest' = ViewGetBest /\ ViewGetBest' = ViewGetBest
    BY DEF IInv, TypeOK, FlushView, TipGetBest, ViewGetBest
  <1> QED
    BY <1>2, <1>3, <1>5, <1>6, <1>7 DEF IInv

\* A dropped view leaves the tip as it was.
LEMMA DropViewStep ==
    ASSUME IInv, DropView
    PROVE  /\ IInv' /\ TipGetBest' = TipGetBest /\ ViewGetBest' = TipGetBest
           /\ \A x \in Outpoint :
                TipCoin(x)' = TipCoin(x) /\ ViewCoin(x)' = TipCoin(x)
  <1>1. \A x \in Outpoint : TipCoin(x)' = TipCoin(x) /\ ViewCoin(x)' = TipCoin(x)
    BY DEF DropView, TipCoin, ViewCoin, Empty
  <1>2. TypeOK'
    BY Zenon DEF IInv, TypeOK, DropView, Empty
  <1>3. FlagsSound'
    BY DEF IInv, FlagsSound, DropView, Empty
  <1>4. TipGetBest' = TipGetBest /\ ViewGetBest' = TipGetBest
    BY DEF DropView, TipGetBest, ViewGetBest
  <1> QED
    BY <1>1, <1>2, <1>3, <1>4 DEF IInv

\* pcoinsTip->Flush() makes the database answer what the tip answers.
LEMMA FlushTipStep ==
    ASSUME IInv, FlushTip
    PROVE  /\ IInv' /\ dbBest' = TipGetBest
           /\ TipGetBest' = TipGetBest /\ ViewGetBest' = ViewGetBest
           /\ \A x \in Outpoint :
                /\ db'[x] = TipCoin(x)
                /\ TipCoin(x)' = TipCoin(x) /\ ViewCoin(x)' = ViewCoin(x)
  <1>1. \A x \in Outpoint : db'[x] = TipCoin(x) /\ db'[x] \in MaybeCoin
                              /\ tip'[x] = NoEntry
    BY Answers, WrittenCoin DEF FlushTip, TipCoin, Empty
  <1>2. \A x \in Outpoint : TipCoin(x)' = TipCoin(x) /\ ViewCoin(x)' = ViewCoin(x)
    BY <1>1 DEF FlushTip, TipCoin, ViewCoin
  <1>3. db' \in [Outpoint -> MaybeCoin] /\ tip' \in [Outpoint -> MaybeEntry]
    BY <1>1 DEF FlushTip, Empty, MaybeEntry
  <1>4. TypeOK'
    BY <1>3 DEF IInv, TypeOK, FlushTip, TipGetBest, MaybeCoin, MaybeEntry
  <1>5. FlagsSound'
    BY <1>1, <1>2 DEF IInv, FlagsSound, FlushTip
  <1>6. dbBest' = TipGetBest /\ TipGetBest' = TipGetBest /\ ViewGetBest' = ViewGetBest
    BY DEF FlushTip, TipGetBest, ViewGetBest
  <1> QED
    BY <1>1, <1>2, <1>4, <1>5, <1>6 DEF IInv

\* After a crash every layer answers what the database has.
LEMMA CrashStep ==
    ASSUME IInv, Crash
    PROVE  /\ IInv' /\ TipGetBest' = dbBest /\ ViewGetBest' = dbBest
           /\ \A x \in Outpoint :
                TipCoin(x)' = db[x] /\ ViewCoin(x)' = db[x]
  <1>1. \A x \in Outpoint : TipCoin(x)' = db[x] /\ ViewCoin(x)' = db[x]
    BY DEF Crash, TipCoin, ViewCoin, Empty
  <1>2. TypeOK'
    BY Zenon DEF IInv, TypeOK, Crash, Empty
  <1>3. FlagsSound'
    BY DEF FlagsSound, Crash, Empty
  <1>4. TipGetBest' = dbBest /\ ViewGetBest' = dbBest
    BY DEF Crash, TipGetBest, ViewGetBest
  <1> QED
    BY <1>1, <1>2, <1>3, <1>4 DEF IInv

\* The initial state satisfies the invariant.
LEMMA InitIInv == Init => IInv
  BY ZenonT(60) DEF Init, IInv, TypeOK, FlagsSound, Empty

\* Every step keeps the invariant.
LEMMA NextIInv == IInv /\ [Next]_vars => IInv'
  <1> SUFFICES ASSUME IInv, [Next]_vars PROVE IInv'
    OBVIOUS
  <1>1. CASE UNCHANGED vars
    BY <1>1 DEF vars, IInv, TypeOK, FlagsSound, TipCoin
  <1>2. CASE Next
    BY <1>2, OpenViewStep, FlushViewStep, DropViewStep, FlushTipStep, CrashStep,
       AccessCoinStep, TipAccessCoinStep, SpendCoinStep, UncacheStep, AddCoinStep,
       SetBestBlockStep DEF Next
  <1> QED
    BY <1>1, <1>2

\* The flags of the cache entries are sound in every reachable state, whatever
\* the outpoints, coins and blocks: "FRESH flag misapplied" (coins.cpp) is
\* never thrown.
THEOREM FlagsAlwaysSound == Spec => []FlagsSound
  <1>1. IInv => FlagsSound
    BY DEF IInv
  <1> QED
    BY InitIInv, NextIInv, <1>1, PTL DEF Spec

(***************************************************************************)
(* The refinement.                                                         *)
(***************************************************************************)
\* The initial states are initial states of the maps.
LEMMA InitAbstract == Init => Abstract!Init
  BY DEF Init, Abstract!Init, ViewCoin, TipCoin, ViewGetBest, TipGetBest, Empty

\* Every step is a step of the maps, or changes none of them.
LEMMA NextAbstract == IInv /\ [Next]_vars => [Abstract!Next]_(Abstract!vars)
  <1> SUFFICES ASSUME IInv, [Next]_vars
               PROVE  [Abstract!Next]_(Abstract!vars)
    OBVIOUS
  <1> DEFINE V == [o \in Outpoint |-> ViewCoin(o)]
             T == [o \in Outpoint |-> TipCoin(o)]
  <1>1. ASSUME UNCHANGED <<db, dbBest, open, TipGetBest, ViewGetBest>>,
               \A x \in Outpoint :
                  TipCoin(x)' = TipCoin(x) /\ ViewCoin(x)' = ViewCoin(x)
        PROVE  UNCHANGED Abstract!vars
    BY <1>1 DEF Abstract!vars
  <1>2. CASE UNCHANGED vars
    BY <1>2, <1>1 DEF vars, TipGetBest, ViewGetBest, TipCoin, ViewCoin
  <1>3. CASE OpenView
    <2>1. T' = T /\ V' = V
      BY <1>3, OpenViewStep
    <2> QED
      BY <1>3, <2>1, OpenViewStep DEF OpenView, Abstract!Next, Abstract!Open
  <1>4. CASE FlushView
    <2>1. T' = V /\ V' = V
      BY <1>4, FlushViewStep
    <2> QED
      BY <1>4, <2>1, FlushViewStep, Zenon DEF FlushView, Abstract!Next, Abstract!Commit
  <1>5. CASE DropView
    <2>1. T' = T /\ V' = T
      BY <1>5, DropViewStep
    <2> QED
      BY <1>5, <2>1, DropViewStep, Zenon DEF DropView, Abstract!Next, Abstract!Drop
  <1>6. CASE FlushTip
    <2>1. T' = T /\ V' = V
      BY <1>6, FlushTipStep
    <2>2. db' = T
      <3>1. db' = [o \in Outpoint |-> db'[o]]
        BY <1>6 DEF FlushTip
      <3> QED
        BY <1>6, <3>1, FlushTipStep
    <2> QED
      BY <1>6, <2>1, <2>2, FlushTipStep DEF FlushTip, Abstract!Next, Abstract!Write
  <1>7. CASE Crash
    <2>1. db = [o \in Outpoint |-> db[o]]
      BY DEF IInv, TypeOK
    <2>2. T' = db /\ V' = db
      BY <1>7, <2>1, CrashStep
    <2> QED
      BY <1>7, <2>2, CrashStep, Zenon DEF Crash, Abstract!Next, Abstract!Crash
  <1>8. ASSUME NEW o \in Outpoint,
               AccessCoin(o) \/ TipAccessCoin(o) \/ Uncache(o)
        PROVE  UNCHANGED Abstract!vars
    <2>1. \A x \in Outpoint : TipCoin(x)' = TipCoin(x) /\ ViewCoin(x)' = ViewCoin(x)
      BY <1>8, AccessCoinStep, TipAccessCoinStep, UncacheStep
    <2> QED
      BY <1>1, <1>8, <2>1 DEF AccessCoin, TipAccessCoin, Uncache, TipGetBest,
         ViewGetBest
  <1>9. ASSUME NEW o \in Outpoint, NEW c \in Coin, NEW w \in BOOLEAN,
               AddCoin(o, c, w)
        PROVE  Abstract!Change(o, c)
    <2>1. T' = T /\ V' = [V EXCEPT ![o] = c]
      BY <1>9, AddCoinStep, Zenon
    <2> QED
      BY <1>9, <2>1 DEF AddCoin, Abstract!Change, TipGetBest, ViewGetBest
  <1>10. ASSUME NEW o \in Outpoint, SpendCoin(o)
         PROVE  Abstract!Change(o, Spent)
    <2>1. T' = T /\ V' = [V EXCEPT ![o] = Spent]
      BY <1>10, SpendCoinStep, Zenon
    <2> QED
      BY <1>10, <2>1 DEF SpendCoin, Abstract!Change, TipGetBest, ViewGetBest
  <1>11. ASSUME NEW b \in BlockHash, SetBestBlock(b)
         PROVE  Abstract!SetBest(b)
    <2>1. T' = T /\ V' = V
      BY <1>11, SetBestBlockStep
    <2> QED
      BY <1>11, <2>1, SetBestBlockStep DEF SetBestBlock, Abstract!SetBest
  <1> QED
    <2>1. CASE \E o \in Outpoint, c \in Coin, w \in BOOLEAN : AddCoin(o, c, w)
      BY <2>1, <1>9 DEF Abstract!Next
    <2>2. CASE \E o \in Outpoint : SpendCoin(o)
      BY <2>2, <1>10 DEF Abstract!Next
    <2>3. CASE \E b \in BlockHash : SetBestBlock(b)
      BY <2>3, <1>11 DEF Abstract!Next
    <2>4. CASE \E o \in Outpoint : AccessCoin(o) \/ TipAccessCoin(o) \/ Uncache(o)
      BY <2>4, <1>8
    <2> QED
      BY <1>2, <1>3, <1>4, <1>5, <1>6, <1>7, <2>1, <2>2, <2>3, <2>4 DEF Next

\* The layered caches implement the plain maps of CoinsViewSpec: what GetCoin and
\* GetBestBlock answer at each layer is as if nothing were cached.
THEOREM CacheImplementsView == Spec => ImplementsView
  <1> QED
    BY InitIInv, NextIInv, InitAbstract, NextAbstract, PTL
    DEF Spec, ImplementsView, Abstract!Spec

===============================================================================
