---------------------------- MODULE CacheMultiMap ----------------------------
(***************************************************************************)
(* CacheMultiMap (cachemultimap.h): as CacheMap, with several values for a *)
(* key.  Two containers, as the copy of a CGovernanceObject copies its     *)
(* mapOrphanVotes: an iterator is the pair of the container whose list it  *)
(* points into and the item.                                               *)
(***************************************************************************)
EXTENDS Integers, SequencesExt

CONSTANTS Key, Value, MaxSize

Box == {"original", "copy"}

VARIABLES
    listItems,    \* per container, a sequence of items <<key, value>>
    mapIndex,     \* per container, a map from keys to maps from values to
                  \* the container the iterator points into
    nCurrentSize,
    later         \* history: for every item added to the original and not
                  \* erased since, the number of calls of Insert after it

vars == <<listItems, mapIndex, nCurrentSize, later>>

Item == Key \X Value

Nothing == <<>>

Init ==
    /\ listItems = [b \in Box |-> <<>>]
    /\ mapIndex = [b \in Box |-> Nothing]
    /\ nCurrentSize = [b \in Box |-> 0]
    /\ later = Nothing

Without(f, k) == [x \in DOMAIN f \ {k} |-> f[x]]

With(f, k, v) == [x \in DOMAIN f \cup {k} |-> IF x = k THEN v ELSE f[x]]

\* Faulty: an emptied inner map stays.
Dropped_Stays(index, k, v) == [index EXCEPT ![k] = Without(@, v)]

\* The index without the iterator of <<k, v>>; an empty inner map goes too.
Dropped(index, k, v) ==
    IF DOMAIN index[k] = {v} THEN Without(index, k)
    ELSE [index EXCEPT ![k] = Without(@, v)]

Map(b) == [items |-> listItems[b], index |-> mapIndex[b], size |-> nCurrentSize[b]]

Set(b, m) ==
    /\ listItems' = [listItems EXCEPT ![b] = m.items]
    /\ mapIndex' = [mapIndex EXCEPT ![b] = m.index]
    /\ nCurrentSize' = [nCurrentSize EXCEPT ![b] = m.size]

\* Faulty: the newest item goes.
PruneLast_First(m) ==
    IF m.size < 1 THEN m
    ELSE LET first == Head(m.items)
         IN  [items |-> Tail(m.items), index |-> Dropped(m.index, first[1], first[2]),
              size |-> m.size - 1]

PruneLast(m) ==
    IF m.size < 1 THEN m
    ELSE LET last == Last(m.items)
         IN  [items |-> Front(m.items), index |-> Dropped(m.index, last[1], last[2]),
              size |-> m.size - 1]

\* Has the index of container b only iterators into its own list?  If not, what
\* erasing through them does is undefined.
Own(b) ==
    \A k \in DOMAIN mapIndex[b] : \A v \in DOMAIN mapIndex[b][k] : mapIndex[b][k][v] = b

Has(m, k, v) == k \in DOMAIN m.index /\ v \in DOMAIN m.index[k]

\* One more call on container b.
Later(b) ==
    [x \in DOMAIN later |->
        IF b = "original" /\ later[x] < MaxSize THEN later[x] + 1 ELSE later[x]]

\* Room is made before the pair is looked up.
Insert(b, k, v) ==
    LET m == IF nCurrentSize[b] = MaxSize THEN PruneLast(Map(b)) ELSE Map(b)
    IN  /\ Own(b)
        /\ IF Has(m, k, v)
           THEN Set(b, m) /\ later' = Later(b)
           ELSE /\ Set(b, [items |-> <<<<k, v>>>> \o m.items,
                           index |-> With(m.index, k,
                                          With(IF k \in DOMAIN m.index THEN m.index[k]
                                               ELSE Nothing, v, b)),
                           size |-> m.size + 1])
                /\ later' = IF b = "original" THEN With(Later(b), <<k, v>>, 0) ELSE later

Erase(b, k) ==
    /\ Own(b)
    /\ k \in DOMAIN mapIndex[b]
    /\ Set(b, [items |-> SelectSeq(listItems[b], LAMBDA i : i[1] # k),
               index |-> Without(mapIndex[b], k),
               size |-> nCurrentSize[b]
                        - Len(SelectSeq(listItems[b], LAMBDA i : i[1] = k))])
    /\ later' = IF b # "original" THEN later
                ELSE [x \in {x \in DOMAIN later : x[1] # k} |-> later[x]]

\* Faulty: the counter is not decremented.
ErasePair_Count(b, k, v) ==
    /\ Own(b)
    /\ Has(Map(b), k, v)
    /\ Set(b, [items |-> SelectSeq(listItems[b], LAMBDA i : i # <<k, v>>),
               index |-> Dropped(mapIndex[b], k, v),
               size |-> nCurrentSize[b]])
    /\ UNCHANGED later

\* Erase(key, value)
ErasePair(b, k, v) ==
    /\ Own(b)
    /\ Has(Map(b), k, v)
    /\ Set(b, [items |-> SelectSeq(listItems[b], LAMBDA i : i # <<k, v>>),
               index |-> Dropped(mapIndex[b], k, v),
               size |-> nCurrentSize[b] - 1])
    /\ later' = IF b # "original" THEN later ELSE Without(later, <<k, v>>)

Clear(b) ==
    /\ Set(b, [items |-> <<>>, index |-> Nothing, size |-> 0])
    /\ later' = IF b # "original" THEN later ELSE Nothing

\* RebuildIndex, after reading from disk.
Rebuild(b) ==
    /\ LET ks == {listItems[b][i][1] : i \in DOMAIN listItems[b]}
       IN  mapIndex' = [mapIndex EXCEPT ![b] =
              [k \in ks |-> [v \in {v \in Value : <<k, v>> \in Range(listItems[b])} |-> b]]]
    /\ UNCHANGED <<listItems, nCurrentSize, later>>

\* The constructor and the assignment that call RebuildIndex take a CacheMap: a
\* copy of a CacheMultiMap is made member by member.
Copy ==
    /\ Own("original")
    /\ Set("copy", Map("original"))
    /\ UNCHANGED later

Next ==
    \/ \E b \in Box : \E k \in Key :
          Erase(b, k) \/ \E v \in Value : Insert(b, k, v) \/ ErasePair(b, k, v)
    \/ \E b \in Box : Clear(b) \/ Rebuild(b)
    \/ Copy

Spec == Init /\ [][Next]_vars

(***************************************************************************)
(* Properties.                                                             *)
(***************************************************************************)
\* The variables have the types their declarations give them, and the size that
\* is counted is the size of the list and never above the maximum.
TypeOK ==
    /\ DOMAIN later \subseteq Item
    /\ \A b \in Box : /\ listItems[b] \in Seq(Item)
                      /\ nCurrentSize[b] = Len(listItems[b])
                      /\ nCurrentSize[b] <= MaxSize

\* The index has an iterator for every item of the list and no other, and none of
\* its inner maps is empty: Get dereferences begin() of the map it finds.
IndexExact ==
    \A b \in Box :
        /\ \A k \in DOMAIN mapIndex[b] : DOMAIN mapIndex[b][k] # {}
        /\ {x \in Item : Has(Map(b), x[1], x[2])} = Range(listItems[b])
        /\ \A i, j \in DOMAIN listItems[b] : listItems[b][i] = listItems[b][j] => i = j

\* "Map like container that keeps the N most recently added items": an item stays
\* until it is erased or Insert is called N times after it.  (Not until N items are
\* added: room is made also for a pair that turns out to be there.)
KeepsRecent ==
    \A x \in DOMAIN later : later[x] < MaxSize => Has(Map("original"), x[1], x[2])

===============================================================================
