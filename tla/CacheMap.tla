------------------------------- MODULE CacheMap -------------------------------
(***************************************************************************)
(* CacheMap (cachemap.h): a list of items, newest first, with an index by  *)
(* key.  An iterator of the index is the item it refers to.                *)
(***************************************************************************)
EXTENDS Integers, SequencesExt

CONSTANTS Key, Value, MaxSize

VARIABLES
    listItems,    \* sequence of [key, value]
    mapIndex,     \* set of keys with an entry
    nCurrentSize,
    later         \* history: for every key added and not erased since, the
                  \* number of keys added after it

vars == <<listItems, mapIndex, nCurrentSize, later>>

Item == [key : Key, value : Value]

Init == listItems = <<>> /\ mapIndex = {} /\ nCurrentSize = 0 /\ later = <<>>

\* The map after PruneLast, as a record of the three fields.
Map == [items |-> listItems, index |-> mapIndex, size |-> nCurrentSize]

\* Faulty: the newest item goes.
PruneLast_First(m) ==
    IF m.size < 1 THEN m
    ELSE [items |-> Tail(m.items), index |-> m.index \ {Head(m.items).key},
          size |-> m.size - 1]

PruneLast(m) ==
    IF m.size < 1 THEN m
    ELSE [items |-> Front(m.items), index |-> m.index \ {Last(m.items).key},
          size |-> m.size - 1]

Set(m) == listItems' = m.items /\ mapIndex' = m.index /\ nCurrentSize' = m.size

\* Faulty: the index is not told of the erased key.
Removed_Index(m, k) ==
    [items |-> SelectSeq(m.items, LAMBDA i : i.key # k), index |-> m.index,
     size |-> m.size - 1]

Removed(m, k) ==
    [items |-> SelectSeq(m.items, LAMBDA i : i.key # k), index |-> m.index \ {k},
     size |-> m.size - 1]

\* Faulty: no room is made.
Insert_Grows(k, v) ==
    IF k \in mapIndex
    THEN /\ listItems' = [i \in DOMAIN listItems |->
                            IF listItems[i].key = k THEN [key |-> k, value |-> v]
                            ELSE listItems[i]]
         /\ UNCHANGED <<mapIndex, nCurrentSize, later>>
    ELSE LET m == Map
         IN  /\ Set([items |-> <<[key |-> k, value |-> v]>> \o m.items,
                     index |-> m.index \cup {k}, size |-> m.size + 1])
             /\ later' = [x \in DOMAIN later \cup {k} |->
                            IF x = k THEN 0
                            ELSE IF later[x] < MaxSize THEN later[x] + 1 ELSE MaxSize]

Insert(k, v) ==
    IF k \in mapIndex
    THEN /\ listItems' = [i \in DOMAIN listItems |->
                            IF listItems[i].key = k THEN [key |-> k, value |-> v]
                            ELSE listItems[i]]
         /\ UNCHANGED <<mapIndex, nCurrentSize, later>>
    ELSE LET m == IF nCurrentSize = MaxSize THEN PruneLast(Map) ELSE Map
         IN  /\ Set([items |-> <<[key |-> k, value |-> v]>> \o m.items,
                     index |-> m.index \cup {k}, size |-> m.size + 1])
             /\ later' = [x \in DOMAIN later \cup {k} |->
                            IF x = k THEN 0
                            ELSE IF later[x] < MaxSize THEN later[x] + 1 ELSE MaxSize]

Erase(k) ==
    /\ k \in mapIndex
    /\ Set(Removed(Map, k))
    /\ later' = [x \in DOMAIN later \ {k} |-> later[x]]

Clear ==
    /\ Set([items |-> <<>>, index |-> {}, size |-> 0])
    /\ later' = <<>>

\* Copying or reading from disk: the index is rebuilt from the list.
Rebuild ==
    /\ mapIndex' = {listItems[i].key : i \in DOMAIN listItems}
    /\ UNCHANGED <<listItems, nCurrentSize, later>>

Next ==
    \/ \E k \in Key, v \in Value : Insert(k, v)
    \/ \E k \in Key : Erase(k)
    \/ Clear \/ Rebuild

Spec == Init /\ [][Next]_vars

(***************************************************************************)
(* Properties.                                                             *)
(***************************************************************************)
\* The variables have the types their declarations give them, and the size that
\* is counted is the size of the list and never above the maximum.
TypeOK ==
    /\ listItems \in Seq(Item)
    /\ nCurrentSize = Len(listItems)
    /\ nCurrentSize <= MaxSize
    /\ DOMAIN later \subseteq Key

\* The index has an iterator for each key of the list and no other, and no key is
\* twice in the list: no iterator refers to an item that is gone.
IndexExact ==
    /\ mapIndex = {listItems[i].key : i \in DOMAIN listItems}
    /\ \A i, j \in DOMAIN listItems : listItems[i].key = listItems[j].key => i = j

\* "Map like container that keeps the N most recently added items": a key stays
\* until it is erased or N others are added after it.
KeepsRecent ==
    \A k \in DOMAIN later : later[k] < MaxSize => k \in mapIndex

===============================================================================
