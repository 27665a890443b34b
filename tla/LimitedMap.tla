------------------------------ MODULE LimitedMap ------------------------------
(***************************************************************************)
(* limitedmap (limitedmap.h), behind mapAlreadyAskedFor: a map and a       *)
(* multimap from values back to the entries of the map.  Entries of equal  *)
(* value stay in the order they were added.                                *)
(***************************************************************************)
EXTENDS Integers, FiniteSets, SequencesExt

CONSTANTS Key, Value, MaxSizes

VARIABLES
    map,         \* a function from some keys to values
    rmap,        \* the sequence of <<value, key>>, by value
    nMaxSize,
    offered      \* history: the values last given to insert or update for the
                 \* keys that have not been erased

vars == <<map, rmap, nMaxSize, offered>>

Init == map = <<>> /\ rmap = <<>> /\ nMaxSize \in MaxSizes /\ offered = <<>>

With(f, k, v) == [x \in DOMAIN f \cup {k} |-> IF x = k THEN v ELSE f[x]]

Without(f, ks) == [x \in DOMAIN f \ ks |-> f[x]]

\* Faulty: the multimap is filled in the order of the calls.
Rinsert_End(r, v, k) == Append(r, <<v, k>>)

\* std::multimap inserts after the entries of the same value.
Rinsert(r, v, k) ==
    SelectSeq(r, LAMBDA e : e[1] <= v) \o <<<<v, k>>>>
        \o SelectSeq(r, LAMBDA e : e[1] > v)

Rerase(r, k) == SelectSeq(r, LAMBDA e : e[2] # k)

\* A full map loses the entry of the lowest value before the new one is in rmap.
insert(k, v) ==
    /\ k \notin DOMAIN map
    /\ LET full == Cardinality(DOMAIN map) + 1 > nMaxSize
           lost == IF full THEN {Head(rmap)[2]} ELSE {}
       IN  /\ map' = With(Without(map, lost), k, v)
           /\ rmap' = Rinsert(IF full THEN Tail(rmap) ELSE rmap, v, k)
    /\ offered' = With(offered, k, v)
    /\ UNCHANGED nMaxSize

\* Faulty: the entry stays in the multimap.
erase_Rmap(k) ==
    /\ k \in DOMAIN map
    /\ map' = Without(map, {k})
    /\ rmap' = rmap
    /\ offered' = Without(offered, {k})
    /\ UNCHANGED nMaxSize

erase(k) ==
    /\ k \in DOMAIN map
    /\ map' = Without(map, {k})
    /\ rmap' = Rerase(rmap, k)
    /\ offered' = Without(offered, {k})
    /\ UNCHANGED nMaxSize

update(k, v) ==
    /\ k \in DOMAIN map
    /\ map' = [map EXCEPT ![k] = v]
    /\ rmap' = Rinsert(Rerase(rmap, k), v, k)
    /\ offered' = With(offered, k, v)
    /\ UNCHANGED nMaxSize

\* Faulty: the map is not cut down.
max_size_Keeps(s) ==
    /\ s # nMaxSize
    /\ nMaxSize' = s
    /\ UNCHANGED <<map, rmap, offered>>

\* max_size(s)
max_size(s) ==
    /\ s # nMaxSize
    /\ nMaxSize' = s
    /\ LET n == Cardinality(DOMAIN map)
           lost == IF n > s THEN n - s ELSE 0
       IN  /\ map' = Without(map, {rmap[i][2] : i \in 1 .. lost})
           /\ rmap' = SubSeq(rmap, lost + 1, Len(rmap))
    /\ UNCHANGED offered

Next ==
    \/ \E k \in Key, v \in Value : insert(k, v) \/ update(k, v)
    \/ \E k \in Key : erase(k)
    \/ \E s \in MaxSizes : max_size(s)

Spec == Init /\ [][Next]_vars

(***************************************************************************)
(* Properties.                                                             *)
(***************************************************************************)
\* The variables have the types their declarations give them, and the size is
\* bounded.
TypeOK ==
    /\ DOMAIN map \subseteq Key
    /\ \A k \in DOMAIN map : map[k] \in Value
    /\ Cardinality(DOMAIN map) <= nMaxSize
    /\ nMaxSize \in MaxSizes

\* The multimap has exactly the entries of the map, each with its value, in
\* order: erase and update find what they look for and never reach assert(0), and
\* the entry that is evicted exists.
RmapExact ==
    /\ Range(rmap) = {<<map[k], k>> : k \in DOMAIN map}
    /\ Len(rmap) = Cardinality(DOMAIN map)
    /\ \A i, j \in DOMAIN rmap : i < j => rmap[i][1] <= rmap[j][1]

\* An eviction takes no entry whose value is above that of an entry that stays,
\* the new one excepted.
EvictsLowest ==
    [][\A k \in DOMAIN map \ DOMAIN map' : \A x \in DOMAIN map \cap DOMAIN map' :
          k \in DOMAIN offered' => map[k] <= map[x]]_vars

===============================================================================
