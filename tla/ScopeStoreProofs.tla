-------------------------- MODULE ScopeStoreProofs --------------------------
(***************************************************************************)
(* No pointer of a container ever leaves it, for any allocator, any number *)
(* of contexts, released containers, names and elements.                   *)
(*                                                                         *)
(* The invariant is about one container at a time: it stays true of one    *)
(* that a step leaves alone, because a step writes only to addresses that  *)
(* were free or to those of a container it destroys.                       *)
(***************************************************************************)
EXTENDS ScopeStore, FiniteSetTheorems, TLAPS

Stores == Slots \cup Keys
StoreType == [owned : SUBSET Addresses, layers : Seq(LayerType)]

\* What is parsed with exists, what exists has a global layer, and there is no
\* head of a function where no function is parsed.
Rooted ==
    /\ ~inside => head = {}
    /\ parsing = NoSlot => ~inside
    /\ parsing \in Slots => instance[parsing] # 0
    /\ \A s \in Slots : instance[s] = 0 => stores[s] = NoStore
    /\ \A s \in Slots : instance[s] # 0 => 1 \in DOMAIN stores[s].layers
    /\ \A k \in Keys : Exists(k) => 1 \in DOMAIN stores[k].layers

IInv == TypeOK /\ NoDangling /\ Rooted

-----------------------------------------------------------------------------
(* Layers. *)

LEMMA LayerFacts ==
    ASSUME NEW layer \in LayerType
    PROVE  /\ DOMAIN layer \subseteq AllNames
           /\ \A n \in DOMAIN layer : layer[n] \in Addresses
           /\ layer = [n \in DOMAIN layer |-> layer[n]]
  BY DEF LayerType

LEMMA LayerIntro ==
    ASSUME NEW D \in SUBSET AllNames, NEW f \in [D -> Addresses]
    PROVE  f \in LayerType
  BY DEF LayerType

\* emplace leaves every name of a layer alone, and adds at most one.
LEMMA EmplaceKeeps ==
    ASSUME NEW layer \in LayerType, NEW name \in AllNames, NEW a \in Addresses
    PROVE  /\ Emplace(layer, name, a) \in LayerType
           /\ DOMAIN Emplace(layer, name, a) = DOMAIN layer \cup {name}
           /\ \A n \in DOMAIN layer : Emplace(layer, name, a)[n] = layer[n]
           /\ name \notin DOMAIN layer => Emplace(layer, name, a)[name] = a
<1>1. DOMAIN layer \subseteq AllNames /\ \A n \in DOMAIN layer : layer[n] \in Addresses
  BY LayerFacts
<1>2. Emplace(layer, name, a) \in [DOMAIN layer \cup {name} -> Addresses]
  BY <1>1 DEF Emplace
<1>3. Emplace(layer, name, a) \in LayerType
  BY <1>1, <1>2, LayerIntro
<1> QED
  BY <1>3 DEF Emplace

-----------------------------------------------------------------------------
(* Containers. *)

\* A container depends on nothing but the elements it owns.
LEMMA Frame ==
    ASSUME NEW h, NEW g, NEW store, Inside(h, store),
           \A a \in store.owned : g[a] = h[a]
    PROVE  Inside(g, store)
  BY DEF Inside, IsTypeOf

LEMMA FrameType ==
    ASSUME NEW h, NEW g, NEW store, NEW p, IsTypeOf(h, store, p),
           \A a \in store.owned : g[a] = h[a]
    PROVE  IsTypeOf(g, store, p)
  BY DEF IsTypeOf

LEMMA NoStoreInside ==
    ASSUME NEW h
    PROVE  Inside(h, NoStore) /\ NoStore \in StoreType
  BY DEF Inside, NoStore, StoreType

LEMMA FreshInside ==
    ASSUME NEW a \in Addresses, NEW h, h[a] = BuiltinElement
    PROVE  /\ Inside(h, Fresh(a))
           /\ Fresh(a) \in StoreType
           /\ 1 \in DOMAIN Fresh(a).layers
<1> DEFINE only == [n \in {BuiltinType} |-> a]
<1>1. only \in LayerType
  <2>1. {BuiltinType} \in SUBSET AllNames /\ only \in [{BuiltinType} -> Addresses]
    BY DEF AllNames
  <2> QED
    BY <2>1, LayerIntro
<1>2. Fresh(a).layers = <<only>> /\ Fresh(a).owned = {a}
  BY DEF Fresh
<1> HIDE DEF only
<1>3. DOMAIN Fresh(a).layers = {1} /\ Fresh(a).layers[1] = only
  BY <1>2
<1>4. DOMAIN only = {BuiltinType} /\ only[BuiltinType] = a
  BY DEF only
<1>5. Inside(h, Fresh(a))
  BY <1>2, <1>3, <1>4 DEF Inside, BuiltinElement, Element
<1>6. Fresh(a) \in StoreType
  <2>1. <<only>> \in Seq(LayerType)
    BY <1>1
  <2> QED
    BY <2>1 DEF StoreType, Fresh, only
<1> QED
  BY <1>3, <1>5, <1>6

\* An element is added at an address the container does not own, and points to
\* types of the container.
LEMMA AddInside ==
    ASSUME NEW h, NEW g, NEW store \in StoreType, Inside(h, store),
           NEW l \in DOMAIN store.layers, 1 \in DOMAIN store.layers,
           NEW a \in Addresses, a \notin store.owned, NEW name \in AllNames,
           g[a].name = name, g[a].kind # "free",
           \A p \in g[a].types : IsTypeOf(h, store, p),
           \A b \in store.owned : g[b] = h[b]
    PROVE  /\ Inside(g, Add(store, l, name, a))
           /\ Add(store, l, name, a) \in StoreType
           /\ DOMAIN Add(store, l, name, a).layers = DOMAIN store.layers
           /\ \A p : IsTypeOf(h, store, p) => IsTypeOf(g, Add(store, l, name, a), p)
<1> DEFINE new == Add(store, l, name, a)
           layer == store.layers[l]
<1>1. layer \in LayerType /\ store.layers[1] \in LayerType
  BY DEF StoreType
<1>2. /\ new.owned = store.owned \cup {a}
      /\ new.layers = [store.layers EXCEPT ![l] = Emplace(layer, name, a)]
  BY DEF Add
<1>3. /\ DOMAIN new.layers = DOMAIN store.layers
      /\ new.layers[l] = Emplace(layer, name, a)
      /\ \A m \in DOMAIN store.layers : m # l => new.layers[m] = store.layers[m]
  BY <1>2 DEF StoreType
<1>4. /\ Emplace(layer, name, a) \in LayerType
      /\ DOMAIN Emplace(layer, name, a) = DOMAIN layer \cup {name}
      /\ \A n \in DOMAIN layer : Emplace(layer, name, a)[n] = layer[n]
      /\ name \notin DOMAIN layer => Emplace(layer, name, a)[name] = a
  BY <1>1, EmplaceKeeps
<1>5. new \in StoreType
  <2>1. new.layers \in Seq(LayerType)
    BY <1>2, <1>4 DEF StoreType
  <2> QED
    BY <2>1, <1>2 DEF StoreType, Add
<1> HIDE DEF new
<1>6. ASSUME NEW p, IsTypeOf(h, store, p)
      PROVE  IsTypeOf(g, new, p)
  <2>1. p \in new.owned /\ g[p] = h[p]
    BY <1>2, <1>6 DEF IsTypeOf
  <2>2. h[p].name \in DOMAIN new.layers[1] /\ new.layers[1][h[p].name] = p
    BY <1>3, <1>4, <1>6 DEF IsTypeOf
  <2> QED
    BY <2>1, <2>2, <1>6 DEF IsTypeOf
<1>7. ASSUME NEW b \in new.owned
      PROVE  g[b].kind # "free" /\ \A p \in g[b].types : IsTypeOf(g, new, p)
  <2>1. CASE b = a
    BY <2>1, <1>6
  <2>2. CASE b \in store.owned
    BY <2>2, <1>6 DEF Inside
  <2> QED
    BY <2>1, <2>2, <1>2
<1>8. ASSUME NEW m \in DOMAIN new.layers, NEW n \in DOMAIN new.layers[m]
      PROVE  new.layers[m][n] \in new.owned /\ g[new.layers[m][n]].name = n
  <2>1. CASE n \in DOMAIN store.layers[m]
    BY <2>1, <1>2, <1>3, <1>4, <1>8 DEF Inside
  <2>2. CASE n \notin DOMAIN store.layers[m]
    <3>1. m = l /\ n = name
      BY <2>2, <1>3, <1>4, <1>8
    <3>2. new.layers[m][n] = a
      BY <3>1, <2>2, <1>3, <1>4
    <3> QED
      BY <3>1, <3>2, <1>2
  <2> QED
    BY <2>1, <2>2
<1>9. Inside(g, new)
  BY <1>7, <1>8 DEF Inside
<1> QED
  BY <1>3, <1>5, <1>6, <1>9 DEF new

-----------------------------------------------------------------------------
(* The clone. *)

LEMMA MoveFacts ==
    ASSUME NEW move \in Moves
    PROVE  /\ \A a \in Addresses : move[a] \in Addresses
           /\ \A a, b \in Addresses : move[a] = move[b] => a = b
  BY ScopeStoreConstants DEF IsInjective

LEMMA CloneAt ==
    ASSUME NEW h, NEW store \in StoreType, NEW move \in Moves
    PROVE  /\ \A a \in store.owned :
                 WithClone(h, store, move)[move[a]] = CloneOf(h, store, move, a)
           /\ \A b \in Addresses : b \notin Moved(store, move) =>
                 WithClone(h, store, move)[b] = h[b]
<1>1. ASSUME NEW a \in store.owned
      PROVE  WithClone(h, store, move)[move[a]] = CloneOf(h, store, move, a)
  <2>1. a \in Addresses /\ \A b \in store.owned : b \in Addresses
    BY DEF StoreType
  <2>2. \A b \in store.owned : move[b] = move[a] => b = a
    BY <2>1, MoveFacts
  <2>3. (CHOOSE b \in store.owned : move[b] = move[a]) = a
    <3> DEFINE at(b) == b \in store.owned /\ move[b] = move[a]
    <3>1. at(a)
      OBVIOUS
    <3>2. at(CHOOSE b \in store.owned : move[b] = move[a])
      BY <3>1, Zenon
    <3> QED
      BY <2>2, <3>2
  <2>4. move[a] \in Addresses /\ move[a] \in Moved(store, move)
    BY <2>1, MoveFacts DEF Moved
  <2> QED
    BY <2>3, <2>4 DEF WithClone
<1>2. ASSUME NEW b \in Addresses, b \notin Moved(store, move)
      PROVE  WithClone(h, store, move)[b] = h[b]
  BY <1>2 DEF WithClone
<1> QED
  BY <1>1, <1>2

\* The clone is a container of its own, whose pointers lead into itself: the
\* types are looked up in the new global layer.
LEMMA CloneInside ==
    ASSUME NEW h \in [Addresses -> ElementType], NEW g, NEW store \in StoreType,
           Inside(h, store), 1 \in DOMAIN store.layers, NEW move \in Moves,
           \A a \in store.owned : g[move[a]] = CloneOf(h, store, move, a)
    PROVE  LET clone == [owned  |-> Moved(store, move),
                         layers |-> CloneLayers(store, move)]
           IN  Inside(g, clone) /\ clone \in StoreType
<1> DEFINE layers == CloneLayers(store, move)
           clone == [owned |-> Moved(store, move), layers |-> layers]
<1>1. \A a \in store.owned : a \in Addresses
  BY DEF StoreType
<1>2. /\ DOMAIN layers = DOMAIN store.layers
      /\ \A l \in DOMAIN store.layers :
            /\ DOMAIN layers[l] = DOMAIN store.layers[l]
            /\ \A n \in DOMAIN store.layers[l] : layers[l][n] = move[store.layers[l][n]]
  BY DEF CloneLayers
<1> HIDE DEF layers
<1>3. \A l \in DOMAIN store.layers : layers[l] \in LayerType
  <2> SUFFICES ASSUME NEW l \in DOMAIN store.layers
               PROVE  layers[l] \in LayerType
    OBVIOUS
  <2>1. store.layers[l] \in LayerType
    BY DEF StoreType
  <2>2. /\ DOMAIN store.layers[l] \subseteq AllNames
        /\ \A n \in DOMAIN store.layers[l] : store.layers[l][n] \in Addresses
    BY <2>1, LayerFacts
  <2>3. layers[l] = [n \in DOMAIN store.layers[l] |-> move[store.layers[l][n]]]
    BY DEF layers, CloneLayers
  <2>4. layers[l] \in [DOMAIN store.layers[l] -> Addresses]
    BY <2>2, <2>3, MoveFacts
  <2> QED
    BY <2>2, <2>4, LayerIntro
<1>4. layers \in Seq(LayerType)
  <2>1. /\ Len(store.layers) \in Nat
        /\ DOMAIN store.layers = 1 .. Len(store.layers)
    BY DEF StoreType
  <2>2. layers = [l \in 1 .. Len(store.layers) |-> layers[l]]
    BY <2>1 DEF CloneLayers, layers
  <2>3. \A l \in 1 .. Len(store.layers) : layers[l] \in LayerType
    BY <2>1, <1>3
  <2> QED
    BY <2>1, <2>2, <2>3
<1>5. Moved(store, move) \in SUBSET Addresses
  BY <1>1, MoveFacts DEF Moved
<1>6. clone \in StoreType
  BY <1>4, <1>5 DEF StoreType
<1>7. ASSUME NEW a \in store.owned
      PROVE  /\ g[move[a]].kind = h[a].kind
             /\ g[move[a]].name = h[a].name
             /\ g[move[a]].types = { layers[1][h[p].name] : p \in h[a].types }
  <2>1. h[a] \in ElementType
    BY <1>1
  <2>2. g[move[a]] = [h[a] EXCEPT !.types = { layers[1][h[p].name] : p \in h[a].types }]
    BY DEF CloneOf, layers
  <2> QED
    BY <2>1, <2>2 DEF ElementType
<1>8. ASSUME NEW p, IsTypeOf(h, store, p)
      PROVE  /\ layers[1][h[p].name] = move[p]
             /\ IsTypeOf(g, clone, move[p])
  <2>1. /\ p \in store.owned /\ h[p].kind = "type"
        /\ h[p].name \in DOMAIN store.layers[1]
        /\ store.layers[1][h[p].name] = p
    BY <1>8 DEF IsTypeOf
  <2>2. h[p].name \in DOMAIN layers[1] /\ layers[1][h[p].name] = move[p]
    BY <2>1, <1>2
  <2>3. move[p] \in clone.owned
    BY <2>1 DEF Moved
  <2> QED
    BY <2>1, <2>2, <2>3, <1>7 DEF IsTypeOf
<1>9. ASSUME NEW b \in clone.owned
      PROVE  g[b].kind # "free" /\ \A q \in g[b].types : IsTypeOf(g, clone, q)
  <2>1. PICK a \in store.owned : b = move[a]
    BY <1>9 DEF Moved
  <2>2. h[a].kind # "free" /\ \A p \in h[a].types : IsTypeOf(h, store, p)
    BY DEF Inside
  <2> HIDE DEF clone
  <2> QED
    BY <2>1, <2>2, <1>7, <1>8
<1>10. ASSUME NEW l \in DOMAIN clone.layers, NEW n \in DOMAIN clone.layers[l]
       PROVE  /\ clone.layers[l][n] \in clone.owned
              /\ g[clone.layers[l][n]].name = n
  <2>1. l \in DOMAIN store.layers /\ n \in DOMAIN store.layers[l]
    BY <1>2, <1>10
  <2>2. store.layers[l][n] \in store.owned /\ h[store.layers[l][n]].name = n
    BY <2>1 DEF Inside
  <2>3. clone.layers[l][n] = move[store.layers[l][n]]
    BY <2>1, <1>2
  <2> QED
    BY <2>2, <2>3, <1>7 DEF Moved
<1>11. Inside(g, clone)
  <2> HIDE DEF clone
  <2> QED
    BY <1>9, <1>10 DEF Inside
<1> QED
  BY <1>6, <1>11 DEF layers

-----------------------------------------------------------------------------
(* What steps do to the containers. *)

\* A step that touches no container but these.
TouchesOnly(touched) ==
    \A k \in Stores \ touched :
       /\ stores'[k] = stores[k]
       /\ \A a \in stores[k].owned : heap'[a] = heap[a]

\* A step that adds an element to the container of a slot.
Adds(s) ==
    \E l \in DOMAIN stores[s].layers, a \in Addresses, name \in AllNames :
       /\ a \notin stores[s].owned
       /\ stores'[s] = Add(stores[s], l, name, a)
       /\ heap'[a].info \in {0, instance[s]}
       /\ \A b \in stores[s].owned : heap'[b] = heap[b]

\* A step that makes a clone of the container of a slot, and starts it anew.
Clones(s, k) ==
    \E move \in Moves, a \in Addresses :
       /\ stores'[k] = [owned  |-> Moved(stores[s], move),
                        layers |-> CloneLayers(stores[s], move)]
       /\ \A b \in stores[s].owned : heap'[move[b]] = CloneOf(heap, stores[s], move, b)
       /\ stores'[s] = Fresh(a) /\ heap'[a] = BuiltinElement

LEMMA StoreFacts ==
    ASSUME IInv, NEW k \in Stores
    PROVE  /\ stores[k] \in StoreType
           /\ Inside(heap, stores[k])
           /\ \A j \in Stores : j # k => stores[j].owned \cap stores[k].owned = {}
  BY DEF IInv, TypeOK, NoDangling, AllInside, OwnersDiffer, Stores, StoreType

\* The allocator returns addresses that nobody owns.
LEMMA AllocateFacts ==
    ASSUME NEW h \in [Addresses -> ElementType], NEW a \in Allocate(FreeIn(h))
    PROVE  a \in Addresses /\ h[a].kind = "free"
<1>1. FreeIn(h) \in SUBSET Addresses
  BY DEF FreeIn
<1>2. a \in FreeIn(h)
  BY <1>1, ScopeStoreConstants
<1> QED
  BY <1>2 DEF FreeIn, Free, Element

LEMMA TypesOfFacts ==
    ASSUME IInv, NEW s \in Slots, 1 \in DOMAIN stores[s].layers
    PROVE  \A p \in TypesOf(s) : IsTypeOf(heap, stores[s], p) /\ p \in Addresses
<1>1. Inside(heap, stores[s]) /\ stores[s] \in StoreType
  BY StoreFacts DEF Stores
<1> SUFFICES ASSUME NEW p \in TypesOf(s)
             PROVE  IsTypeOf(heap, stores[s], p) /\ p \in Addresses
  OBVIOUS
<1>2. heap[p].kind = "type" /\ p \in Range(stores[s].layers[1])
  BY DEF TypesOf
<1>3. PICK n \in DOMAIN stores[s].layers[1] : p = stores[s].layers[1][n]
  BY <1>2 DEF Range
<1>4. p \in stores[s].owned /\ heap[p].name = n
  BY <1>1, <1>3 DEF Inside
<1> QED
  BY <1>1, <1>2, <1>3, <1>4 DEF IsTypeOf, StoreType

LEMMA ParsedHasLayer ==
    ASSUME IInv, parsing \in Slots
    PROVE  1 \in DOMAIN stores[parsing].layers
  BY DEF IInv, Rooted

LEMMA CloseElement ==
    ASSUME NEW kind \in {"type", "var", "func"}, NEW name \in AllNames, NEW id \in Nat,
           NEW types \in SUBSET Addresses, NEW info \in Nat
    PROVE  /\ Element(kind, name, id, types, info) \in ElementType
           /\ Element(kind, name, id, types, info).kind # "free"
           /\ Element(kind, name, id, types, info).name = name
           /\ Element(kind, name, id, types, info).types = types
           /\ Element(kind, name, id, types, info).info = info
  BY DEF Element, ElementType

\* An element is put into the container that is parsed into.
LEMMA PutStep ==
    ASSUME IInv, NEW s \in Slots, 1 \in DOMAIN stores[s].layers,
           NEW l \in DOMAIN stores[s].layers,
           NEW a \in Allocate(FreeIn(heap)), NEW name \in AllNames,
           NEW kind \in {"type", "var", "func"}, NEW types \in SUBSET Addresses,
           \A p \in types : IsTypeOf(heap, stores[s], p),
           NEW info \in {0, instance[s]}, info \in Nat,
           Put(s, l, a, kind, name, types, info)
    PROVE  /\ heap' \in [Addresses -> ElementType]
           /\ stores' \in [Slots \cup Keys -> StoreType]
           /\ AllInside' /\ OwnersDiffer'
           /\ \A p : IsTypeOf(heap, stores[s], p) => IsTypeOf(heap', stores'[s], p)
           /\ 1 \in DOMAIN stores'[s].layers
           /\ TouchesOnly({s}) /\ Adds(s)
<1> DEFINE new == Add(stores[s], l, name, a)
           id == Cardinality(stores[s].owned) + 1
<1>1. /\ heap \in [Addresses -> ElementType]
      /\ stores \in [Slots \cup Keys -> StoreType]
      /\ stores[s] \in StoreType /\ Inside(heap, stores[s])
      /\ s \in Stores
  BY StoreFacts DEF IInv, TypeOK, Stores, StoreType
<1>2. a \in Addresses /\ heap[a].kind = "free"
  BY <1>1, AllocateFacts
<1>3. \A k \in Stores : a \notin stores[k].owned
  BY <1>2, StoreFacts DEF Inside
<1>4. id \in Nat
  <2>1. IsFiniteSet(stores[s].owned)
    BY <1>1, ScopeStoreConstants, FS_Subset DEF StoreType
  <2> QED
    BY <2>1, FS_CardinalityType
<1> HIDE DEF id
<1>5. /\ heap' = [heap EXCEPT ![a] = Element(kind, name, id, types, info)]
      /\ stores' = [stores EXCEPT ![s] = new]
  BY DEF Put, id
<1>6. /\ heap'[a] = Element(kind, name, id, types, info)
      /\ \A b \in Addresses : b # a => heap'[b] = heap[b]
      /\ stores'[s] = new
      /\ \A k \in Stores : k # s => stores'[k] = stores[k]
  BY <1>1, <1>2, <1>5 DEF Stores
<1>7. /\ heap'[a] \in ElementType /\ heap'[a].kind # "free"
      /\ heap'[a].name = name /\ heap'[a].types = types
      /\ heap'[a].info \in {0, instance[s]}
  BY <1>4, <1>6, CloseElement
<1>8. \A k \in Stores : \A b \in stores[k].owned : heap'[b] = heap[b]
  BY <1>3, <1>6, StoreFacts DEF StoreType
<1>9. /\ Inside(heap', new) /\ new \in StoreType
      /\ DOMAIN new.layers = DOMAIN stores[s].layers
      /\ \A p : IsTypeOf(heap, stores[s], p) => IsTypeOf(heap', new, p)
  <2>1. /\ a \notin stores[s].owned
        /\ \A b \in stores[s].owned : heap'[b] = heap[b]
        /\ \A p \in heap'[a].types : IsTypeOf(heap, stores[s], p)
    BY <1>1, <1>3, <1>7, <1>8
  <2> HIDE DEF new
  <2> QED
    BY <1>1, <1>2, <1>7, <2>1, AddInside DEF new
<1>10. new.owned = stores[s].owned \cup {a}
  BY DEF Add
<1> HIDE DEF new
<1>11. heap' \in [Addresses -> ElementType]
  BY <1>1, <1>2, <1>5, <1>6, <1>7
<1>12. stores' \in [Slots \cup Keys -> StoreType]
  BY <1>1, <1>5, <1>9
<1>13. AllInside'
  <2> SUFFICES ASSUME NEW k \in Stores
               PROVE  Inside(heap', stores'[k])
    BY DEF AllInside, Stores
  <2>1. CASE k = s
    BY <2>1, <1>6, <1>9
  <2>2. CASE k # s
    <3>1. Inside(heap, stores[k]) /\ \A b \in stores[k].owned : heap'[b] = heap[b]
      BY <1>8, StoreFacts
    <3>2. Inside(heap', stores[k])
      BY <3>1, Frame
    <3> QED
      BY <2>2, <3>2, <1>6
  <2> QED
    BY <2>1, <2>2
<1>14. OwnersDiffer'
  <2> SUFFICES ASSUME NEW j \in Stores, NEW k \in Stores, j # k
               PROVE  stores'[j].owned \cap stores'[k].owned = {}
    BY DEF OwnersDiffer, Stores
  <2>1. stores[j].owned \cap stores[k].owned = {}
    BY StoreFacts
  <2> QED
    BY <2>1, <1>3, <1>6, <1>10
<1>15. TouchesOnly({s}) /\ Adds(s)
  BY <1>1, <1>2, <1>3, <1>6, <1>7, <1>8 DEF TouchesOnly, Adds, new
<1> QED
  BY <1>6, <1>9, <1>11, <1>12, <1>13, <1>14, <1>15

\* A container is destroyed.
LEMMA DestroyStep ==
    ASSUME IInv, NEW k \in Stores,
           heap' = Freed(heap, stores[k].owned),
           stores' = [stores EXCEPT ![k] = NoStore]
    PROVE  /\ heap' \in [Addresses -> ElementType]
           /\ stores' \in [Slots \cup Keys -> StoreType]
           /\ AllInside' /\ OwnersDiffer'
           /\ TouchesOnly({k})
<1>1. /\ heap \in [Addresses -> ElementType]
      /\ stores \in [Slots \cup Keys -> StoreType]
  BY DEF IInv, TypeOK, StoreType
<1>2. Free \in ElementType
  BY DEF Free, Element, ElementType, AllNames
<1>3. heap' \in [Addresses -> ElementType]
  BY <1>1, <1>2 DEF Freed
<1>4. stores' \in [Slots \cup Keys -> StoreType]
  BY <1>1, NoStoreInside
<1>5. /\ stores'[k] = NoStore
      /\ \A j \in Stores : j # k => stores'[j] = stores[j]
  BY <1>1 DEF Stores
<1>6. TouchesOnly({k})
  <2> SUFFICES ASSUME NEW j \in Stores, j # k
               PROVE  \A b \in stores[j].owned : heap'[b] = heap[b]
    BY <1>5 DEF TouchesOnly
  <2>1. stores[j] \in StoreType /\ stores[j].owned \cap stores[k].owned = {}
    BY StoreFacts
  <2> QED
    BY <2>1 DEF Freed, StoreType
<1>7. AllInside'
  <2> SUFFICES ASSUME NEW j \in Stores
               PROVE  Inside(heap', stores'[j])
    BY DEF AllInside, Stores
  <2>1. CASE j = k
    BY <2>1, <1>5, NoStoreInside
  <2>2. CASE j # k
    <3>1. Inside(heap, stores[j]) /\ \A b \in stores[j].owned : heap'[b] = heap[b]
      BY <2>2, <1>6, StoreFacts DEF TouchesOnly
    <3>2. Inside(heap', stores[j])
      BY <3>1, Frame
    <3> QED
      BY <2>2, <3>2, <1>5
  <2> QED
    BY <2>1, <2>2
<1>8. OwnersDiffer'
  BY <1>5, StoreFacts DEF OwnersDiffer, NoStore, Stores
<1> QED
  BY <1>3, <1>4, <1>6, <1>7, <1>8

-----------------------------------------------------------------------------
(* Every step. *)

\* The part of the invariant about the context of the machine, not the heap.
Marks ==
    /\ instance \in [Slots -> Nat] /\ contexts \in Nat
    /\ parsing \in Slots \cup {NoSlot} /\ inside \in BOOLEAN
    /\ head \in SUBSET Addresses /\ is_inst \in Slots \cup {NoSlot}
    /\ status \in {"defined", "undefined"} /\ careful \in BOOLEAN

LEMMA Assemble ==
    ASSUME heap \in [Addresses -> ElementType],
           stores \in [Slots \cup Keys -> StoreType],
           Marks, AllInside, OwnersDiffer, HeadInside, Rooted
    PROVE  IInv
  BY DEF IInv, TypeOK, NoDangling, StoreType, Marks

LEMMA AssembleNext ==
    ASSUME heap' \in [Addresses -> ElementType],
           stores' \in [Slots \cup Keys -> StoreType],
           Marks', AllInside', OwnersDiffer', HeadInside', Rooted'
    PROVE  IInv'
  BY DEF IInv, TypeOK, NoDangling, StoreType, Marks

LEMMA Parts ==
    ASSUME IInv
    PROVE  /\ heap \in [Addresses -> ElementType]
           /\ stores \in [Slots \cup Keys -> StoreType]
           /\ Marks /\ AllInside /\ OwnersDiffer /\ HeadInside /\ Rooted
  BY DEF IInv, TypeOK, NoDangling, StoreType, Marks

LEMMA InitInv == Init => IInv
<1> SUFFICES ASSUME Init PROVE IInv
  OBVIOUS
<1>1. Free \in ElementType
  BY DEF Free, Element, ElementType, AllNames
<1>2. heap \in [Addresses -> ElementType] /\ stores \in [Slots \cup Keys -> StoreType]
  BY <1>1, NoStoreInside DEF Init
<1>3. Marks
  BY DEF Init, Marks
<1>4. AllInside /\ OwnersDiffer
  BY NoStoreInside DEF Init, AllInside, OwnersDiffer, NoStore
<1>5. HeadInside /\ Rooted
  BY ScopeStoreConstants DEF Init, HeadInside, Rooted, Exists
<1> QED
  BY <1>2, <1>3, <1>4, <1>5, Assemble

LEMMA CreateStep ==
    ASSUME IInv, NEW s \in Slots, Create(s)
    PROVE  /\ IInv' /\ TouchesOnly({s})
           /\ \E a \in Addresses : stores'[s] = Fresh(a) /\ heap'[a] = BuiltinElement
<1>1. PICK a \in Allocate(FreeIn(heap)) :
        /\ heap' = [heap EXCEPT ![a] = BuiltinElement]
        /\ stores' = [stores EXCEPT ![s] = Fresh(a)]
  BY DEF Create
<1>2. a \in Addresses /\ heap[a].kind = "free"
  BY Parts, AllocateFacts
<1>3. \A k \in Stores : a \notin stores[k].owned
  BY <1>2, StoreFacts DEF Inside
<1>4. /\ heap'[a] = BuiltinElement
      /\ \A b \in Addresses : b # a => heap'[b] = heap[b]
      /\ stores'[s] = Fresh(a)
      /\ \A k \in Stores : k # s => stores'[k] = stores[k]
  BY <1>1, <1>2, Parts DEF Stores
<1>5. /\ Inside(heap', Fresh(a)) /\ Fresh(a) \in StoreType
      /\ 1 \in DOMAIN Fresh(a).layers
  BY <1>2, <1>4, FreshInside
<1>6. BuiltinElement \in ElementType
  BY DEF BuiltinElement, Element, ElementType, AllNames
<1>7. heap' \in [Addresses -> ElementType] /\ stores' \in [Slots \cup Keys -> StoreType]
  BY <1>1, <1>5, <1>6, Parts
<1>8. AllInside'
  <2> SUFFICES ASSUME NEW k \in Stores, k # s
               PROVE  Inside(heap', stores'[k])
    BY <1>4, <1>5 DEF AllInside, Stores
  <2>1. Inside(heap, stores[k]) /\ \A b \in stores[k].owned : heap'[b] = heap[b]
    BY <1>3, <1>4, StoreFacts DEF StoreType
  <2> QED
    BY <2>1, <1>4, Frame
<1>9. OwnersDiffer'
  <2>1. Fresh(a).owned = {a}
    BY DEF Fresh
  <2> HIDE DEF Fresh
  <2> QED
    BY <2>1, <1>3, <1>4, StoreFacts DEF OwnersDiffer, Stores
<1>10. TouchesOnly({s})
  BY <1>3, <1>4, StoreFacts DEF TouchesOnly, StoreType
<1>11. Marks' /\ HeadInside'
  BY Parts, ScopeStoreConstants DEF Create, Idle, Marks, HeadInside
<1>12. Rooted'
  <2>1. instance' = [instance EXCEPT ![s] = contexts + 1] /\ contexts + 1 # 0
    BY Parts DEF Create, Marks
  <2> QED
    BY <2>1, <1>4, <1>5, Parts, ScopeStoreConstants
    DEF Create, Idle, Rooted, Marks, Stores, Exists
<1> QED
  BY <1>2, <1>4, <1>7, <1>8, <1>9, <1>10, <1>11, <1>12, AssembleNext

LEMMA EndStep ==
    ASSUME IInv, NEW s \in Slots, End(s)
    PROVE  IInv' /\ TouchesOnly({s})
<1>1. s \in Stores /\ heap' = Freed(heap, stores[s].owned)
      /\ stores' = [stores EXCEPT ![s] = NoStore]
  BY DEF End, Stores
<1>2. /\ heap' \in [Addresses -> ElementType]
      /\ stores' \in [Slots \cup Keys -> StoreType]
      /\ AllInside' /\ OwnersDiffer'
      /\ TouchesOnly({s})
  BY <1>1, DestroyStep
<1>3. Marks' /\ HeadInside'
  BY Parts, ScopeStoreConstants DEF End, Idle, Marks, HeadInside
<1>4. stores'[s] = NoStore /\ \A j \in Stores : j # s => stores'[j] = stores[j]
  BY <1>1, <1>2, Parts DEF TouchesOnly, Stores
<1>5. Rooted'
  BY <1>4, Parts, ScopeStoreConstants DEF End, Idle, Rooted, Marks, Stores, Exists
<1> QED
  BY <1>2, <1>3, <1>5, AssembleNext

LEMMA DropStep ==
    ASSUME IInv, NEW k \in Keys, Drop(k)
    PROVE  IInv' /\ TouchesOnly({k})
<1>1. k \in Stores /\ heap' = Freed(heap, stores[k].owned)
      /\ stores' = [stores EXCEPT ![k] = NoStore]
  BY DEF Drop, Stores
<1>2. /\ heap' \in [Addresses -> ElementType]
      /\ stores' \in [Slots \cup Keys -> StoreType]
      /\ AllInside' /\ OwnersDiffer'
      /\ TouchesOnly({k})
  BY <1>1, DestroyStep
<1>3. Marks' /\ HeadInside'
  BY Parts, ScopeStoreConstants DEF Drop, Idle, Marks, HeadInside
<1>4. stores'[k] = NoStore /\ \A j \in Stores : j # k => stores'[j] = stores[j]
  BY <1>1, <1>2, Parts DEF TouchesOnly, Stores
<1>5. Rooted'
  BY <1>4, Parts, ScopeStoreConstants DEF Drop, Idle, Rooted, Marks, Stores, Exists
<1> QED
  BY <1>2, <1>3, <1>5, AssembleNext

\* Steps that leave the heap and the containers alone.
LEMMA QuietStep ==
    ASSUME IInv, UNCHANGED <<heap, stores>>,
           \/ \E s \in Slots : Begin(s) \/ Throw(s)
           \/ \E k \in Keys : Translate(k)
           \/ UNCHANGED vars
    PROVE  IInv'
<1>1. heap' = heap /\ stores' = stores
  OBVIOUS
<1>2. AllInside' /\ OwnersDiffer'
  BY <1>1, Parts DEF AllInside, OwnersDiffer
<1>3. CASE \E s \in Slots : Begin(s)
  <2>1. Marks' /\ HeadInside' /\ Rooted'
    BY <1>1, <1>3, Parts DEF Begin, Idle, Marks, HeadInside, Rooted, IsTypeOf, Exists
  <2> QED
    BY <1>1, <1>2, <2>1, Parts, AssembleNext
<1>4. CASE \E s \in Slots : Throw(s)
  <2>1. Marks' /\ HeadInside' /\ Rooted'
    BY <1>1, <1>4, Parts, ScopeStoreConstants DEF Throw, Marks, HeadInside, Rooted, Exists
  <2> QED
    BY <1>1, <1>2, <2>1, Parts, AssembleNext
<1>5. CASE \E k \in Keys : Translate(k)
  <2>1. Marks' /\ HeadInside' /\ Rooted'
    BY <1>1, <1>5, Parts DEF Translate, Marks, HeadInside, Rooted, IsTypeOf, Exists
  <2> QED
    BY <1>1, <1>2, <2>1, Parts, AssembleNext
<1>6. CASE UNCHANGED vars
  <2>1. Marks' /\ HeadInside' /\ Rooted'
    BY <1>1, <1>6, Parts DEF vars, Marks, HeadInside, Rooted, IsTypeOf, Exists
  <2> QED
    BY <1>1, <1>2, <2>1, Parts, AssembleNext
<1> QED
  BY <1>3, <1>4, <1>5, <1>6

LEMMA LastLayer ==
    ASSUME NEW store \in StoreType, 1 \in DOMAIN store.layers
    PROVE  Len(store.layers) \in DOMAIN store.layers
  BY DEF StoreType

LEMMA AddTypeStep ==
    ASSUME IInv, NEW s \in Slots, AddType(s)
    PROVE  IInv' /\ TouchesOnly({s}) /\ Adds(s)
<1>1. PICK a \in Allocate(FreeIn(heap)), n \in Names, types \in SUBSET TypesOf(s) :
        Put(s, 1, a, "type", n, types, 0)
  BY DEF AddType
<1>2. 1 \in DOMAIN stores[s].layers /\ n \in AllNames /\ parsing = s
  BY ParsedHasLayer DEF AddType, AllNames
<1>3. types \in SUBSET Addresses /\ \A p \in types : IsTypeOf(heap, stores[s], p)
  BY <1>2, TypesOfFacts
<1>4. /\ heap' \in [Addresses -> ElementType]
      /\ stores' \in [Slots \cup Keys -> StoreType]
      /\ AllInside' /\ OwnersDiffer'
      /\ \A p : IsTypeOf(heap, stores[s], p) => IsTypeOf(heap', stores'[s], p)
      /\ 1 \in DOMAIN stores'[s].layers
      /\ TouchesOnly({s}) /\ Adds(s)
  BY <1>1, <1>2, <1>3, PutStep
<1>5. Marks' /\ HeadInside' /\ Rooted'
  BY <1>2, <1>4, Parts, ScopeStoreConstants
  DEF AddType, Marks, HeadInside, Rooted, TouchesOnly, Stores, Exists
<1> QED
  BY <1>4, <1>5, AssembleNext

LEMMA AddVariableStep ==
    ASSUME IInv, NEW s \in Slots, AddVariable(s)
    PROVE  IInv' /\ TouchesOnly({s}) /\ Adds(s)
<1>1. PICK a \in Allocate(FreeIn(heap)), n \in Names, q \in TypesOf(s) :
        Put(s, Len(stores[s].layers), a, "var", n, {q}, 0)
  BY DEF AddVariable
<1>2. 1 \in DOMAIN stores[s].layers /\ n \in AllNames /\ parsing = s
  BY ParsedHasLayer DEF AddVariable, AllNames
<1>3. {q} \in SUBSET Addresses /\ \A p \in {q} : IsTypeOf(heap, stores[s], p)
  BY <1>2, TypesOfFacts
<1>4. Len(stores[s].layers) \in DOMAIN stores[s].layers
  BY <1>2, LastLayer, Parts
<1>5. /\ heap' \in [Addresses -> ElementType]
      /\ stores' \in [Slots \cup Keys -> StoreType]
      /\ AllInside' /\ OwnersDiffer'
      /\ \A p : IsTypeOf(heap, stores[s], p) => IsTypeOf(heap', stores'[s], p)
      /\ 1 \in DOMAIN stores'[s].layers
      /\ TouchesOnly({s}) /\ Adds(s)
  BY <1>1, <1>2, <1>3, <1>4, PutStep
<1>6. Marks' /\ HeadInside' /\ Rooted'
  BY <1>2, <1>5, Parts, ScopeStoreConstants
  DEF AddVariable, Marks, HeadInside, Rooted, TouchesOnly, Stores, Exists
<1> QED
  BY <1>5, <1>6, AssembleNext

LEMMA CloseFunctionStep ==
    ASSUME IInv, NEW s \in Slots, CloseFunction(s)
    PROVE  IInv' /\ TouchesOnly({s}) /\ Adds(s)
<1>1. PICK a \in Allocate(FreeIn(heap)), n \in Names :
        Put(s, 1, a, "func", n, head, instance[s])
  BY DEF CloseFunction
<1>2. 1 \in DOMAIN stores[s].layers /\ n \in AllNames /\ parsing = s
  BY ParsedHasLayer DEF CloseFunction, AllNames
<1>3. /\ head \in SUBSET Addresses /\ instance[s] \in Nat
      /\ \A p \in head : IsTypeOf(heap, stores[s], p)
  BY <1>2, Parts DEF Marks, HeadInside
<1>4. /\ heap' \in [Addresses -> ElementType]
      /\ stores' \in [Slots \cup Keys -> StoreType]
      /\ AllInside' /\ OwnersDiffer'
      /\ 1 \in DOMAIN stores'[s].layers
      /\ TouchesOnly({s}) /\ Adds(s)
  BY <1>1, <1>2, <1>3, PutStep
<1>5. Marks' /\ HeadInside' /\ Rooted'
  BY <1>2, <1>4, Parts, ScopeStoreConstants
  DEF CloseFunction, Marks, HeadInside, Rooted, TouchesOnly, Stores, Exists
<1> QED
  BY <1>4, <1>5, AssembleNext

LEMMA OpenFunctionStep ==
    ASSUME IInv, NEW s \in Slots, OpenFunction(s)
    PROVE  IInv' /\ TouchesOnly({s})
<1> DEFINE new == [stores[s] EXCEPT !.layers = Append(@, NoNames)]
<1>1. /\ s \in Stores /\ parsing = s /\ 1 \in DOMAIN stores[s].layers
      /\ stores[s] \in StoreType /\ Inside(heap, stores[s])
  BY ParsedHasLayer, StoreFacts DEF OpenFunction, Stores
<1>2. /\ heap' = heap
      /\ stores' = [stores EXCEPT ![s] = new]
  BY <1>1, Parts DEF OpenFunction
<1>3. NoNames \in LayerType
  <2>1. {} \in SUBSET AllNames /\ NoNames \in [{} -> Addresses]
    BY DEF NoNames
  <2> QED
    BY <2>1, LayerIntro
<1>4. /\ new.owned = stores[s].owned
      /\ new.layers = Append(stores[s].layers, NoNames)
      /\ new \in StoreType
  BY <1>1, <1>3 DEF StoreType
<1>5. /\ 1 \in DOMAIN new.layers
      /\ \A l \in DOMAIN stores[s].layers : new.layers[l] = stores[s].layers[l]
      /\ \A l \in DOMAIN new.layers : l \in DOMAIN stores[s].layers \/ new.layers[l] = NoNames
  BY <1>1, <1>3, <1>4 DEF StoreType
<1> HIDE DEF new
<1>6. \A p : IsTypeOf(heap, stores[s], p) => IsTypeOf(heap, new, p)
  BY <1>1, <1>4, <1>5 DEF IsTypeOf
<1>7. Inside(heap, new)
  <2>1. ASSUME NEW l \in DOMAIN new.layers, NEW n \in DOMAIN new.layers[l]
        PROVE  new.layers[l][n] \in new.owned /\ heap[new.layers[l][n]].name = n
    <3>1. DOMAIN NoNames = {}
      BY DEF NoNames
    <3>2. l \in DOMAIN stores[s].layers /\ new.layers[l] = stores[s].layers[l]
      BY <2>1, <3>1, <1>5
    <3> QED
      BY <2>1, <3>2, <1>1, <1>4 DEF Inside
  <2> QED
    BY <2>1, <1>1, <1>4, <1>6 DEF Inside
<1>8. /\ stores' \in [Slots \cup Keys -> StoreType]
      /\ stores'[s] = new
      /\ \A k \in Stores : k # s => stores'[k] = stores[k]
  BY <1>1, <1>2, <1>4, Parts DEF Stores
<1>9. AllInside' /\ OwnersDiffer'
  BY <1>2, <1>4, <1>7, <1>8, StoreFacts DEF AllInside, OwnersDiffer, Stores
<1>10. \A p \in head' : IsTypeOf(heap, stores[s], p) /\ p \in Addresses
  BY <1>1, TypesOfFacts DEF OpenFunction
<1>11. Marks'
  BY <1>10, Parts DEF OpenFunction, Marks
<1>12. HeadInside'
  BY <1>1, <1>2, <1>6, <1>8, <1>10 DEF OpenFunction, HeadInside
<1>13. Rooted'
  <2>1. /\ inside' /\ parsing' = parsing /\ instance' = instance /\ parsing # NoSlot
        /\ instance[s] # 0 /\ s \notin Keys
    BY <1>1, Parts, ScopeStoreConstants DEF OpenFunction, Rooted
  <2>2. \A k \in Keys : Exists(k)' = Exists(k) /\ stores'[k] = stores[k]
    BY <2>1, <1>8 DEF Stores, Exists
  <2>3. \A t \in Slots : t # s => stores'[t] = stores[t]
    BY <1>8 DEF Stores
  <2> QED
    BY <2>1, <2>2, <2>3, <1>5, <1>8, Parts DEF Rooted
<1>14. TouchesOnly({s})
  BY <1>2, <1>8 DEF TouchesOnly
<1> QED
  BY <1>2, <1>8, <1>9, <1>11, <1>12, <1>13, <1>14, Parts, AssembleNext

LEMMA ReleaseStep ==
    ASSUME IInv, NEW s \in Slots, Release(s)
    PROVE  /\ IInv'
           /\ \E k \in Keys : ~Exists(k) /\ TouchesOnly({s, k}) /\ Clones(s, k)
<1>1. PICK k \in Keys, move \in Moves :
        /\ ~Exists(k)
        /\ Moved(stores[s], move) \subseteq FreeIn(heap)
        /\ LET after == Freed(WithClone(heap, stores[s], move), stores[s].owned)
           IN \E a \in Allocate(FreeIn(after)) :
                /\ heap' = [after EXCEPT ![a] = BuiltinElement]
                /\ stores' = [stores EXCEPT
                                ![k] = [owned  |-> Moved(stores[s], move),
                                        layers |-> CloneLayers(stores[s], move)],
                                ![s] = Fresh(a)]
  BY DEF Release
<1> DEFINE after == Freed(WithClone(heap, stores[s], move), stores[s].owned)
           clone == [owned  |-> Moved(stores[s], move),
                     layers |-> CloneLayers(stores[s], move)]
           old == stores[s].owned
<1>2. PICK a \in Allocate(FreeIn(after)) :
        /\ heap' = [after EXCEPT ![a] = BuiltinElement]
        /\ stores' = [stores EXCEPT ![k] = clone, ![s] = Fresh(a)]
  BY <1>1
<1>3. /\ s \in Stores /\ k \in Stores /\ s # k /\ parsing = s
      /\ stores[s] \in StoreType /\ Inside(heap, stores[s])
      /\ 1 \in DOMAIN stores[s].layers
      /\ heap \in [Addresses -> ElementType]
  BY StoreFacts, ParsedHasLayer, Parts, ScopeStoreConstants DEF Release, Stores
<1>4. /\ stores'[s] = Fresh(a) /\ stores'[k] = clone
      /\ \A j \in Stores : j # s /\ j # k => stores'[j] = stores[j]
  BY <1>2, <1>3, Parts DEF Stores
<1>5. /\ \A b \in old : b \in Addresses /\ heap[b].kind # "free"
      /\ \A b \in clone.owned : b \in Addresses /\ heap[b].kind = "free"
  BY <1>1, <1>3 DEF Inside, StoreType, FreeIn, Free, Element
<1>6. clone.owned \cap old = {}
  BY <1>5
\* What the heap holds between the reset and the new container.
<1>7. /\ \A b \in old : after[b] = Free
      /\ \A b \in old : after[move[b]] = CloneOf(heap, stores[s], move, b)
      /\ \A b \in Addresses : b \notin old /\ b \notin clone.owned => after[b] = heap[b]
      /\ after \in [Addresses -> ElementType]
  <2>1. /\ \A b \in old : WithClone(heap, stores[s], move)[move[b]]
                             = CloneOf(heap, stores[s], move, b)
        /\ \A b \in Addresses : b \notin clone.owned =>
              WithClone(heap, stores[s], move)[b] = heap[b]
    BY <1>3, CloneAt
  <2>2. \A b \in old : move[b] \in clone.owned
    BY DEF Moved
  <2>3. \A b \in Addresses : after[b] = IF b \in old THEN Free
                                       ELSE WithClone(heap, stores[s], move)[b]
    BY DEF Freed
  <2>4. /\ \A b \in old : after[b] = Free
        /\ \A b \in old : after[move[b]] = CloneOf(heap, stores[s], move, b)
        /\ \A b \in Addresses : b \notin old /\ b \notin clone.owned => after[b] = heap[b]
    <3> HIDE DEF after, clone
    <3> QED
      BY <2>1, <2>2, <2>3, <1>5, <1>6
  <2>5. Free \in ElementType
    BY DEF Free, Element, ElementType, AllNames
  <2>6. \A b \in old : CloneOf(heap, stores[s], move, b) \in ElementType
    <3> SUFFICES ASSUME NEW b \in old
                 PROVE  CloneOf(heap, stores[s], move, b) \in ElementType
      OBVIOUS
    <3> DEFINE types == { CloneLayers(stores[s], move)[1][heap[p].name] : p \in heap[b].types }
    <3>1. \A p \in heap[b].types : IsTypeOf(heap, stores[s], p)
      BY <1>3 DEF Inside
    <3>2. \A p \in heap[b].types :
            CloneLayers(stores[s], move)[1][heap[p].name] \in Addresses
      BY <3>1, <1>3, <1>5, MoveFacts DEF IsTypeOf, CloneLayers
    <3>3. types \in SUBSET Addresses
      BY <3>2
    <3>4. heap[b] \in ElementType
      BY <1>3, <1>5
    <3>5. CloneOf(heap, stores[s], move, b) = [heap[b] EXCEPT !.types = types]
      BY DEF CloneOf
    <3> HIDE DEF types
    <3> QED
      BY <3>3, <3>4, <3>5 DEF ElementType
  <2>7. \A b \in Addresses : after[b] \in ElementType
    <3> SUFFICES ASSUME NEW b \in Addresses
                 PROVE  after[b] \in ElementType
      OBVIOUS
    <3>1. CASE b \in clone.owned
      <4>1. PICK c \in old : b = move[c]
        BY <3>1 DEF Moved
      <4> HIDE DEF after, clone, old
      <4> QED
        BY <4>1, <2>4, <2>6
    <3>2. CASE b \notin clone.owned
      BY <3>2, <2>4, <2>5, <1>3
    <3> QED
      BY <3>1, <3>2
  <2>8. after = [b \in Addresses |-> after[b]]
    BY DEF Freed
  <2> HIDE DEF after
  <2> QED
    BY <2>4, <2>7, <2>8
<1>8. a \in Addresses /\ after[a].kind = "free"
  <2> HIDE DEF after
  <2> QED
    BY <1>7, AllocateFacts
<1>9. \A b \in old : CloneOf(heap, stores[s], move, b).kind # "free"
  <2> SUFFICES ASSUME NEW b \in old
               PROVE  CloneOf(heap, stores[s], move, b).kind # "free"
    OBVIOUS
  <2>1. heap[b] \in ElementType
    BY <1>3, <1>5
  <2>2. CloneOf(heap, stores[s], move, b).kind = heap[b].kind
    BY <2>1 DEF CloneOf, ElementType
  <2> QED
    BY <2>2, <1>5
<1>10. a \notin clone.owned
  <2> SUFFICES ASSUME a \in clone.owned
               PROVE  FALSE
    OBVIOUS
  <2>1. PICK b \in old : a = move[b]
    BY DEF Moved
  <2> HIDE DEF after
  <2> QED
    BY <2>1, <1>7, <1>8, <1>9
<1> HIDE DEF after
<1>11. /\ heap'[a] = BuiltinElement
       /\ \A b \in Addresses : b # a => heap'[b] = after[b]
       /\ heap' \in [Addresses -> ElementType]
  <2>1. BuiltinElement \in ElementType
    BY DEF BuiltinElement, Element, ElementType, AllNames
  <2> QED
    BY <2>1, <1>2, <1>7, <1>8
<1>12. \A b \in old : heap'[move[b]] = CloneOf(heap, stores[s], move, b)
  <2>1. \A b \in old : move[b] \in clone.owned /\ move[b] \in Addresses
    BY <1>5 DEF Moved
  <2> HIDE DEF clone
  <2> QED
    BY <2>1, <1>7, <1>10, <1>11
<1>13. /\ Inside(heap', clone) /\ clone \in StoreType
       /\ DOMAIN clone.layers = DOMAIN stores[s].layers
  <2>1. Inside(heap', clone) /\ clone \in StoreType
    BY <1>3, <1>12, CloneInside
  <2> QED
    BY <2>1 DEF CloneLayers
<1>14. Clones(s, k)
  BY <1>4, <1>8, <1>11, <1>12 DEF Clones
<1> HIDE DEF clone
<1>15. /\ Inside(heap', Fresh(a)) /\ Fresh(a) \in StoreType
       /\ 1 \in DOMAIN Fresh(a).layers
  BY <1>8, <1>11, FreshInside
<1>16. Fresh(a).owned = {a}
  BY DEF Fresh
\* The others: none of their elements was written to.
<1>17. ASSUME NEW j \in Stores, j # s, j # k
       PROVE  /\ Inside(heap', stores[j])
              /\ \A b \in stores[j].owned : heap'[b] = heap[b]
              /\ a \notin stores[j].owned /\ stores[j].owned \cap clone.owned = {}
  <2>1. /\ Inside(heap, stores[j]) /\ stores[j] \in StoreType
        /\ stores[j].owned \cap old = {}
    BY <1>3, <1>17, StoreFacts
  <2>2. \A b \in stores[j].owned : b \in Addresses /\ heap[b].kind # "free"
    BY <2>1 DEF Inside, StoreType
  <2>3. stores[j].owned \cap clone.owned = {}
    BY <2>2, <1>5
  <2>4. \A b \in stores[j].owned : after[b] = heap[b]
    BY <2>1, <2>2, <2>3, <1>7
  <2>5. a \notin stores[j].owned
    BY <2>2, <2>4, <1>8
  <2>6. \A b \in stores[j].owned : heap'[b] = heap[b]
    BY <2>2, <2>4, <2>5, <1>11
  <2> QED
    BY <2>1, <2>3, <2>5, <2>6, Frame
<1>18. AllInside'
  BY <1>4, <1>13, <1>15, <1>17 DEF AllInside, Stores
<1>19. OwnersDiffer'
  <2> SUFFICES ASSUME NEW i \in Stores, NEW j \in Stores, i # j
               PROVE  stores'[i].owned \cap stores'[j].owned = {}
    BY DEF OwnersDiffer, Stores
  <2>1. CASE i = s
    BY <2>1, <1>4, <1>10, <1>16, <1>17
  <2>2. CASE j = s
    BY <2>2, <1>4, <1>10, <1>16, <1>17
  <2>3. CASE i # s /\ j # s
    <3>1. stores[i].owned \cap stores[j].owned = {}
      BY StoreFacts
    <3> QED
      BY <2>3, <3>1, <1>4, <1>17
  <2> QED
    BY <2>1, <2>2, <2>3
<1>20. stores' \in [Slots \cup Keys -> StoreType]
  BY <1>2, <1>13, <1>15, Parts
<1>21. Marks' /\ HeadInside' /\ Rooted'
  <2>1. Marks'
    BY Parts DEF Release, Marks
  <2>2. head = {} => HeadInside' /\ Rooted'
    BY <1>3, <1>4, <1>13, <1>15, Parts, ScopeStoreConstants
    DEF Release, HeadInside, Rooted, Stores, Exists
  <2>3. head = {}
    BY Parts, <1>3 DEF Rooted, Release
  <2> QED
    BY <2>1, <2>2, <2>3
<1>22. TouchesOnly({s, k})
  BY <1>4, <1>17 DEF TouchesOnly
<1> QED
  BY <1>1, <1>11, <1>14, <1>18, <1>19, <1>20, <1>21, <1>22, AssembleNext

LEMMA NextInv == IInv /\ [Next]_vars => IInv'
<1> SUFFICES ASSUME IInv, [Next]_vars
             PROVE  IInv'
  OBVIOUS
<1>1. ASSUME NEW s \in Slots, Create(s) PROVE IInv'
  BY <1>1, CreateStep
<1>2. ASSUME NEW s \in Slots, End(s) PROVE IInv'
  BY <1>2, EndStep
<1>3. ASSUME NEW s \in Slots, Begin(s) PROVE IInv'
  <2>1. UNCHANGED <<heap, stores>>
    BY <1>3 DEF Begin
  <2> QED
    BY <2>1, <1>3, QuietStep
<1>4. ASSUME NEW s \in Slots, AddType(s) PROVE IInv'
  BY <1>4, AddTypeStep
<1>5. ASSUME NEW s \in Slots, OpenFunction(s) PROVE IInv'
  BY <1>5, OpenFunctionStep
<1>6. ASSUME NEW s \in Slots, AddVariable(s) PROVE IInv'
  BY <1>6, AddVariableStep
<1>7. ASSUME NEW s \in Slots, CloseFunction(s) PROVE IInv'
  BY <1>7, CloseFunctionStep
<1>8. ASSUME NEW s \in Slots, Throw(s) PROVE IInv'
  <2>1. UNCHANGED <<heap, stores>>
    BY <1>8 DEF Throw
  <2> QED
    BY <2>1, <1>8, QuietStep
<1>9. ASSUME NEW s \in Slots, Release(s) PROVE IInv'
  BY <1>9, ReleaseStep
<1>10. ASSUME NEW k \in Keys, Translate(k) PROVE IInv'
  <2>1. UNCHANGED <<heap, stores>>
    BY <1>10 DEF Translate
  <2> QED
    BY <2>1, <1>10, QuietStep
<1>11. ASSUME NEW k \in Keys, Drop(k) PROVE IInv'
  BY <1>11, DropStep
<1>12. CASE UNCHANGED vars
  <2>1. UNCHANGED <<heap, stores>>
    BY <1>12 DEF vars
  <2> QED
    BY <2>1, <1>12, QuietStep
<1> QED
  BY <1>1, <1>2, <1>3, <1>4, <1>5, <1>6, <1>7, <1>8, <1>9, <1>10, <1>11, <1>12 DEF Next

LEMMA AlwaysIInv == Spec => []IInv
  BY InitInv, NextInv, PTL DEF Spec

\* Of the heap, the containers and the contexts.
THEOREM StoresTyped == Spec => []TypeOK
<1>1. IInv => TypeOK
  BY DEF IInv
<1> QED
  BY <1>1, AlwaysIInv, PTL

\* Whatever is parsed, thrown away, released and destroyed, in whatever order,
\* no container and no parse in progress holds a pointer out of the container
\* it belongs to, or into what was destroyed (clone and release_container).
THEOREM NothingDangles == Spec => []NoDangling
<1>1. IInv => NoDangling
  BY DEF IInv
<1> QED
  BY <1>1, AlwaysIInv, PTL

-----------------------------------------------------------------------------
(* Contexts that end. *)

\* The lambda's context lives, and so do those that functions point into.
HomesLive ==
    /\ Defined
    /\ is_inst \in Slots => instance[is_inst] # 0
    /\ \A k \in Keys : Homes(k) \subseteq Range(instance)
CInv ==
    /\ \A s \in Slots : Homes(s) \subseteq {instance[s]}
    /\ careful => HomesLive


LEMMA InitCareful == Init => CInv
  BY ScopeStoreConstants DEF Init, CInv, HomesLive, Homes, NoStore, Defined

\* The homes of a container that is left alone, and of one that is added to.
LEMMA OtherHomes ==
    ASSUME NEW touched, TouchesOnly(touched)
    PROVE  \A k \in Stores \ touched : Homes(k)' = Homes(k)
  BY DEF TouchesOnly, Homes

LEMMA AddedHomes ==
    ASSUME NEW s \in Slots, Adds(s)
    PROVE  Homes(s)' \subseteq Homes(s) \cup {instance[s]}
  BY DEF Adds, Add, Homes

LEMMA FreshHomes ==
    ASSUME NEW s \in Slots, NEW a, stores'[s] = Fresh(a), heap'[a] = BuiltinElement
    PROVE  Homes(s)' = {}
  BY DEF Homes, Fresh, BuiltinElement, Element

\* Functions of a clone point into the same context.
LEMMA ClonedHomes ==
    ASSUME IInv, NEW s \in Slots, NEW k \in Keys, Clones(s, k)
    PROVE  Homes(k)' \subseteq Homes(s) /\ Homes(s)' = {}
<1>1. PICK move \in Moves, a \in Addresses :
        /\ stores'[k] = [owned  |-> Moved(stores[s], move),
                         layers |-> CloneLayers(stores[s], move)]
        /\ \A b \in stores[s].owned : heap'[move[b]] = CloneOf(heap, stores[s], move, b)
        /\ stores'[s] = Fresh(a) /\ heap'[a] = BuiltinElement
  BY DEF Clones
<1>2. \A b \in stores[s].owned : heap'[move[b]].info = heap[b].info
  <2> SUFFICES ASSUME NEW b \in stores[s].owned
               PROVE  heap'[move[b]].info = heap[b].info
    OBVIOUS
  <2>1. heap[b] \in ElementType
    BY Parts DEF StoreType
  <2> QED
    BY <2>1, <1>1 DEF CloneOf, ElementType
<1>3. Homes(k)' \subseteq Homes(s)
  <2>1. stores'[k].owned = { move[b] : b \in stores[s].owned }
    BY <1>1 DEF Moved
  <2> QED
    BY <2>1, <1>2 DEF Homes
<1> QED
  BY <1>1, <1>3, FreshHomes

LEMMA NextCareful == IInv /\ CInv /\ [Next]_vars => CInv'
<1> SUFFICES ASSUME IInv, CInv, [Next]_vars
             PROVE  CInv'
  OBVIOUS
<1> USE DEF CInv, HomesLive
<1>1. instance \in [Slots -> Nat] /\ contexts \in Nat /\ is_inst \in Slots \cup {NoSlot}
  BY Parts DEF Marks
<1>2. ASSUME NEW s \in Slots, Create(s) PROVE CInv'
  <2>1. PICK a \in Addresses : stores'[s] = Fresh(a) /\ heap'[a] = BuiltinElement
    BY <1>2, CreateStep
  <2>2. Homes(s)' = {}
    BY <2>1, FreshHomes
  <2>3. /\ \A t \in Slots : t # s => Homes(t)' = Homes(t)
        /\ \A k \in Keys : Homes(k)' = Homes(k)
    <3>1. TouchesOnly({s})
      BY <1>2, CreateStep
    <3>2. \A j \in Stores \ {s} : Homes(j)' = Homes(j)
      BY <3>1, OtherHomes
    <3> QED
      BY <3>2, ScopeStoreConstants DEF Stores
  <2>4. /\ instance[s] = 0 /\ contexts + 1 # 0
        /\ instance' = [instance EXCEPT ![s] = contexts + 1]
        /\ UNCHANGED <<is_inst, status, careful>>
    BY <1>1, <1>2 DEF Create
  <2>5. Range(instance) \subseteq Range(instance') \cup {0}
    BY <1>1, <2>4 DEF Range
  <2>6. \A k \in Keys : 0 \notin Homes(k)
    BY DEF Homes
  <2>7. ASSUME careful' PROVE HomesLive'
    <3>1. Defined' /\ (is_inst' \in Slots => instance'[is_inst'] # 0)
      BY <1>1, <2>4, <2>7 DEF Defined
    <3>2. \A k \in Keys : Homes(k)' \subseteq Range(instance')
      <4>1. \A k \in Keys : Homes(k) \subseteq Range(instance)
        BY <2>4, <2>7
      <4> QED
        BY <4>1, <2>3, <2>5, <2>6
    <3> QED
      BY <3>1, <3>2
  <2>8. \A t \in Slots : Homes(t)' \subseteq {instance'[t]}
    BY <1>1, <2>2, <2>3, <2>4
  <2> QED
    BY <2>7, <2>8
<1>3. ASSUME NEW s \in Slots, End(s) PROVE CInv'
  <2>1. Homes(s)' = {}
    BY <1>3, Parts DEF End, Homes, NoStore
  <2>2. /\ \A t \in Slots : t # s => Homes(t)' = Homes(t)
        /\ \A k \in Keys : Homes(k)' = Homes(k)
    <3>1. TouchesOnly({s})
      BY <1>3, EndStep
    <3>2. \A j \in Stores \ {s} : Homes(j)' = Homes(j)
      BY <3>1, OtherHomes
    <3> QED
      BY <3>2, ScopeStoreConstants DEF Stores
  <2>3. /\ instance' = [instance EXCEPT ![s] = 0]
        /\ careful' = (careful /\ is_inst # s /\ \A k \in Keys : instance[s] \notin Homes(k))
        /\ UNCHANGED <<is_inst, status>>
    BY <1>3 DEF End
  <2>4. Range(instance) \subseteq Range(instance') \cup {instance[s]}
    BY <1>1, <2>3 DEF Range
  <2>5. ASSUME careful' PROVE HomesLive'
    <3>1. Defined' /\ (is_inst' \in Slots => instance'[is_inst'] # 0)
      BY <1>1, <2>3, <2>5 DEF Defined
    <3>2. \A k \in Keys : Homes(k)' \subseteq Range(instance')
      <4>1. \A k \in Keys : Homes(k) \subseteq Range(instance) /\ instance[s] \notin Homes(k)
        BY <2>3, <2>5
      <4> QED
        BY <4>1, <2>2, <2>4
    <3> QED
      BY <3>1, <3>2
  <2>6. \A t \in Slots : Homes(t)' \subseteq {instance'[t]}
    BY <1>1, <2>1, <2>2, <2>3
  <2> QED
    BY <2>5, <2>6
<1>4. ASSUME NEW s \in Slots, Begin(s) PROVE CInv'
  <2>1. \A k \in Stores : Homes(k)' = Homes(k)
    BY <1>4 DEF Begin, Homes
  <2> QED
    BY <1>1, <1>4, <2>1, ScopeStoreConstants DEF Begin, Idle, Defined, Stores
<1>5. ASSUME NEW s \in Slots, AddType(s) \/ AddVariable(s) \/ CloseFunction(s) PROVE CInv'
  <2>1. TouchesOnly({s}) /\ Adds(s)
    BY <1>5, AddTypeStep, AddVariableStep, CloseFunctionStep
  <2>2. /\ \A t \in Slots : t # s => Homes(t)' = Homes(t)
        /\ \A k \in Keys : Homes(k)' = Homes(k)
    BY <2>1, OtherHomes, ScopeStoreConstants DEF Stores
  <2>3. UNCHANGED <<instance, is_inst, status, careful>>
    BY <1>5 DEF AddType, AddVariable, CloseFunction
  <2> QED
    BY <2>1, <2>2, <2>3, AddedHomes DEF Defined
<1>6. ASSUME NEW s \in Slots, OpenFunction(s) PROVE CInv'
  <2>1. \A k \in Stores : Homes(k)' = Homes(k)
    BY <1>6, Parts DEF OpenFunction, Homes, StoreType, Stores
  <2>2. UNCHANGED <<instance, is_inst, status, careful>>
    BY <1>6 DEF OpenFunction
  <2> QED
    BY <2>1, <2>2 DEF Defined, Stores
<1>7. ASSUME NEW s \in Slots, Throw(s) PROVE CInv'
  <2>1. \A k \in Stores : Homes(k)' = Homes(k)
    BY <1>7 DEF Throw, Homes
  <2> QED
    BY <1>7, <2>1 DEF Throw, Defined, Stores
<1>8. ASSUME NEW s \in Slots, Release(s) PROVE CInv'
  <2>1. PICK k \in Keys : TouchesOnly({s, k}) /\ Clones(s, k)
    BY <1>8, ReleaseStep
  <2>2. Homes(k)' \subseteq {instance[s]} /\ Homes(s)' = {}
    BY <2>1, ClonedHomes
  <2>3. /\ \A t \in Slots : t # s => Homes(t)' = Homes(t)
        /\ \A j \in Keys : j # k => Homes(j)' = Homes(j)
    BY <2>1, OtherHomes, ScopeStoreConstants DEF Stores
  <2>4. UNCHANGED <<instance, is_inst, status, careful>>
    BY <1>8 DEF Release
  <2>5. instance[s] \in Range(instance)
    BY <1>1 DEF Range
  <2> QED
    BY <2>2, <2>3, <2>4, <2>5 DEF Defined
<1>9. ASSUME NEW k \in Keys, Translate(k) PROVE CInv'
  <2>1. \A j \in Stores : Homes(j)' = Homes(j)
    BY <1>9 DEF Translate, Homes
  <2>2. \A a \in stores[k].owned : \A p \in heap[a].types : heap[p].kind = "type"
    BY StoreFacts DEF Inside, IsTypeOf, Stores
  <2>3. UNCHANGED <<instance, is_inst, careful>>
    BY <1>9 DEF Translate
  <2>4. careful => status' = "defined"
    BY <1>9, <2>2 DEF Translate
  <2> QED
    BY <2>1, <2>3, <2>4 DEF Defined, Stores
<1>10. ASSUME NEW k \in Keys, Drop(k) PROVE CInv'
  <2>1. Homes(k)' = {}
    BY <1>10, Parts DEF Drop, Homes, NoStore
  <2>2. \A j \in Stores : j # k => Homes(j)' = Homes(j)
    <3>1. TouchesOnly({k})
      BY <1>10, DropStep
    <3> QED
      BY <3>1, OtherHomes
  <2>3. UNCHANGED <<instance, is_inst, status, careful>>
    BY <1>10 DEF Drop
  <2> QED
    BY <2>1, <2>2, <2>3, ScopeStoreConstants DEF Defined, Stores
<1>11. CASE UNCHANGED vars
  BY <1>11 DEF vars, Homes, Defined
<1> QED
  BY <1>2, <1>3, <1>4, <1>5, <1>6, <1>7, <1>8, <1>9, <1>10, <1>11 DEF Next

\* Nothing that is gone is followed, as long as the context of the lambda of
\* parse never ends and contexts end after the containers released from them.
THEOREM CarefulIsDefined == Spec => []OnlyStaleContexts
<1>1. CInv => OnlyStaleContexts
  BY DEF CInv, HomesLive, OnlyStaleContexts
<1> QED
  BY <1>1, InitCareful, NextCareful, AlwaysIInv, PTL DEF Spec

-----------------------------------------------------------------------------
(* What containers mean. *)

LEMMA ElementsKept ==
    ASSUME NEW h, NEW g, NEW store, Inside(h, store),
           \A a \in store.owned : g[a] = h[a]
    PROVE  \A a \in store.owned : ElementView(g, a) = ElementView(h, a)
<1> SUFFICES ASSUME NEW a \in store.owned
             PROVE  ElementView(g, a) = ElementView(h, a)
  OBVIOUS
<1>1. g[a] = h[a]
  OBVIOUS
<1>2. \A p \in h[a].types : p \in store.owned
  BY DEF Inside, IsTypeOf
<1>3. \A p \in h[a].types : g[p] = h[p]
  BY <1>2
<1>4. { <<g[p].id, g[p].kind, g[p].name>> : p \in g[a].types }
      = { <<h[p].id, h[p].kind, h[p].name>> : p \in h[a].types }
  BY <1>1, <1>3
<1> QED
  BY <1>1, <1>4 DEF ElementView

LEMMA ViewFrame ==
    ASSUME NEW h, NEW g, NEW store, Inside(h, store),
           \A a \in store.owned : g[a] = h[a]
    PROVE  View(g, store) = View(h, store)
<1>1. \A a \in store.owned : ElementView(g, a) = ElementView(h, a)
  BY ElementsKept
<1>2. View(g, store).elements = View(h, store).elements
  BY <1>1 DEF View
<1>3. [l \in DOMAIN store.layers |->
         [n \in DOMAIN store.layers[l] |-> g[store.layers[l][n]].id]]
      = [l \in DOMAIN store.layers |->
           [n \in DOMAIN store.layers[l] |-> h[store.layers[l][n]].id]]
  <2> SUFFICES ASSUME NEW l \in DOMAIN store.layers
               PROVE  [n \in DOMAIN store.layers[l] |-> g[store.layers[l][n]].id]
                      = [n \in DOMAIN store.layers[l] |-> h[store.layers[l][n]].id]
    BY Zenon
  <2> QED
    BY DEF Inside
<1> QED
  BY <1>2, <1>3 DEF View

LEMMA ViewAbsent ==
    ASSUME NEW h, NEW store
    PROVE  /\ store = NoStore => View(h, store) = AbsentView
           /\ 1 \in DOMAIN store.layers => View(h, store) # AbsentView
<1>1. ASSUME 1 \in DOMAIN store.layers
      PROVE  View(h, store) # AbsentView
  <2>1. 1 \in DOMAIN View(h, store).layers
    BY <1>1 DEF View
  <2>2. 1 \notin DOMAIN AbsentView.layers
    BY DEF AbsentView
  <2> QED
    BY <2>1, <2>2
<1>2. View(h, NoStore) = AbsentView
  <2>1. NoStore.owned = {} /\ DOMAIN NoStore.layers = {}
    BY DEF NoStore
  <2>2. [l \in DOMAIN NoStore.layers |->
           [n \in DOMAIN NoStore.layers[l] |-> h[NoStore.layers[l][n]].id]]
        = [l \in {} |-> l]
    BY <2>1
  <2>3. { ElementView(h, a) : a \in NoStore.owned } = {}
    BY <2>1
  <2> QED
    BY <2>2, <2>3 DEF View, AbsentView
<1> QED
  BY <1>1, <1>2

LEMMA ViewFresh ==
    ASSUME NEW h, NEW a, h[a] = BuiltinElement
    PROVE  View(h, Fresh(a)) = BlankView
<1> DEFINE store == Fresh(a)
<1>1. /\ store.owned = {a} /\ DOMAIN store.layers = {1}
      /\ store.layers[1] = [n \in {BuiltinType} |-> a]
  BY DEF Fresh
<1> HIDE DEF store
<1>2. ElementView(h, a)
      = [id |-> 1, kind |-> "type", name |-> BuiltinType, info |-> 0, types |-> {}]
  BY DEF ElementView, BuiltinElement, Element
<1>3. { ElementView(h, b) : b \in store.owned } = BlankView.elements
  BY <1>1, <1>2 DEF BlankView
<1>4. [n \in DOMAIN store.layers[1] |-> h[store.layers[1][n]].id] = [n \in {BuiltinType} |-> 1]
  BY <1>1 DEF BuiltinElement, Element
<1>5. [l \in DOMAIN store.layers |->
         [n \in DOMAIN store.layers[l] |-> h[store.layers[l][n]].id]]
      = [l \in {1} |-> [n \in {BuiltinType} |-> 1]]
  <2> DEFINE meant(l) == [n \in DOMAIN store.layers[l] |-> h[store.layers[l][n]].id]
  <2>1. meant(1) = [n \in {BuiltinType} |-> 1]
    BY <1>4
  <2> HIDE DEF meant
  <2>2. [l \in DOMAIN store.layers |-> meant(l)] = [l \in {1} |-> [n \in {BuiltinType} |-> 1]]
    BY <2>1, <1>1
  <2> QED
    BY <2>2 DEF meant
<1>6. View(h, store) = BlankView
  BY <1>3, <1>5 DEF View, BlankView
<1> QED
  BY <1>6 DEF store

\* An element that is added takes nothing from the others.
LEMMA ViewAdd ==
    ASSUME NEW h, NEW g, NEW store \in StoreType, Inside(h, store),
           NEW l \in DOMAIN store.layers, NEW a \in Addresses, NEW name \in AllNames,
           \A b \in store.owned : g[b] = h[b]
    PROVE  Programs!Extends(View(g, Add(store, l, name, a)), View(h, store))
<1> DEFINE new == Add(store, l, name, a)
<1>1. store.layers[l] \in LayerType
  BY DEF StoreType
<1>2. /\ new.owned = store.owned \cup {a}
      /\ DOMAIN new.layers = DOMAIN store.layers
      /\ \A m \in DOMAIN store.layers : \A n \in DOMAIN store.layers[m] :
            n \in DOMAIN new.layers[m] /\ new.layers[m][n] = store.layers[m][n]
  <2>1. /\ DOMAIN Emplace(store.layers[l], name, a) = DOMAIN store.layers[l] \cup {name}
        /\ \A n \in DOMAIN store.layers[l] :
              Emplace(store.layers[l], name, a)[n] = store.layers[l][n]
    BY <1>1, EmplaceKeeps
  <2>2. /\ new.owned = store.owned \cup {a}
        /\ new.layers = [store.layers EXCEPT ![l] = Emplace(store.layers[l], name, a)]
    BY DEF Add
  <2>3. /\ DOMAIN new.layers = DOMAIN store.layers
        /\ new.layers[l] = Emplace(store.layers[l], name, a)
        /\ \A m \in DOMAIN store.layers : m # l => new.layers[m] = store.layers[m]
    BY <2>2 DEF StoreType
  <2> HIDE DEF new
  <2> QED
    BY <2>1, <2>2, <2>3
<1> HIDE DEF new
<1>3. \A b \in store.owned : ElementView(g, b) = ElementView(h, b)
  BY ElementsKept
<1>4. View(h, store).elements \subseteq View(g, new).elements
  BY <1>2, <1>3 DEF View
<1>5. DOMAIN View(h, store).layers \subseteq DOMAIN View(g, new).layers
  BY <1>2 DEF View
<1>6. ASSUME NEW m \in DOMAIN store.layers, NEW n \in DOMAIN store.layers[m]
      PROVE  /\ n \in DOMAIN View(g, new).layers[m]
             /\ View(g, new).layers[m][n] = View(h, store).layers[m][n]
  <2>1. store.layers[m][n] \in store.owned
    BY DEF Inside
  <2>2. /\ View(g, new).layers[m] = [k \in DOMAIN new.layers[m] |-> g[new.layers[m][k]].id]
        /\ View(h, store).layers[m] = [k \in DOMAIN store.layers[m] |-> h[store.layers[m][k]].id]
    BY <1>2 DEF View
  <2> QED
    BY <2>1, <2>2, <1>2
<1>7. \A m \in DOMAIN View(h, store).layers : \A n \in DOMAIN View(h, store).layers[m] :
         m \in DOMAIN store.layers /\ n \in DOMAIN store.layers[m]
  BY DEF View
<1>8. Programs!Extends(View(g, new), View(h, store))
  BY <1>4, <1>5, <1>6, <1>7 DEF Programs!Extends
<1> QED
  BY <1>8 DEF new

\* A clone means what it was cloned from.
LEMMA ViewClone ==
    ASSUME NEW h \in [Addresses -> ElementType], NEW g, NEW store \in StoreType,
           Inside(h, store), 1 \in DOMAIN store.layers, NEW move \in Moves,
           \A a \in store.owned : g[move[a]] = CloneOf(h, store, move, a)
    PROVE  View(g, [owned  |-> Moved(store, move), layers |-> CloneLayers(store, move)])
           = View(h, store)
<1> DEFINE clone == [owned |-> Moved(store, move), layers |-> CloneLayers(store, move)]
<1>1. ASSUME NEW a \in store.owned
      PROVE  /\ g[move[a]].id = h[a].id /\ g[move[a]].kind = h[a].kind
             /\ g[move[a]].name = h[a].name /\ g[move[a]].info = h[a].info
             /\ g[move[a]].types = { move[p] : p \in h[a].types }
  <2>1. h[a] \in ElementType
    BY DEF StoreType
  <2>2. \A p \in h[a].types : CloneLayers(store, move)[1][h[p].name] = move[p]
    BY DEF Inside, IsTypeOf, CloneLayers
  <2>3. { CloneLayers(store, move)[1][h[p].name] : p \in h[a].types }
        = { move[p] : p \in h[a].types }
    BY <2>2
  <2>4. CloneOf(h, store, move, a) = [h[a] EXCEPT !.types = { move[p] : p \in h[a].types }]
    BY <2>3 DEF CloneOf
  <2> QED
    BY <2>1, <2>4 DEF ElementType
<1>2. ASSUME NEW a \in store.owned
      PROVE  ElementView(g, move[a]) = ElementView(h, a)
  <2>1. \A p \in h[a].types : p \in store.owned
    BY DEF Inside, IsTypeOf
  <2>2. { <<g[q].id, g[q].kind, g[q].name>> : q \in g[move[a]].types }
        = { <<h[p].id, h[p].kind, h[p].name>> : p \in h[a].types }
    <3> DEFINE there(q) == <<g[q].id, g[q].kind, g[q].name>>
               here(p) == <<h[p].id, h[p].kind, h[p].name>>
    <3>1. \A p \in h[a].types : there(move[p]) = here(p)
      BY <1>1, <2>1
    <3>2. g[move[a]].types = { move[p] : p \in h[a].types }
      BY <1>1
    <3> HIDE DEF there, here
    <3>3. { there(q) : q \in g[move[a]].types } = { here(p) : p \in h[a].types }
      BY <3>1, <3>2
    <3> QED
      BY <3>3 DEF there, here
  <2> QED
    BY <1>1, <2>2 DEF ElementView
<1>3. clone.owned = { move[a] : a \in store.owned }
  BY DEF Moved
<1>4. /\ DOMAIN clone.layers = DOMAIN store.layers
      /\ \A l \in DOMAIN store.layers :
            /\ DOMAIN clone.layers[l] = DOMAIN store.layers[l]
            /\ \A n \in DOMAIN store.layers[l] : clone.layers[l][n] = move[store.layers[l][n]]
  BY DEF CloneLayers
<1> HIDE DEF clone
<1>5. { ElementView(g, b) : b \in clone.owned } = { ElementView(h, a) : a \in store.owned }
  BY <1>2, <1>3
<1>6. ASSUME NEW l \in DOMAIN store.layers
      PROVE  [n \in DOMAIN clone.layers[l] |-> g[clone.layers[l][n]].id]
             = [n \in DOMAIN store.layers[l] |-> h[store.layers[l][n]].id]
  BY <1>1, <1>4 DEF Inside
<1>7. [l \in DOMAIN clone.layers |->
         [n \in DOMAIN clone.layers[l] |-> g[clone.layers[l][n]].id]]
      = [l \in DOMAIN store.layers |->
           [n \in DOMAIN store.layers[l] |-> h[store.layers[l][n]].id]]
  BY <1>4, <1>6, Zenon
<1>8. View(g, clone) = View(h, store)
  BY <1>5, <1>7 DEF View
<1> QED
  BY <1>8 DEF clone

-----------------------------------------------------------------------------
(* Containers are programs that keep what they mean. *)

Current == [s \in Slots |-> View(heap, stores[s])]
Taken == [k \in Keys |-> View(heap, stores[k])]

LEMMA OtherViews ==
    ASSUME IInv, NEW touched, TouchesOnly(touched)
    PROVE  \A k \in Stores \ touched : View(heap', stores'[k]) = View(heap, stores[k])
<1> SUFFICES ASSUME NEW k \in Stores \ touched
             PROVE  View(heap', stores'[k]) = View(heap, stores[k])
  OBVIOUS
<1>1. stores'[k] = stores[k] /\ \A a \in stores[k].owned : heap'[a] = heap[a]
  BY DEF TouchesOnly
<1>2. Inside(heap, stores[k])
  BY StoreFacts
<1> QED
  BY <1>1, <1>2, ViewFrame

\* Which programs are there.
LEMMA Presence ==
    ASSUME IInv
    PROVE  /\ \A s \in Slots : instance[s] = 0 => Current[s] = AbsentView
           /\ \A s \in Slots : instance[s] # 0 => Current[s] # AbsentView
           /\ \A k \in Keys : Exists(k) => Taken[k] # AbsentView
           /\ \A k \in Keys : ~Exists(k) => Taken[k] = AbsentView
  BY ViewAbsent, Parts DEF Rooted, Exists, Current, Taken

LEMMA InitSnapshots == Init => Programs!Init
<1> SUFFICES ASSUME Init PROVE Programs!Init
  OBVIOUS
<1>1. \A k \in Stores : View(heap, stores[k]) = AbsentView
  BY ViewAbsent DEF Init, Stores
<1> QED
  BY <1>1 DEF Programs!Init, Stores

\* A step of one slot that is none of the keys'.
LEMMA SlotStep ==
    ASSUME IInv, NEW s \in Slots, TouchesOnly({s})
    PROVE  /\ Taken' = Taken
           /\ \A t \in Slots \ {s} : Current'[t] = Current[t]
           /\ Current' = [Current EXCEPT ![s] = View(heap', stores'[s])]
<1>1. \A k \in Stores \ {s} : View(heap', stores'[k]) = View(heap, stores[k])
  BY OtherViews
<1>2. Taken' = Taken
  BY <1>1, ScopeStoreConstants DEF Taken, Stores
<1>3. \A t \in Slots \ {s} : Current'[t] = Current[t]
  BY <1>1 DEF Current, Stores
<1>4. Current' = [Current EXCEPT ![s] = View(heap', stores'[s])]
  BY <1>3 DEF Current
<1> QED
  BY <1>2, <1>3, <1>4

LEMMA GrowStep ==
    ASSUME IInv, IInv', NEW s \in Slots, TouchesOnly({s}), instance' = instance, instance[s] # 0,
           Programs!Extends(View(heap', stores'[s]), View(heap, stores[s]))
    PROVE  Programs!Grow(s)
<1>1. Taken' = Taken /\ \A t \in Slots \ {s} : Current'[t] = Current[t]
  BY SlotStep
<1>2. Current[s] # AbsentView
  BY Presence
<1>3. Current'[s] # AbsentView
  <2>1. 1 \in DOMAIN stores'[s].layers
    BY DEF IInv, Rooted
  <2> QED
    BY <2>1, ViewAbsent DEF Current
<1>4. Programs!Extends(Current'[s], Current[s])
  BY DEF Current
<1> QED
  BY <1>1, <1>2, <1>3, <1>4 DEF Programs!Grow, Current, Taken

LEMMA AddsGrows ==
    ASSUME IInv, IInv', NEW s \in Slots, TouchesOnly({s}), Adds(s),
           instance' = instance, instance[s] # 0
    PROVE  Programs!Grow(s)
<1>1. PICK l \in DOMAIN stores[s].layers, a \in Addresses, name \in AllNames :
        /\ stores'[s] = Add(stores[s], l, name, a)
        /\ \A b \in stores[s].owned : heap'[b] = heap[b]
  BY DEF Adds
<1>2. stores[s] \in StoreType /\ Inside(heap, stores[s])
  BY StoreFacts DEF Stores
<1>3. Programs!Extends(View(heap', Add(stores[s], l, name, a)), View(heap, stores[s]))
  BY <1>1, <1>2, ViewAdd
<1> QED
  BY <1>1, <1>3, GrowStep

LEMMA OpenGrows ==
    ASSUME IInv, IInv', NEW s \in Slots, OpenFunction(s), instance[s] # 0
    PROVE  Programs!Grow(s)
<1>1. TouchesOnly({s})
  BY OpenFunctionStep
<1>2. stores[s] \in StoreType /\ stores \in [Slots \cup Keys -> StoreType]
  BY Parts
<1>3. /\ heap' = heap /\ instance' = instance
      /\ stores'[s] = [stores[s] EXCEPT !.layers = Append(@, NoNames)]
  BY <1>2 DEF OpenFunction
<1> DEFINE new == stores'[s]
<1>4. new.owned = stores[s].owned /\ new.layers = Append(stores[s].layers, NoNames)
  BY <1>2, <1>3 DEF StoreType
<1>5. /\ DOMAIN stores[s].layers \subseteq DOMAIN new.layers
      /\ \A l \in DOMAIN stores[s].layers : new.layers[l] = stores[s].layers[l]
  <2>1. stores[s].layers \in Seq(LayerType)
    BY <1>2 DEF StoreType
  <2> HIDE DEF new
  <2> QED
    BY <2>1, <1>4
<1> HIDE DEF new
<1>6. View(heap, new).elements = View(heap, stores[s]).elements
  BY <1>4 DEF View
<1>7. /\ DOMAIN View(heap, stores[s]).layers \subseteq DOMAIN View(heap, new).layers
      /\ \A l \in DOMAIN View(heap, stores[s]).layers :
            View(heap, new).layers[l] = View(heap, stores[s]).layers[l]
  BY <1>5 DEF View
<1>8. Programs!Extends(View(heap, new), View(heap, stores[s]))
  BY <1>6, <1>7 DEF Programs!Extends
<1> QED
  BY <1>1, <1>3, <1>8, GrowStep DEF new

LEMMA ReleaseTakes ==
    ASSUME IInv, NEW s \in Slots, Release(s), instance[s] # 0
    PROVE  \E k \in Keys : Programs!Release(s, k)
<1>1. PICK k \in Keys : ~Exists(k) /\ TouchesOnly({s, k}) /\ Clones(s, k)
  BY ReleaseStep
<1>2. /\ stores[s] \in StoreType /\ Inside(heap, stores[s])
      /\ 1 \in DOMAIN stores[s].layers /\ heap \in [Addresses -> ElementType]
  BY Parts, StoreFacts DEF Rooted, Stores
<1>3. View(heap', stores'[k]) = View(heap, stores[s])
  BY <1>1, <1>2, ViewClone DEF Clones
<1>4. View(heap', stores'[s]) = BlankView
  BY <1>1, ViewFresh DEF Clones
<1>5. \A j \in Stores \ {s, k} : View(heap', stores'[j]) = View(heap, stores[j])
  BY <1>1, OtherViews
<1>6. /\ Taken' = [Taken EXCEPT ![k] = Current[s]]
      /\ Current' = [Current EXCEPT ![s] = BlankView]
  <2>1. \A j \in Keys : j # k => View(heap', stores'[j]) = View(heap, stores[j])
    BY <1>5, ScopeStoreConstants DEF Stores
  <2>2. \A t \in Slots : t # s => View(heap', stores'[t]) = View(heap, stores[t])
    BY <1>5, ScopeStoreConstants DEF Stores
  <2>3. Taken' = [Taken EXCEPT ![k] = Current[s]]
    BY <2>1, <1>3 DEF Taken, Current
  <2>4. Current' = [Current EXCEPT ![s] = BlankView]
    BY <2>2, <1>4 DEF Current
  <2> QED
    BY <2>3, <2>4
<1>7. Current[s] # AbsentView /\ Taken[k] = AbsentView
  BY <1>1, Presence
<1> QED
  BY <1>6, <1>7 DEF Programs!Release, Current, Taken

LEMMA StepsAreSnapshots ==
    IInv /\ IInv' /\ [Next]_vars => [Programs!Next]_<<Current, Taken>>
<1> SUFFICES ASSUME IInv, IInv', [Next]_vars
             PROVE  Programs!Next \/ UNCHANGED <<Current, Taken>>
  OBVIOUS
<1>1. ASSUME NEW s \in Slots, Create(s) PROVE Programs!Next
  <2>1. PICK a \in Addresses : stores'[s] = Fresh(a) /\ heap'[a] = BuiltinElement
    BY <1>1, CreateStep
  <2>2. View(heap', stores'[s]) = BlankView
    BY <2>1, ViewFresh
  <2>3. TouchesOnly({s})
    BY <1>1, CreateStep
  <2>4. Taken' = Taken /\ Current' = [Current EXCEPT ![s] = BlankView]
    BY <2>2, <2>3, SlotStep
  <2>5. Current[s] = AbsentView
    BY <1>1, Presence DEF Create
  <2>6. Programs!Create(s)
    BY <2>4, <2>5 DEF Programs!Create, Current, Taken
  <2> QED
    BY <2>6 DEF Programs!Next
<1>2. ASSUME NEW s \in Slots, End(s) PROVE Programs!Next
  <2>1. stores'[s] = NoStore
    BY <1>2, Parts DEF End
  <2>2. View(heap', stores'[s]) = AbsentView
    BY <2>1, ViewAbsent
  <2>3. TouchesOnly({s})
    BY <1>2, EndStep
  <2>4. Taken' = Taken /\ Current' = [Current EXCEPT ![s] = AbsentView]
    BY <2>2, <2>3, SlotStep
  <2>5. Current[s] # AbsentView
    BY <1>2, Presence DEF End
  <2>6. Programs!End(s)
    BY <2>4, <2>5 DEF Programs!End, Current, Taken
  <2> QED
    BY <2>6 DEF Programs!Next
<1>3. ASSUME NEW s \in Slots, AddType(s) \/ AddVariable(s) \/ CloseFunction(s)
      PROVE  Programs!Next
  <2>1. TouchesOnly({s}) /\ Adds(s)
    BY <1>3, AddTypeStep, AddVariableStep, CloseFunctionStep
  <2>2. instance' = instance /\ parsing = s
    BY <1>3 DEF AddType, AddVariable, CloseFunction
  <2>3. instance[s] # 0
    BY <2>2, Parts DEF Rooted
  <2>4. Programs!Grow(s)
    BY <2>1, <2>2, <2>3, AddsGrows
  <2> QED
    BY <2>4 DEF Programs!Next
<1>4. ASSUME NEW s \in Slots, OpenFunction(s) PROVE Programs!Next
  <2>1. instance[s] # 0
    BY <1>4, Parts DEF Rooted, OpenFunction
  <2>2. Programs!Grow(s)
    BY <1>4, <2>1, OpenGrows
  <2> QED
    BY <2>2 DEF Programs!Next
<1>5. ASSUME NEW s \in Slots, Release(s) PROVE Programs!Next
  <2>1. instance[s] # 0
    BY <1>5, Parts DEF Rooted, Release
  <2>2. PICK k \in Keys : Programs!Release(s, k)
    BY <1>5, <2>1, ReleaseTakes
  <2> QED
    BY <2>2 DEF Programs!Next
<1>6. ASSUME NEW k \in Keys, Drop(k) PROVE Programs!Next
  <2>1. stores'[k] = NoStore
    BY <1>6, Parts DEF Drop
  <2>2. View(heap', stores'[k]) = AbsentView
    BY <2>1, ViewAbsent
  <2>3. TouchesOnly({k})
    BY <1>6, DropStep
  <2>4. \A j \in Stores \ {k} : View(heap', stores'[j]) = View(heap, stores[j])
    BY <2>3, OtherViews
  <2>5. Current' = Current /\ Taken' = [Taken EXCEPT ![k] = AbsentView]
    <3>1. \A j \in Keys : j # k => View(heap', stores'[j]) = View(heap, stores[j])
      BY <2>4 DEF Stores
    <3>2. \A t \in Slots : View(heap', stores'[t]) = View(heap, stores[t])
      BY <2>4, ScopeStoreConstants DEF Stores
    <3>3. Current' = Current
      BY <3>2 DEF Current
    <3>4. Taken' = [Taken EXCEPT ![k] = AbsentView]
      BY <3>1, <2>2 DEF Taken
    <3> QED
      BY <3>3, <3>4
  <2>6. Taken[k] # AbsentView
    BY <1>6, Presence DEF Drop
  <2>7. Programs!Drop(k)
    BY <2>5, <2>6 DEF Programs!Drop, Current, Taken
  <2> QED
    BY <2>7 DEF Programs!Next
<1>7. ASSUME heap' = heap, stores' = stores PROVE UNCHANGED <<Current, Taken>>
  BY <1>7 DEF Current, Taken
<1>8. ASSUME NEW s \in Slots, Begin(s) \/ Throw(s) PROVE UNCHANGED <<Current, Taken>>
  BY <1>7, <1>8 DEF Begin, Throw
<1>9. ASSUME NEW k \in Keys, Translate(k) PROVE UNCHANGED <<Current, Taken>>
  BY <1>7, <1>9 DEF Translate
<1>10. CASE UNCHANGED vars
  BY <1>7, <1>10 DEF vars
<1> QED
  BY <1>1, <1>2, <1>3, <1>4, <1>5, <1>6, <1>8, <1>9, <1>10 DEF Next

\* Contexts and released containers are programs: what is released means what
\* was parsed, and goes on meaning that until it is given up, whatever is done
\* with the context, or with others, afterwards.
THEOREM ReleasedProgramsKeep == Spec => KeepsSnapshots
<1>1. IInv /\ IInv' /\ [Next]_vars => [Programs!Next]_<<Current, Taken>>
  BY StepsAreSnapshots
<1>2. Init => Programs!Init
  BY InitSnapshots
<1> QED
  BY <1>1, <1>2, AlwaysIInv, PTL DEF Spec, KeepsSnapshots, Programs!Spec, Current, Taken
=============================================================================
