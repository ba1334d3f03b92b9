----------------------------- MODULE ScopeStore -----------------------------
(***************************************************************************)
(* Who owns the elements of a program, and who points to them.             *)
(*                                                                         *)
(* A container owns its elements, on the heap.  Its layers map names to    *)
(* elements, and elements point to the datatypes of their poles, arguments,*)
(* results or values, all by plain pointers.  A context owns the container *)
(* the parser fills, and the table of instructions the lines of functions  *)
(* point into.  release_container hands out a clone of the container and   *)
(* destroys what it was cloned from; memory that was freed is used again.  *)
(*                                                                         *)
(* Contexts lie in slots, places on the stack of whoever makes them.  One  *)
(* builtin type stands for all of them.                                    *)
(***************************************************************************)
EXTENDS Integers, Sequences, FiniteSets, Functions

CONSTANTS Addresses,    \* of elements
          Moves,        \* permutations of them: where a clone puts its elements
          Slots,        \* of contexts
          Keys,         \* of released containers
          Names,        \* that a program may give its elements
          BuiltinType,  \* the name of the builtin type
          NoSlot,       \* no context was parsed with yet
          MaxElements,  \* bounds: elements of each slot's container
          MaxLayers,    \* bounds: its layers
          MaxContexts,  \* bound: contexts that are ever made
          Allocate(_)   \* of the free addresses, those the allocator may return

ASSUME ScopeStoreConstants ==
    /\ IsFiniteSet(Addresses)
    /\ Moves \subseteq [Addresses -> Addresses]
    /\ \A m \in Moves : IsInjective(m)
    /\ NoSlot \notin Slots /\ Slots \cap Keys = {}
    /\ MaxContexts \in Nat
    /\ \A free \in SUBSET Addresses : Allocate(free) \subseteq free

VARIABLES
    heap,      \* the element at each address
    stores,    \* the container of each slot and key
    instance,  \* the context in each slot: 0 if there is none
    contexts,  \* contexts made so far
    parsing,   \* the slot whose context is parsed with, if any
    inside,    \* the lines of a function are parsed
    head,      \* the types in the head of that function
    is_inst,   \* the slot the static lambda of parse refers to
    status,    \* defined, or undefined: nothing is followed after that
    careful    \* history: every context outlived what refers to it

vars == <<heap, stores, instance, contexts, parsing, inside, head, is_inst, status, careful>>

-----------------------------------------------------------------------------
(* Elements and containers. *)

Element(kind, name, id, types, info) ==
    [kind |-> kind, name |-> name, id |-> id, types |-> types, info |-> info]

Free == Element("free", BuiltinType, 0, {}, 0)
FreeIn(h) == { a \in Addresses : h[a] = Free }

NoStore == [owned |-> {}, layers |-> <<>>]
Exists(k) == stores[k] # NoStore

NoNames == [n \in {} |-> n]

BuiltinElement == Element("type", BuiltinType, 1, {}, 0)
Fresh(a) == [owned |-> {a}, layers |-> << [n \in {BuiltinType} |-> a] >>]

\* Mutant of Emplace: the name goes over to the new element.
Overwrite(layer, name, a) == [n \in DOMAIN layer \cup {name} |-> IF n = name THEN a ELSE layer[n]]

\* emplace keeps the element a name already has.
Emplace(layer, name, a) ==
    [n \in DOMAIN layer \cup {name} |-> IF n \in DOMAIN layer THEN layer[n] ELSE a]

\* add_from_ptr: the container owns the element even if its name is taken.
Add(store, l, name, a) ==
    [owned  |-> store.owned \cup {a},
     layers |-> [store.layers EXCEPT ![l] = Emplace(@, name, a)]]

\* The types a program may name: those found in the global layer.
TypesOf(s) ==
    { a \in Range(stores[s].layers[1]) : heap[a].kind = "type" }

-----------------------------------------------------------------------------
(* Contexts. *)

Defined == status = "defined"

\* parse runs to its end, or to an exception, before anything else is done.
Idle == Defined /\ parsing = NoSlot

Init ==
    /\ heap = [a \in Addresses |-> Free]
    /\ stores = [k \in Slots \cup Keys |-> NoStore]
    /\ instance = [s \in Slots |-> 0]
    /\ contexts = 0
    /\ parsing = NoSlot
    /\ inside = FALSE
    /\ head = {}
    /\ is_inst = NoSlot
    /\ status = "defined"
    /\ careful = TRUE

Create(s) ==
    /\ Idle /\ instance[s] = 0 /\ contexts < MaxContexts
    /\ contexts' = contexts + 1
    /\ instance' = [instance EXCEPT ![s] = contexts + 1]
    /\ \E a \in Allocate(FreeIn(heap)) :
          /\ heap' = [heap EXCEPT ![a] = BuiltinElement]
          /\ stores' = [stores EXCEPT ![s] = Fresh(a)]
    /\ UNCHANGED <<parsing, inside, head, is_inst, status, careful>>

Freed(h, addresses) == [a \in Addresses |-> IF a \in addresses THEN Free ELSE h[a]]

\* The context that lines of a container's functions point into.
Homes(k) == { heap[a].info : a \in stores[k].owned } \ {0}

\* A context ends, with its container.
End(s) ==
    /\ Idle /\ instance[s] # 0
    /\ instance' = [instance EXCEPT ![s] = 0]
    /\ heap' = Freed(heap, stores[s].owned)
    /\ stores' = [stores EXCEPT ![s] = NoStore]
    /\ careful' = (careful /\ is_inst # s /\ \A k \in Keys : instance[s] \notin Homes(k))
    /\ UNCHANGED <<contexts, parsing, inside, head, is_inst, status>>

-----------------------------------------------------------------------------
(* Parsing. *)

\* parse first looks for names of instructions, with the lambda.
Begin(s) ==
    /\ Idle /\ instance[s] # 0
    /\ is_inst' = IF is_inst = NoSlot THEN s ELSE is_inst
    /\ IF instance[is_inst'] = 0
       THEN status' = "undefined" /\ UNCHANGED parsing
       ELSE parsing' = s /\ UNCHANGED status
    /\ UNCHANGED <<heap, stores, instance, contexts, inside, head, careful>>

Room(s) == Cardinality(stores[s].owned) < MaxElements[s]

\* An element that is added at address a to layer l.
Put(s, l, a, kind, name, types, info) ==
    /\ heap' = [heap EXCEPT ![a] =
                  Element(kind, name, Cardinality(stores[s].owned) + 1, types, info)]
    /\ stores' = [stores EXCEPT ![s] = Add(stores[s], l, name, a)]

AddType(s) ==
    /\ Defined /\ parsing = s /\ ~inside /\ Room(s)
    /\ \E a \in Allocate(FreeIn(heap)), n \in Names, types \in SUBSET TypesOf(s) :
          Put(s, 1, a, "type", n, types, 0)
    /\ UNCHANGED <<instance, contexts, parsing, inside, head, is_inst, status, careful>>

\* The head of a function makes its layer and looks up its types.
OpenFunction(s) ==
    /\ Defined /\ parsing = s /\ ~inside /\ Len(stores[s].layers) < MaxLayers[s]
    /\ stores' = [stores EXCEPT ![s].layers = Append(@, NoNames)]
    /\ inside' = TRUE
    /\ head' \in SUBSET TypesOf(s)
    /\ UNCHANGED <<heap, instance, contexts, parsing, is_inst, status, careful>>

AddVariable(s) ==
    /\ Defined /\ parsing = s /\ inside /\ Room(s)
    /\ \E a \in Allocate(FreeIn(heap)), n \in Names, p \in TypesOf(s) :
          Put(s, Len(stores[s].layers), a, "var", n, {p}, 0)
    /\ UNCHANGED <<instance, contexts, parsing, inside, head, is_inst, status, careful>>

\* Its lines point to instructions of the context.
CloseFunction(s) ==
    /\ Defined /\ parsing = s /\ inside /\ Room(s)
    /\ \E a \in Allocate(FreeIn(heap)), n \in Names :
          Put(s, 1, a, "func", n, head, instance[s])
    /\ inside' = FALSE
    /\ head' = {}
    /\ UNCHANGED <<instance, contexts, parsing, is_inst, status, careful>>

\* An exception: what was added stays, an open function is forgotten.
Throw(s) ==
    /\ Defined /\ parsing = s
    /\ parsing' = NoSlot
    /\ inside' = FALSE
    /\ head' = {}
    /\ UNCHANGED <<heap, stores, instance, contexts, is_inst, status, careful>>

-----------------------------------------------------------------------------
(* Release. *)

CloneLayers(store, move) ==
    [l \in DOMAIN store.layers |-> [n \in DOMAIN store.layers[l] |-> move[store.layers[l][n]]]]

\* Mutants of CloneOf: the element is cloned as its base class; the types of
\* functions still point into the original; so do all types.
Sliced(h, store, move, a) == [h[a] EXCEPT !.kind = "element"]
FunctionsForgotten(h, store, move, a) ==
    IF h[a].kind = "func" THEN h[a]
    ELSE [h[a] EXCEPT !.types = { CloneLayers(store, move)[1][h[p].name] : p \in @ }]
Copied(h, store, move, a) == h[a]

\* A copy of the element at a, its types looked up again by their names.
CloneOf(h, store, move, a) ==
    [h[a] EXCEPT !.types = { CloneLayers(store, move)[1][h[p].name] : p \in @ }]

Moved(store, move) == { move[a] : a \in store.owned }

WithClone(h, store, move) ==
    [b \in Addresses |->
        IF b \in Moved(store, move)
        THEN CloneOf(h, store, move, CHOOSE a \in store.owned : move[a] = b)
        ELSE h[b]]

\* release_container: the clone is made while the original lives; the reset
\* destroys that, and fills a new container.
Release(s) ==
    /\ Defined /\ parsing = s /\ ~inside
    /\ \E k \in Keys, move \in Moves :
          /\ ~Exists(k)
          /\ Moved(stores[s], move) \subseteq FreeIn(heap)
          /\ LET after == Freed(WithClone(heap, stores[s], move), stores[s].owned)
             IN \E a \in Allocate(FreeIn(after)) :
                  /\ heap' = [after EXCEPT ![a] = BuiltinElement]
                  /\ stores' = [stores EXCEPT
                                  ![k] = [owned  |-> Moved(stores[s], move),
                                          layers |-> CloneLayers(stores[s], move)],
                                  ![s] = Fresh(a)]
    /\ parsing' = NoSlot
    /\ UNCHANGED <<instance, contexts, inside, head, is_inst, status, careful>>

-----------------------------------------------------------------------------
(* What is done with a released container. *)

\* The translator reads the sizes of types, and the codes of instructions.
Translate(k) ==
    /\ Idle /\ Exists(k)
    /\ status' = IF /\ \A a \in stores[k].owned :
                          heap[a].kind = "func" =>
                             \A p \in heap[a].types : heap[p].kind = "type"
                    /\ Homes(k) \subseteq Range(instance)
                 THEN "defined" ELSE "undefined"
    /\ UNCHANGED <<heap, stores, instance, contexts, parsing, inside, head, is_inst, careful>>

Drop(k) ==
    /\ Idle /\ Exists(k)
    /\ heap' = Freed(heap, stores[k].owned)
    /\ stores' = [stores EXCEPT ![k] = NoStore]
    /\ UNCHANGED <<instance, contexts, parsing, inside, head, is_inst, status, careful>>

Next ==
    \/ \E s \in Slots :
          \/ Create(s) \/ End(s) \/ Begin(s)
          \/ AddType(s) \/ OpenFunction(s) \/ AddVariable(s) \/ CloseFunction(s)
          \/ Throw(s) \/ Release(s)
    \/ \E k \in Keys : Translate(k) \/ Drop(k)

Spec == Init /\ [][Next]_vars

-----------------------------------------------------------------------------
(* Properties. *)

AllNames == Names \cup {BuiltinType}
ElementType ==
    [kind : {"free", "type", "var", "func"}, name : AllNames, id : Nat,
     types : SUBSET Addresses, info : Nat]
LayerType == UNION { [ns -> Addresses] : ns \in SUBSET AllNames }

\* Type invariant: of the heap, the containers and the contexts.
TypeOK ==
    /\ heap \in [Addresses -> ElementType]
    /\ stores \in [Slots \cup Keys -> [owned : SUBSET Addresses, layers : Seq(LayerType)]]
    /\ instance \in [Slots -> Nat]
    /\ contexts \in Nat
    /\ parsing \in Slots \cup {NoSlot}
    /\ inside \in BOOLEAN
    /\ head \in SUBSET Addresses
    /\ is_inst \in Slots \cup {NoSlot}
    /\ status \in {"defined", "undefined"}
    /\ careful \in BOOLEAN

\* A type the elements of a container may point to: its own, under its name.
IsTypeOf(h, store, p) ==
    /\ p \in store.owned
    /\ h[p].kind = "type"
    /\ h[p].name \in DOMAIN store.layers[1]
    /\ store.layers[1][h[p].name] = p

\* The pointers of a container and its elements.
Inside(h, store) ==
    /\ \A a \in store.owned :
          /\ h[a].kind # "free"
          /\ \A p \in h[a].types : IsTypeOf(h, store, p)
    /\ \A l \in DOMAIN store.layers : \A n \in DOMAIN store.layers[l] :
          /\ store.layers[l][n] \in store.owned
          /\ h[store.layers[l][n]].name = n

AllInside == \A k \in Slots \cup Keys : Inside(heap, stores[k])
OwnersDiffer ==
    \A j, k \in Slots \cup Keys : j # k => stores[j].owned \cap stores[k].owned = {}
HeadInside ==
    parsing \in Slots => \A p \in head : IsTypeOf(heap, stores[parsing], p)

\* Every pointer a container, its elements or a parse in progress holds leads
\* to a living element of that container, and to the right one, whatever was
\* cloned, destroyed and allocated anew (clone and release_container).
NoDangling == AllInside /\ OwnersDiffer /\ HeadInside

\* If the first context that was parsed with never ends, and no context ends
\* before the containers released from it are gone, nothing that is gone is
\* followed: neither by the static lambda of parse, nor by the lines of
\* functions, nor by their types.
OnlyStaleContexts == careful => Defined

\* What a container means, its pointers followed.
ElementView(h, a) ==
    [id |-> h[a].id, kind |-> h[a].kind, name |-> h[a].name, info |-> h[a].info,
     types |-> { <<h[p].id, h[p].kind, h[p].name>> : p \in h[a].types }]
View(h, store) ==
    [elements |-> { ElementView(h, a) : a \in store.owned },
     layers   |-> [l \in DOMAIN store.layers |->
                     [n \in DOMAIN store.layers[l] |-> h[store.layers[l][n]].id]]]

\* The program of a new context, and that of none.
BlankView ==
    [elements |-> { [id |-> 1, kind |-> "type", name |-> BuiltinType, info |-> 0, types |-> {}] },
     layers   |-> [l \in {1} |-> [n \in {BuiltinType} |-> 1]]]
AbsentView == [elements |-> {}, layers |-> [l \in {} |-> l]]

Programs ==
    INSTANCE Snapshots WITH
        current <- [s \in Slots |-> View(heap, stores[s])],
        taken <- [k \in Keys |-> View(heap, stores[k])],
        Blank <- BlankView, Absent <- AbsentView

\* Contexts and released containers, pointers followed, are programs that are
\* copied as they are when they are released and never change after that.
KeepsSnapshots == Programs!Spec
=============================================================================
