------------------------------ MODULE JsonList ------------------------------
(***************************************************************************)
(* The trees of cJSON.c.  The children of an array or object are a list    *)
(* linked by next and prev; child points to the first one, whose prev      *)
(* points to the last one so that appending need not walk the list.        *)
(*                                                                         *)
(* heap[n] is the item at address n; an action is one call made by the     *)
(* program, which passes only items it holds (owned: not yet given to a    *)
(* container) and puts no item below itself.  Which free address malloc    *)
(* returns does not matter: a new item has the lowest, the copies of a     *)
(* tree have some.  With no free address malloc returns NULL and a call    *)
(* changes nothing.                                                        *)
(*                                                                         *)
(* Abstracted: values (an item of a type other than the two containers is  *)
(* its type), the spelling of names (Keys holds one per class of names     *)
(* that case_insensitive_strcmp takes as equal), references.               *)
(***************************************************************************)
EXTENDS Integers, FiniteSetsExt, SequencesExt

CONSTANTS Nodes, Keys, NoKey, Kinds, Containers

NULL == 0
FreeItem == [kind |-> "free", key |-> NoKey, next |-> NULL, prev |-> NULL, child |-> NULL]

ASSUME ListAssumption ==
    /\ IsFiniteSet(Nodes) /\ Nodes \subseteq Nat \ {NULL}
    /\ NoKey \notin Keys
    /\ Containers \subseteq Kinds /\ "free" \notin Kinds

VARIABLES heap,   \* heap[n]: the cJSON struct at address n
          owned   \* the items the program must still place or delete

listVars == <<heap, owned>>

ListInit == heap = [n \in Nodes |-> FreeItem] /\ owned = {}

-----------------------------------------------------------------------------
(* Reading                                                                 *)

Free(h) == {n \in Nodes : h[n].kind = "free"}

\* The children of n, by next; a list that never ended would show as one of
\* all addresses.
Children(h, n) ==
    LET size == Cardinality(Nodes)
        at[i \in 0 .. size] == IF i = 0 THEN h[n].child
                               ELSE IF at[i-1] = NULL THEN NULL
                               ELSE h[at[i-1]].next
        length == Min({i \in 0 .. size : at[i] = NULL} \cup {size})
    IN  [i \in 1 .. length |-> at[i-1]]

\* Every item that is c, after c in its list, or below one of those: the least
\* set with c and with what next and child of its items point to.
Reached(h, c) ==
    LET closed == {S \in SUBSET Nodes :
                      \A n \in S : {h[n].next, h[n].child} \subseteq S \cup {NULL}}
    IN  {n \in Nodes : \A S \in closed : c \in S \cup {NULL} => n \in S}

Subtree(h, n) == {n} \cup Reached(h, h[n].child)

\* Fault: the position is counted from 1.
get_array_item_from_1(h, array, index) ==
    IF index \in DOMAIN Children(h, array) THEN Children(h, array)[index] ELSE NULL

get_array_item(h, array, index) ==
    IF index < Len(Children(h, array)) THEN Children(h, array)[index + 1] ELSE NULL

get_object_item(h, object, name) ==
    LET members == Children(h, object)
        i == SelectInSeq(members, LAMBDA m : h[m].key = name)
    IN  IF i = 0 THEN NULL ELSE members[i]

-----------------------------------------------------------------------------
(* Changing: each operator returns the heap after the call.                *)

suffix_object(h, prev, item) == [h EXCEPT ![prev].next = item, ![item].prev = prev]

\* Fault: the first child's prev still points to the old last child.
add_item_to_array_stale(h, array, item) ==
    IF h[array].child = NULL
    THEN [h EXCEPT ![array].child = item, ![item].prev = item, ![item].next = NULL]
    ELSE suffix_object(h, h[h[array].child].prev, item)

add_item_to_array(h, array, item) ==
    LET first == h[array].child IN
    IF first = NULL
    THEN [h EXCEPT ![array].child = item, ![item].prev = item, ![item].next = NULL]
    ELSE [suffix_object(h, h[first].prev, item) EXCEPT ![first].prev = item]

add_item_to_object(h, object, name, item) ==
    add_item_to_array([h EXCEPT ![item].key = name], object, item)

cJSON_New_Item(h, kind) ==
    [h EXCEPT ![Min(Free(h))] = [FreeItem EXCEPT !.kind = kind]]

\* Fault: the children of a deleted item are not deleted.
cJSON_Delete_shallow(h, item) == [h EXCEPT ![item] = FreeItem]

cJSON_Delete(h, item) ==
    LET gone == Reached(h, item)
    IN  [n \in Nodes |-> IF n \in gone THEN FreeItem ELSE h[n]]

cJSON_DetachItemViaPointer(h, parent, item) ==
    LET first == h[parent].child
        next  == h[item].next
        prev  == h[item].prev
        h1 == IF item # first THEN [h EXCEPT ![prev].next = next] ELSE h
        h2 == IF next # NULL THEN [h1 EXCEPT ![next].prev = prev] ELSE h1
        h3 == IF item = first THEN [h2 EXCEPT ![parent].child = next]
              ELSE IF next = NULL THEN [h2 EXCEPT ![first].prev = prev]
              ELSE h2
    IN  [h3 EXCEPT ![item].prev = NULL, ![item].next = NULL]

cJSON_InsertItemInArray(h, array, which, newitem) ==
    LET after == get_array_item(h, array, which)
        h1 == [h EXCEPT ![newitem].next = after, ![newitem].prev = h[after].prev,
                        ![after].prev = newitem]
    IN  IF after = NULL THEN add_item_to_array(h, array, newitem)
        ELSE IF after = h[array].child THEN [h1 EXCEPT ![array].child = newitem]
        ELSE [h1 EXCEPT ![h[after].prev].next = newitem]

cJSON_ReplaceItemViaPointer(h, parent, item, replacement) ==
    LET first == h[parent].child
        next  == h[item].next
        prev  == IF item = first /\ h[item].prev = item THEN replacement ELSE h[item].prev
        h1 == [h EXCEPT ![replacement].next = next, ![replacement].prev = prev]
        h2 == IF next # NULL THEN [h1 EXCEPT ![next].prev = replacement] ELSE h1
        h3 == IF item = first THEN [h2 EXCEPT ![parent].child = replacement]
              ELSE LET h4 == [h2 EXCEPT ![prev].next = replacement] IN
                   IF next = NULL THEN [h4 EXCEPT ![first].prev = replacement] ELSE h4
    IN  cJSON_Delete([h3 EXCEPT ![item].next = NULL, ![item].prev = NULL], item)

\* The copy of n in the items new[m], one for each item m of n's subtree.
cJSON_Duplicate(h, n, new) ==
    LET Copied(m) == IF m = NULL THEN NULL ELSE new[m]
        Siblings(m) == Children(h, CHOOSE p \in DOMAIN new : Contains(Children(h, p), m))
        Before(m) == LET s == Siblings(m)
                         i == SelectInSeq(s, LAMBDA x : x = m)
                     IN  IF i = 1 THEN Last(s) ELSE s[i-1]
        Made(m) == [h[m] EXCEPT !.child = Copied(@),
                                !.next = IF m = n THEN NULL ELSE Copied(@),
                                !.prev = IF m = n THEN NULL ELSE new[Before(m)]]
        Source(o) == CHOOSE m \in DOMAIN new : new[m] = o
    IN  [o \in Nodes |-> IF \E m \in DOMAIN new : new[m] = o THEN Made(Source(o)) ELSE h[o]]

-----------------------------------------------------------------------------
(* The program's calls                                                     *)

Container(p) == heap[p].kind \in Containers

\* The program holds n and may put it into p.
MayPut(p, n) == n \in owned /\ Container(p) /\ p \notin Subtree(heap, n)

Create(k) ==
    /\ Free(heap) # {}
    /\ heap' = cJSON_New_Item(heap, k)
    /\ owned' = owned \cup {Min(Free(heap))}

AddItemToArray(p, n) ==
    /\ MayPut(p, n)
    /\ heap' = add_item_to_array(heap, p, n)
    /\ owned' = owned \ {n}

AddItemToObject(p, n, name) ==
    /\ MayPut(p, n)
    /\ heap' = add_item_to_object(heap, p, name, n)
    /\ owned' = owned \ {n}

\* cJSON_AddNumberToObject and its like; without memory for the name the new
\* item is deleted again and nothing has changed.
AddNewToObject(p, k, name) ==
    /\ Container(p)
    /\ Free(heap) # {}
    /\ heap' = add_item_to_object(cJSON_New_Item(heap, k), p, name, Min(Free(heap)))
    /\ UNCHANGED owned

InsertItemInArray(p, which, n) ==
    /\ MayPut(p, n)
    /\ heap' = cJSON_InsertItemInArray(heap, p, which, n)
    /\ owned' = owned \ {n}

Detach(p, item) ==
    /\ item # NULL
    /\ heap' = cJSON_DetachItemViaPointer(heap, p, item)
    /\ owned' = owned \cup {item}

DetachItemFromArray(p, which) ==
    Container(p) /\ Detach(p, get_array_item(heap, p, which))

DetachItemFromObject(p, name) ==
    Container(p) /\ Detach(p, get_object_item(heap, p, name))

ReplaceItemInArray(p, which, n) ==
    /\ MayPut(p, n)
    /\ get_array_item(heap, p, which) # NULL
    /\ heap' = cJSON_ReplaceItemViaPointer(heap, p, get_array_item(heap, p, which), n)
    /\ owned' = owned \ {n}

\* The replacement takes the name whether or not there is a member to replace.
ReplaceItemInObject(p, name, n) ==
    /\ MayPut(p, n)
    /\ LET item == get_object_item(heap, p, name)
           named == [heap EXCEPT ![n].key = name]
       IN  IF item = NULL THEN heap' = named /\ UNCHANGED owned
           ELSE /\ heap' = cJSON_ReplaceItemViaPointer(named, p, item, n)
                /\ owned' = owned \ {n}

\* The same without memory for the copy of the name, the old one being freed.
ReplaceLosesName(p, n) ==
    /\ MayPut(p, n)
    /\ heap' = [heap EXCEPT ![n].key = NoKey]
    /\ UNCHANGED owned

Delete(n) ==
    /\ n \in owned
    /\ heap' = cJSON_Delete(heap, n)
    /\ owned' = owned \ {n}

Duplicate(n) ==
    /\ n \notin Free(heap)
    /\ Cardinality(Subtree(heap, n)) <= Cardinality(Free(heap))
    /\ LET new == CHOOSE c \in Injection(Subtree(heap, n), Free(heap)) : TRUE
       IN  /\ heap' = cJSON_Duplicate(heap, n, new)
           /\ owned' = owned \cup {new[n]}

ListNext ==
    \/ \E k \in Kinds : Create(k)
    \/ \E n \in Nodes : Delete(n) \/ Duplicate(n)
    \/ \E p, n \in Nodes : AddItemToArray(p, n) \/ ReplaceLosesName(p, n)
    \/ \E p, n \in Nodes, name \in Keys :
          AddItemToObject(p, n, name) \/ ReplaceItemInObject(p, name, n)
    \/ \E p \in Nodes, k \in Kinds, name \in Keys : AddNewToObject(p, k, name)
    \/ \E p, n \in Nodes : \E which \in 0 .. Len(Children(heap, p)) :
          InsertItemInArray(p, which, n) \/ ReplaceItemInArray(p, which, n)
    \/ \E p \in Nodes : \E which \in 0 .. Len(Children(heap, p)) : DetachItemFromArray(p, which)
    \/ \E p \in Nodes, name \in Keys : DetachItemFromObject(p, name)

ListSpec == ListInit /\ [][ListNext]_listVars

-----------------------------------------------------------------------------
(* Properties                                                              *)

\* "To find the last item in array quickly, we use prev" (cJSON.c:1995): in
\* every list prev is the item before, the first one's the last, so that an
\* append or a detach after any sequence of calls works on the right items.
ListsAreLinked ==
    \A p \in Nodes :
        LET s == Children(heap, p) IN
        \A i \in DOMAIN s :
            /\ heap[s[i]].kind # "free"
            /\ heap[s[i]].prev = (IF i = 1 THEN Last(s) ELSE s[i-1])
            /\ i = Len(s) => heap[s[i]].next = NULL

\* cJSON_Delete of what the program holds frees every item once: nothing is
\* lost and nothing is in two places, whatever was detached and replaced.
DeleteFreesAll ==
    /\ \A n \in owned : heap[n].next = NULL
    /\ UNION {Subtree(heap, n) : n \in owned} = Nodes \ Free(heap)
    /\ \A m, n \in owned : m # n => Subtree(heap, m) \cap Subtree(heap, n) = {}

Trees_ == INSTANCE JsonSeq WITH
    kind <- [n \in Nodes |-> heap[n].kind],
    key  <- [n \in Nodes |-> heap[n].key],
    kids <- [n \in Nodes |-> Children(heap, n)]

\* The position of the first child of p with a name.
Position(p, name) == SelectInSeq(Children(heap, p), LAMBDA m : heap[m].key = name)

\* Every call does to the sequences of children what its name says, at the
\* place it was given, and leaves all other items alone.
PutCalls(p, n) ==
    LET last == Len(Children(heap, p)) + 1 IN
    MayPut(p, n) =>
    /\ AddItemToArray(p, n) => Trees_!Put(p, last, n, heap[n].key)
    /\ ReplaceLosesName(p, n) => Trees_!Rename(n, NoKey)
    /\ \A name \in Keys : AddItemToObject(p, n, name) => Trees_!Put(p, last, n, name)
    /\ \A which \in 0 .. last - 1 :
          /\ InsertItemInArray(p, which, n) => Trees_!Put(p, which + 1, n, heap[n].key)
          /\ ReplaceItemInArray(p, which, n) => Trees_!Replace(p, which + 1, n, heap[n].key)
    /\ \A name \in Keys : ReplaceItemInObject(p, name, n) =>
          \/ Position(p, name) = 0 /\ Trees_!Rename(n, name)
          \/ Trees_!Replace(p, Position(p, name), n, name)

TakeCalls(p) ==
    /\ \A which \in 0 .. Len(Children(heap, p)) :
          DetachItemFromArray(p, which) => Trees_!Take(p, which + 1)
    /\ \A name \in Keys : DetachItemFromObject(p, name) => Trees_!Take(p, Position(p, name))

OtherCalls ==
    /\ \A k \in Kinds : Create(k) => Trees_!Create(Min(Free(heap)), k)
    /\ \A p \in Nodes, k \in Kinds, name \in Keys :
          AddNewToObject(p, k, name) => Trees_!CreateIn(p, Min(Free(heap)), k, name)
    /\ \A n \in Nodes : /\ Delete(n) => Trees_!Delete(n)
                        /\ Duplicate(n) => \E c \in [Subtree(heap, n) -> Free(heap)] : Trees_!Copy(n, c)

ListsAreSequences ==
    [][OtherCalls /\ \A p \in Nodes : TakeCalls(p) /\ \A n \in Nodes : PutCalls(p, n)]_listVars

=============================================================================
