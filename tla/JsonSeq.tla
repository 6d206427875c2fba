------------------------------ MODULE JsonSeq ------------------------------
(***************************************************************************)
(* What cJSON promises of arrays and objects (cJSON.h): an item has a      *)
(* sequence of children, each child of one item only.  Items are created,  *)
(* put into and taken out of containers, replaced, copied and deleted with *)
(* everything below them.                                                  *)
(***************************************************************************)
EXTENDS Integers, SequencesExt

CONSTANTS Nodes,   \* the items there is memory for
          Keys,    \* names of object members, equal if equal but for case
          NoKey,   \* an item that has not been given a name
          Kinds,   \* types of item
          Containers \* the types with children

VARIABLES kind,    \* kind[n]: type of item n, "free" if not allocated
          key,     \* key[n]: its name
          kids     \* kids[n]: its children

Init ==
    /\ kind = [n \in Nodes |-> "free"]
    /\ key = [n \in Nodes |-> NoKey]
    /\ kids = [n \in Nodes |-> <<>>]

Free == {n \in Nodes : kind[n] = "free"}

IsRoot(n) == n \notin Free /\ \A p \in Nodes : ~Contains(kids[p], n)

\* n and everything below it: the least set with n and all children of its items.
Subtree(n) ==
    LET closed == {S \in SUBSET Nodes : \A m \in S : ToSet(kids[m]) \subseteq S}
    IN  {m \in Nodes : \A S \in closed : n \in S => m \in S}

Create(n, k) ==
    /\ n \in Free
    /\ kind' = [kind EXCEPT ![n] = k]
    /\ UNCHANGED <<key, kids>>

\* Root n becomes the i-th child of p, under the name k.
Put(p, i, n, k) ==
    /\ IsRoot(n)
    /\ kind[p] \in Containers
    /\ p \notin Subtree(n)
    /\ i \in 1 .. Len(kids[p]) + 1
    /\ kids' = [kids EXCEPT ![p] = InsertAt(@, i, n)]
    /\ key' = [key EXCEPT ![n] = k]
    /\ UNCHANGED kind

Rename(n, k) ==
    /\ IsRoot(n)
    /\ key' = [key EXCEPT ![n] = k]
    /\ UNCHANGED <<kind, kids>>

Take(p, i) ==
    /\ i \in DOMAIN kids[p]
    /\ kids' = [kids EXCEPT ![p] = RemoveAt(@, i)]
    /\ UNCHANGED <<kind, key>>

\* A new item that becomes the last child of p at once.
CreateIn(p, n, k, name) ==
    /\ n \in Free
    /\ kind' = [kind EXCEPT ![n] = k]
    /\ key' = [key EXCEPT ![n] = name]
    /\ kids' = [kids EXCEPT ![p] = Append(@, n)]

Delete(n) ==
    /\ IsRoot(n)
    /\ LET gone == Subtree(n) IN
       /\ kind' = [m \in Nodes |-> IF m \in gone THEN "free" ELSE kind[m]]
       /\ key'  = [m \in Nodes |-> IF m \in gone THEN NoKey ELSE key[m]]
       /\ kids' = [m \in Nodes |-> IF m \in gone THEN <<>> ELSE kids[m]]

\* Root n takes the place of the i-th child of p, which is deleted.
Replace(p, i, n, k) ==
    /\ IsRoot(n)
    /\ i \in DOMAIN kids[p]
    /\ p \notin Subtree(n)
    /\ LET gone == Subtree(kids[p][i]) IN
       /\ kind' = [m \in Nodes |-> IF m \in gone THEN "free" ELSE kind[m]]
       /\ key'  = [m \in Nodes |-> IF m \in gone THEN NoKey
                                   ELSE IF m = n THEN k ELSE key[m]]
       /\ kids' = [m \in Nodes |-> IF m \in gone THEN <<>>
                                   ELSE IF m = p THEN ReplaceAt(kids[p], i, n)
                                   ELSE kids[m]]

\* A copy of n and everything below it, in free items; c says which.
Copy(n, c) ==
    /\ \A m, o \in DOMAIN c : c[m] = c[o] => m = o
    /\ LET made == {c[m] : m \in DOMAIN c}
           Original(m) == CHOOSE o \in DOMAIN c : c[o] = m
       IN
       /\ kind' = [m \in Nodes |-> IF m \in made THEN kind[Original(m)] ELSE kind[m]]
       /\ key'  = [m \in Nodes |-> IF m \in made THEN key[Original(m)] ELSE key[m]]
       /\ kids' = [m \in Nodes |->
                      IF m \in made
                      THEN LET old == kids[Original(m)] IN
                           [i \in DOMAIN old |-> c[old[i]]]
                      ELSE kids[m]]

=============================================================================
