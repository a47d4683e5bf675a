---------------------------- MODULE SVGHMI_proofs ----------------------------
(***************************************************************************)
(* Proofs about SVGHMI and HMITree, for any set of items, of connections   *)
(* and of session indexes: the list is right whatever is subscribed,       *)
(* unsubscribed and reset, no change is forgotten, sessions have indexes   *)
(* of their own, and the send thread waits with something to send only as  *)
(* the code allows it.                                                     *)
(*                                                                         *)
(* First the operators of HMITree, then one lemma per part of the          *)
(* inductive invariant, IInv.                                              *)
(***************************************************************************)
EXTENDS SVGHMI, FiniteSetTheorems, WellFoundedInduction, TLAPS

\* The items that are subscribed, which is what the list has to be.
Listed(t) == {i \in Items : Subscribers(t, i) # {}}
\* A walk towards the head does not leave S.
Closed(t, S) == \A j \in S : t.prev[j] \in S \cup {NULL}
\* A walk from r meets all of K: said without a walk, so without recursion.
Covers(t, r, K) ==
    \A S \in SUBSET Items : Closed(t, S) /\ r \in S \cup {NULL} => K \subseteq S
\* Every walk ends.
Acyclic(t) == \A S \in SUBSET Items : S # {} => \E i \in S : t.prev[i] \notin S
\* The pointers of the items of L point to each other, and the tail is the last of them.
Ends(t, L) ==
    /\ t.tail \in L \cup {NULL}
    /\ \A i \in L : /\ t.prev[i] \in L \cup {NULL}
                    /\ t.next[i] \in L \cup {NULL}
                    /\ t.next[i] = NULL <=> i = t.tail
                    /\ t.prev[i] # NULL => t.next[t.prev[i]] = i
                    /\ t.next[i] # NULL => t.prev[t.next[i]] = i
\* L is what the list has, each item once.
Linked(t, L) == Ends(t, L) /\ Covers(t, t.tail, L) /\ Acyclic(t)

----------------------------------------------------------------------------
\* AppendToList(), RemoveFromList(): field by field.
LEMMA AppendFields ==
    ASSUME NEW t \in Trees, NEW i \in Items
    PROVE  LET u == AppendToList(t, i)
           IN /\ u \in Trees
              /\ u.tail = i
              /\ u.prev = [t.prev EXCEPT ![i] = t.tail]
              /\ u.next = [j \in Items |-> IF j = i THEN NULL
                                           ELSE IF j = t.tail THEN i ELSE t.next[j]]
              /\ u.subscribed = t.subscribed /\ u.wstate = t.wstate /\ u.known = t.known
  BY DEF Trees, AppendToList

LEMMA TreeFields ==
    ASSUME NEW t \in Trees
    PROVE  /\ t.tail \in Items \cup {NULL}
           /\ t.next \in [Items -> Items \cup {NULL}] /\ t.prev \in [Items -> Items \cup {NULL}]
           /\ t.subscribed \in [Pairs -> BOOLEAN]
           /\ t.wstate \in [Pairs -> {"free", "new", "set", "tosend"}]
           /\ t.known \in [Pairs -> BOOLEAN]
  BY DEF Trees

LEMMA RemoveFields ==
    ASSUME NEW t \in Trees, NEW i \in Items
    PROVE  LET u == RemoveFromList(t, i)
               before == t.prev[i]
               after == t.next[i]
           IN /\ u \in Trees
              /\ u.tail = IF after = NULL THEN before ELSE t.tail
              /\ u.prev = IF after = NULL THEN t.prev ELSE [t.prev EXCEPT ![after] = before]
              /\ u.next = [j \in Items |-> IF j = before THEN after ELSE t.next[j]]
              /\ u.subscribed = t.subscribed /\ u.wstate = t.wstate /\ u.known = t.known
<1>1. CASE t.next[i] = NULL
  BY <1>1 DEF Trees, RemoveFromList
<1>2. CASE t.next[i] # NULL
  BY <1>2 DEF Trees, RemoveFromList
<1> QED BY <1>1, <1>2

----------------------------------------------------------------------------
\* f is what Chain has to be for the items of S.
Walks(t, f, S) ==
    /\ f \in [Items \cup {NULL} -> Seq(Items)]
    /\ f[NULL] = << >>
    /\ \A j \in S : t.prev[j] \in S \cup {NULL} /\ f[j] = <<j>> \o f[t.prev[j]]

\* Two such functions agree on what they have in common, as walks end ...
LEMMA WalksAgree ==
    ASSUME NEW t \in Trees, Acyclic(t), NEW S \in SUBSET Items, NEW T \in SUBSET Items,
           NEW f, NEW g, Walks(t, f, S), Walks(t, g, T), NEW j \in S \cap T
    PROVE  f[j] = g[j]
<1> DEFINE B == {k \in S \cap T : f[k] # g[k]}
<1> SUFFICES ASSUME B # {} PROVE FALSE
  OBVIOUS
<1>1. PICK k \in B : t.prev[k] \notin B
  BY DEF Acyclic
<1>2. f[t.prev[k]] = g[t.prev[k]]
  BY <1>1 DEF Walks
<1> QED BY <1>1, <1>2 DEF Walks

\* ... and each item has one ...
LEMMA WalkExists ==
    ASSUME NEW t \in Trees, Acyclic(t), NEW i \in Items
    PROVE  \E S \in SUBSET Items : i \in S /\ \E f : Walks(t, f, S)
<1> DEFINE D == {j \in Items : \E S \in SUBSET Items : j \in S /\ \E f : Walks(t, f, S)}
<1> SUFFICES ASSUME Items \ D # {} PROVE FALSE
  OBVIOUS
<1>1. PICK j \in Items \ D : t.prev[j] \notin Items \ D
  BY DEF Acyclic
<1>2. t.prev[j] \in D \cup {NULL}
  BY <1>1 DEF Trees
<1>3. \E S \in SUBSET Items : t.prev[j] \in S \cup {NULL} /\ \E f : Walks(t, f, S)
  <2>1. CASE t.prev[j] = NULL
    <3>1. Walks(t, [k \in Items \cup {NULL} |-> << >>], {})
      BY DEF Walks
    <3> QED BY <2>1, <3>1
  <2> QED BY <1>2, <2>1
<1>4. PICK S \in SUBSET Items : t.prev[j] \in S \cup {NULL} /\ \E f : Walks(t, f, S)
  BY <1>3
<1>f. PICK f : Walks(t, f, S)
  BY <1>4
<1>5. j \notin S
  BY <1>1, <1>4, <1>f
<1> DEFINE g == [f EXCEPT ![j] = <<j>> \o f[t.prev[j]]]
<1>6. f[t.prev[j]] \in Seq(Items) /\ <<j>> \o f[t.prev[j]] \in Seq(Items)
  <2>1. f[t.prev[j]] \in Seq(Items)
    BY <1>2, <1>4, <1>f DEF Walks
  <2> QED BY <2>1
<1>7. /\ g \in [Items \cup {NULL} -> Seq(Items)]
      /\ g[j] = <<j>> \o f[t.prev[j]]
      /\ \A k \in Items \cup {NULL} : k # j => g[k] = f[k]
  BY <1>4, <1>f, <1>6 DEF Walks
<1>8. t.prev[j] # j
  BY <1>4, <1>f, <1>5, HMITreeAssumption
<1> HIDE DEF g
<1>9. Walks(t, g, S \cup {j})
  BY <1>4, <1>f, <1>5, <1>7, <1>8, HMITreeAssumption DEF Walks
<1> QED BY <1>9, <1>1

\* ... so that the recursive function of Chain exists, and is what its definition says.
LEMMA ChainWalks ==
    ASSUME NEW t \in Trees, Acyclic(t)
    PROVE  /\ Chain(t, NULL) = << >>
           /\ \A j \in Items : /\ Chain(t, j) \in Seq(Items)
                               /\ Chain(t, j) = <<j>> \o Chain(t, t.prev[j])
<1> DEFINE P(j, v) == \E S \in SUBSET Items : j \in S /\ \E f : Walks(t, f, S) /\ v = f[j]
           G(f) == [j \in Items \cup {NULL} |->
                       IF j = NULL THEN << >> ELSE <<j>> \o f[t.prev[j]]]
           F == [j \in Items \cup {NULL} |-> IF j = NULL THEN << >> ELSE CHOOSE v : P(j, v)]
<1>1. ASSUME NEW j \in Items, NEW S \in SUBSET Items, NEW f, j \in S, Walks(t, f, S)
      PROVE  F[j] = f[j]
  <2>1. P(j, f[j])
    BY <1>1
  <2>2. P(j, F[j])
    BY <2>1, HMITreeAssumption
  <2> HIDE DEF F
  <2>3. PICK T \in SUBSET Items : j \in T /\ \E g : Walks(t, g, T) /\ F[j] = g[j]
    BY <2>2
  <2>g. PICK g : Walks(t, g, T) /\ F[j] = g[j]
    BY <2>3
  <2>4. f[j] = g[j]
    BY <1>1, <2>3, <2>g, WalksAgree
  <2> QED BY <2>g, <2>4
<1>2. F[NULL] = << >> /\ F = [j \in Items \cup {NULL} |-> F[j]]
  OBVIOUS
<1> HIDE DEF F
<1>3. ASSUME NEW j \in Items
      PROVE  F[j] \in Seq(Items) /\ F[j] = <<j>> \o F[t.prev[j]]
  <2>1. PICK S \in SUBSET Items : j \in S /\ \E f : Walks(t, f, S)
    BY WalkExists
  <2>f. PICK f : Walks(t, f, S)
    BY <2>1
  <2>j. j \in S
    BY <2>1
  <2>2. F[j] = f[j]
    BY <1>1, <2>f, <2>j
  <2>3. F[t.prev[j]] = f[t.prev[j]]
    <3>1. t.prev[j] \in S \cup {NULL}
      BY <2>f, <2>j DEF Walks
    <3> QED BY <1>1, <1>2, <2>f, <3>1 DEF Walks
  <2> QED BY <2>f, <2>j, <2>2, <2>3 DEF Walks
<1>4. F = G(F)
  <2>1. \A j \in Items \cup {NULL} :
           F[j] = IF j = NULL THEN << >> ELSE <<j>> \o F[t.prev[j]]
    BY <1>2, <1>3
  <2> QED BY <1>2, <2>1
<1> DEFINE H == CHOOSE f : f = G(f)
<1>5. H = G(H)
  <2> HIDE DEF G
  <2> QED BY <1>4
<1>6. Chain(t, NULL) = H[NULL] /\ \A j \in Items : Chain(t, j) = H[j]
  BY DEF Chain
<1> HIDE DEF H
<1>7. \A j \in Items : t.prev[j] \in Items \cup {NULL}
  BY DEF Trees
<1>8. \A j \in Items : H[j] = F[j]
  <2> DEFINE B == {j \in Items : H[j] # F[j]}
  <2> SUFFICES ASSUME B # {} PROVE FALSE
    OBVIOUS
  <2>1. PICK j \in B : t.prev[j] \notin B
    BY DEF Acyclic
  <2>2. H[t.prev[j]] = F[t.prev[j]]
    BY <1>2, <1>5, <1>7, <2>1
  <2>3. H[j] = <<j>> \o H[t.prev[j]]
    BY <1>5, <2>1, HMITreeAssumption
  <2> QED BY <1>3, <2>1, <2>2, <2>3
<1>9. \A j \in Items : H[j] = <<j>> \o H[t.prev[j]]
  BY <1>5, HMITreeAssumption
<1>10. H[NULL] = << >>
  BY <1>5
<1> HIDE DEF G
<1>11. ASSUME NEW j \in Items
       PROVE  Chain(t, j) \in Seq(Items) /\ Chain(t, j) = <<j>> \o Chain(t, t.prev[j])
  <2>1. Chain(t, t.prev[j]) = H[t.prev[j]]
    BY <1>6, <1>7
  <2> QED BY <1>3, <1>6, <1>8, <1>9, <2>1
<1> QED BY <1>6, <1>10, <1>11
\* A sequence with one more element in front.
LEMMA OneMore ==
    ASSUME NEW S, NEW s \in Seq(S), NEW e \in S
    PROVE  LET r == <<e>> \o s
           IN /\ r \in Seq(S) /\ Len(r) = Len(s) + 1
              /\ r[1] = e /\ \A k \in 1..Len(s) : r[k + 1] = s[k]
              /\ ToSet(r) = {e} \cup ToSet(s)
<1> DEFINE r == <<e>> \o s
<1>1. /\ r \in Seq(S) /\ Len(r) = Len(s) + 1 /\ r[1] = e
      /\ DOMAIN r = 1..Len(r) /\ DOMAIN s = 1..Len(s) /\ Len(s) \in Nat
  OBVIOUS
<1>2. \A k \in 1..Len(s) : r[k + 1] = s[k]
  OBVIOUS
<1> HIDE DEF r
<1>3. ToSet(r) \subseteq {e} \cup ToSet(s)
  <2> SUFFICES ASSUME NEW k \in 1..Len(r) PROVE r[k] \in {e} \cup ToSet(s)
    BY <1>1 DEF ToSet
  <2>1. CASE k = 1
    BY <1>1, <2>1
  <2>2. CASE k # 1
    <3>1. k - 1 \in 1..Len(s) /\ r[(k - 1) + 1] = s[k - 1] /\ (k - 1) + 1 = k
      BY <1>1, <1>2, <2>2
    <3> QED BY <1>1, <3>1 DEF ToSet
  <2> QED BY <2>1, <2>2
<1>4. {e} \cup ToSet(s) \subseteq ToSet(r)
  <2>1. e \in ToSet(r)
    <3>1. 1 \in DOMAIN r
      BY <1>1
    <3> QED BY <1>1, <3>1 DEF ToSet
  <2>2. ASSUME NEW k \in 1..Len(s) PROVE s[k] \in ToSet(r)
    <3>1. k + 1 \in DOMAIN r
      BY <1>1
    <3> QED BY <1>2, <3>1 DEF ToSet
  <2> QED BY <1>1, <2>1, <2>2 DEF ToSet
<1>5. ToSet(r) = {e} \cup ToSet(s)
  BY <1>3, <1>4
<1> QED BY <1>1, <1>2, <1>5 DEF r

\* Chain is a walk that goes on to the head, and meets nothing that it need not.
Walked(t, i) ==
    LET chain == Chain(t, i)
    IN /\ chain \in Seq(Items)
       /\ i # NULL => Len(chain) > 0 /\ chain[1] = i
       /\ Closed(t, ToSet(chain))
       /\ \A S \in SUBSET Items : Closed(t, S) /\ i \in S \cup {NULL} => ToSet(chain) \subseteq S
       /\ \A k \in 1..Len(chain) - 1 : chain[k + 1] = t.prev[chain[k]]

LEMMA ChainWalked ==
    ASSUME NEW t \in Trees, Acyclic(t), NEW i \in Items \cup {NULL}
    PROVE  Walked(t, i)
<1>1. Chain(t, NULL) = << >> /\ Walked(t, NULL)
  <2>1. Chain(t, NULL) = << >>
    BY ChainWalks
  <2> QED BY <2>1 DEF Walked, Closed, ToSet
<1> DEFINE B == {j \in Items : ~ Walked(t, j)}
<1> SUFFICES ASSUME B # {} PROVE FALSE
  BY <1>1
<1>2. PICK j \in B : t.prev[j] \notin B
  BY DEF Acyclic
<1>3. t.prev[j] \in Items \cup {NULL} /\ Walked(t, t.prev[j]) /\ j \in Items
  BY <1>1, <1>2 DEF Trees
<1> DEFINE s == Chain(t, t.prev[j])
           r == Chain(t, j)
<1>4. s \in Seq(Items)
  BY <1>3 DEF Walked
<1>5. r = <<j>> \o s
  BY <1>3, ChainWalks
<1>6. t.prev[j] = NULL => s = << >>
  BY <1>1
<1>7. /\ t.prev[j] # NULL => Len(s) > 0 /\ s[1] = t.prev[j]
      /\ Closed(t, ToSet(s))
      /\ \A S \in SUBSET Items :
            Closed(t, S) /\ t.prev[j] \in S \cup {NULL} => ToSet(s) \subseteq S
      /\ \A k \in 1..Len(s) - 1 : s[k + 1] = t.prev[s[k]]
  BY <1>3 DEF Walked
<1>8. /\ r \in Seq(Items) /\ Len(r) = Len(s) + 1
      /\ r[1] = j /\ \A k \in 1..Len(s) : r[k + 1] = s[k]
      /\ ToSet(r) = {j} \cup ToSet(s)
      /\ Len(s) \in Nat
  BY <1>3, <1>4, <1>5, OneMore
<1> HIDE DEF r, s
<1>9. Closed(t, ToSet(r))
  <2>1. t.prev[j] \in ToSet(s) \cup {NULL}
    <3>1. t.prev[j] # NULL => 1 \in DOMAIN s
      BY <1>4, <1>7
    <3> QED BY <1>7, <3>1 DEF ToSet
  <2> QED BY <1>7, <1>8, <2>1 DEF Closed
<1>10. ASSUME NEW S \in SUBSET Items, Closed(t, S), j \in S
       PROVE  ToSet(r) \subseteq S
  BY <1>7, <1>8, <1>10 DEF Closed
<1>11. ASSUME NEW k \in 1..Len(r) - 1
       PROVE  r[k + 1] = t.prev[r[k]]
  <2>1. k \in 1..Len(s) /\ r[k + 1] = s[k]
    BY <1>8
  <2>2. CASE k = 1
    <3>1. t.prev[j] # NULL
      BY <1>6, <2>1, <1>4
    <3> QED BY <1>7, <1>8, <2>1, <2>2, <3>1
  <2>3. CASE k # 1
    <3>1. k - 1 \in 1..Len(s) - 1 /\ k - 1 \in 1..Len(s) /\ (k - 1) + 1 = k
      BY <2>1, <2>3, <1>8
    <3>2. r[(k - 1) + 1] = s[k - 1] /\ s[(k - 1) + 1] = t.prev[s[k - 1]]
      BY <3>1, <1>7, <1>8
    <3> QED BY <2>1, <3>1, <3>2
  <2> QED BY <2>2, <2>3
<1>12. Walked(t, j)
  BY <1>3, <1>8, <1>9, <1>10, <1>11, HMITreeAssumption DEF Walked, r
<1> QED BY <1>2, <1>12
----------------------------------------------------------------------------
\* An item that is not in a list is added at its end.
LEMMA AppendLinked ==
    ASSUME NEW t \in Trees, NEW L \in SUBSET Items, Linked(t, L), NEW i \in Items \ L
    PROVE  Linked(AppendToList(t, i), L \cup {i})
<1> DEFINE u == AppendToList(t, i)
<1>1. /\ u.tail = i
      /\ \A j \in Items : u.prev[j] = IF j = i THEN t.tail ELSE t.prev[j]
      /\ \A j \in Items : u.next[j] = IF j = i THEN NULL
                                           ELSE IF j = t.tail THEN i ELSE t.next[j]
  <2>1. /\ u.tail = i
        /\ u.prev = [t.prev EXCEPT ![i] = t.tail]
        /\ u.next = [j \in Items |-> IF j = i THEN NULL
                                     ELSE IF j = t.tail THEN i ELSE t.next[j]]
    BY AppendFields
  <2> HIDE DEF u
  <2> QED BY <2>1, TreeFields
<1>2. /\ t.tail \in Items \cup {NULL}
      /\ \A j \in Items : t.prev[j] \in Items \cup {NULL} /\ t.next[j] \in Items \cup {NULL}
  BY TreeFields
<1> HIDE DEF u
<1>3. Ends(u, L \cup {i})
  BY <1>1, <1>2, HMITreeAssumption DEF Linked, Ends
\* A closed set with the tail has the whole of the old list.
<1>4. ASSUME NEW S \in SUBSET Items, Closed(u, S), t.tail \in S \cup {NULL}
      PROVE  L \subseteq S
  <2>1. Closed(t, S \cap L) /\ t.tail \in (S \cap L) \cup {NULL}
    BY <1>1, <1>4 DEF Linked, Ends, Closed
  <2> QED BY <2>1 DEF Linked, Covers
<1>5. Covers(u, i, L \cup {i})
  <2> SUFFICES ASSUME NEW S \in SUBSET Items, Closed(u, S), i \in S
               PROVE  L \cup {i} \subseteq S
    BY HMITreeAssumption DEF Covers
  <2>1. t.tail \in S \cup {NULL}
    BY <1>1 DEF Closed
  <2> QED BY <2>1, <1>4
<1>6. Acyclic(u)
  <2> SUFFICES ASSUME NEW S \in SUBSET Items, S # {}, \A j \in S : u.prev[j] \in S
               PROVE  FALSE
    BY DEF Acyclic
  <2>1. CASE i \notin S
    BY <1>1, <2>1 DEF Linked, Acyclic
  <2>2. CASE i \in S
    <3>1. t.tail \in S \cap L
      BY <1>1, <2>2, HMITreeAssumption DEF Linked, Ends
    <3>2. \A j \in S \cap L : t.prev[j] \in S \cap L
      BY <1>1, HMITreeAssumption DEF Linked, Ends
    <3> QED BY <3>1, <3>2 DEF Linked, Acyclic
  <2> QED BY <2>1, <2>2
<1> QED BY <1>1, <1>3, <1>5, <1>6 DEF Linked, u

\* A list stays one without one of its items.
LEMMA RemoveLinked ==
    ASSUME NEW t \in Trees, NEW L \in SUBSET Items, Linked(t, L), NEW i \in L
    PROVE  Linked(RemoveFromList(t, i), L \ {i})
<1> DEFINE u == RemoveFromList(t, i)
           before == t.prev[i]
           after == t.next[i]
<1>1. /\ u.tail = IF after = NULL THEN before ELSE t.tail
      /\ \A j \in Items : u.prev[j] = IF j = after THEN before ELSE t.prev[j]
      /\ \A j \in Items : u.next[j] = IF j = before THEN after ELSE t.next[j]
  <2>1. /\ u.tail = IF after = NULL THEN before ELSE t.tail
        /\ u.prev = IF after = NULL THEN t.prev ELSE [t.prev EXCEPT ![after] = before]
        /\ u.next = [j \in Items |-> IF j = before THEN after ELSE t.next[j]]
    BY RemoveFields
  <2> HIDE DEF u
  <2> QED BY <2>1, TreeFields, HMITreeAssumption
<1>2. /\ t.tail \in Items \cup {NULL}
      /\ \A j \in Items : t.prev[j] \in Items \cup {NULL} /\ t.next[j] \in Items \cup {NULL}
  BY TreeFields
<1>3. /\ before \in L \cup {NULL} /\ after \in L \cup {NULL}
      /\ before # NULL => t.next[before] = i
      /\ after # NULL => t.prev[after] = i
      /\ after = NULL <=> i = t.tail
      /\ before # i /\ after # i
  <2>1. before # i
    <3>1. SUFFICES ASSUME before = i PROVE FALSE
      OBVIOUS
    <3>2. \A j \in {i} : t.prev[j] \in {i}
      BY <3>1
    <3> QED BY <3>2 DEF Linked, Acyclic
  <2>2. after # i
    BY <2>1, HMITreeAssumption DEF Linked, Ends
  <2> QED BY <2>1, <2>2, HMITreeAssumption DEF Linked, Ends
<1> HIDE DEF u, before, after
<1>4. Ends(u, L \ {i})
  BY <1>1, <1>2, <1>3, HMITreeAssumption DEF Linked, Ends, before, after
\* With the item, a closed set that has the next one is closed in the old list.
<1>5. ASSUME NEW S \in SUBSET Items, Closed(u, S), after \in S
      PROVE  Closed(t, S \cup {i})
  BY <1>1, <1>2, <1>3, <1>5, HMITreeAssumption DEF Closed, before
<1>6. ASSUME NEW S \in SUBSET Items, Closed(u, S), after \notin S
      PROVE  Closed(t, S)
  BY <1>1, <1>2, <1>3, <1>6, HMITreeAssumption DEF Closed
<1>7. Covers(u, u.tail, L \ {i})
  <2> SUFFICES ASSUME NEW S \in SUBSET Items, Closed(u, S), u.tail \in S \cup {NULL}
               PROVE  L \ {i} \subseteq S
    BY DEF Covers
  <2>1. CASE after = NULL
    <3>1. Closed(t, S \cup {i})
      BY <1>1, <1>2, <2>1, HMITreeAssumption DEF Closed, before
    <3>2. t.tail = i
      BY <1>3, <2>1
    <3> QED BY <3>1, <3>2 DEF Linked, Covers
  <2>2. CASE after \in S
    <3>1. t.tail \in S \cup {NULL}
      BY <1>1, <2>2, HMITreeAssumption
    <3> QED BY <1>5, <2>2, <3>1 DEF Linked, Covers
  <2>3. CASE after # NULL /\ after \notin S
    BY <1>1, <1>6, <2>3, <1>3 DEF Linked, Covers
  <2> QED BY <2>1, <2>2, <2>3
<1>8. Acyclic(u)
  <2> SUFFICES ASSUME NEW S \in SUBSET Items, S # {}, \A j \in S : u.prev[j] \in S
               PROVE  FALSE
    BY DEF Acyclic
  <2>1. CASE after \in S
    <3>1. \A j \in S \cup {i} : t.prev[j] \in S \cup {i}
      BY <1>1, <1>2, <1>3, <2>1, HMITreeAssumption DEF before
    <3> QED BY <3>1 DEF Linked, Acyclic
  <2>2. CASE after \notin S
    BY <1>1, <2>2 DEF Linked, Acyclic
  <2> QED BY <2>1, <2>2
<1> QED BY <1>4, <1>7, <1>8 DEF Linked, u

\* Whatever is walked from an item goes on to be, but for an item that is removed.
LEMMA AppendCovers ==
    ASSUME NEW t \in Trees, NEW L \in SUBSET Items, Linked(t, L), NEW i \in Items \ L,
           NEW r, NEW K \in SUBSET L, Covers(t, r, K)
    PROVE  Covers(AppendToList(t, i), r, K)
<1> DEFINE u == AppendToList(t, i)
<1>1. \A j \in Items : u.prev[j] = IF j = i THEN t.tail ELSE t.prev[j]
  <2>1. u.prev = [t.prev EXCEPT ![i] = t.tail]
    BY AppendFields
  <2> HIDE DEF u
  <2> QED BY <2>1, TreeFields
<1> HIDE DEF u
<1> SUFFICES ASSUME NEW S \in SUBSET Items, Closed(u, S), r \in S \cup {NULL}
             PROVE  K \subseteq S
  BY DEF Covers, u
<1>2. CASE i \notin S
  <2>1. Closed(t, S)
    BY <1>1, <1>2 DEF Closed
  <2> QED BY <2>1 DEF Covers
<1>3. CASE i \in S
  <2>1. Closed(t, S \cap L) /\ t.tail \in (S \cap L) \cup {NULL}
    BY <1>1, <1>3 DEF Linked, Ends, Closed
  <2> QED BY <2>1 DEF Linked, Covers
<1> QED BY <1>2, <1>3

LEMMA RemoveCovers ==
    ASSUME NEW t \in Trees, NEW L \in SUBSET Items, Linked(t, L), NEW i \in L,
           NEW r, NEW K \in SUBSET (L \ {i}), Covers(t, r, K)
    PROVE  Covers(RemoveFromList(t, i), r, K)
<1> DEFINE u == RemoveFromList(t, i)
           before == t.prev[i]
           after == t.next[i]
<1>1. \A j \in Items : u.prev[j] = IF j = after THEN before ELSE t.prev[j]
  <2>1. u.prev = IF after = NULL THEN t.prev ELSE [t.prev EXCEPT ![after] = before]
    BY RemoveFields
  <2> HIDE DEF u
  <2> QED BY <2>1, TreeFields, HMITreeAssumption
<1>2. after # NULL => t.prev[after] = i
  BY DEF Linked, Ends
<1> HIDE DEF u
<1> SUFFICES ASSUME NEW S \in SUBSET Items, Closed(u, S), r \in S \cup {NULL}
             PROVE  K \subseteq S
  BY DEF Covers, u
<1>3. CASE after \notin S
  <2>1. Closed(t, S)
    BY <1>1, <1>3 DEF Closed
  <2> QED BY <2>1 DEF Covers
<1>4. CASE after \in S
  <2>1. Closed(t, S \cup {i})
    BY <1>1, <1>2, <1>4, HMITreeAssumption DEF Closed
  <2> QED BY <2>1 DEF Covers
<1> QED BY <1>3, <1>4

----------------------------------------------------------------------------
\* A list whose pointers are right reads as the set of items that are subscribed, from
\* either end.
LEMMA ListIsRight ==
    ASSUME NEW t \in Trees, Linked(t, Listed(t))
    PROVE  ListRight(t) /\ ToSet(Chain(t, t.tail)) = Listed(t)
<1> DEFINE chain == Chain(t, t.tail)
           L == Listed(t)
<1>1. /\ t.tail \in Items \cup {NULL}
      /\ \A i \in Items : t.next[i] \in Items \cup {NULL} /\ t.prev[i] \in Items \cup {NULL}
  BY TreeFields
<1>2. /\ chain \in Seq(Items)
      /\ t.tail # NULL => Len(chain) > 0 /\ chain[1] = t.tail
      /\ Closed(t, ToSet(chain))
      /\ \A S \in SUBSET Items :
            Closed(t, S) /\ t.tail \in S \cup {NULL} => ToSet(chain) \subseteq S
      /\ \A k \in 1..Len(chain) - 1 : chain[k + 1] = t.prev[chain[k]]
  BY <1>1, ChainWalked DEF Linked, Walked
<1>3. t.tail = NULL => chain = << >>
  BY ChainWalks DEF Linked
<1> HIDE DEF chain
<1>4. ToSet(chain) \in SUBSET Items /\ t.tail \in ToSet(chain) \cup {NULL}
  BY <1>1, <1>2 DEF ToSet
<1>5. ToSet(chain) = L
  <2>1. L \subseteq ToSet(chain)
    BY <1>2, <1>4 DEF Linked, Covers
  <2>2. L \in SUBSET Items /\ Closed(t, L) /\ t.tail \in L \cup {NULL}
    BY DEF Linked, Ends, Closed, Listed
  <2> QED BY <1>2, <2>1, <2>2
<1>6. Len(chain) > 0 => t.next[t.tail] = NULL
  BY <1>3, <1>1, <1>4, <1>5 DEF Linked, Ends
<1>7. ASSUME NEW k \in 1..Len(chain) - 1
      PROVE  chain[k + 1] # chain[k] /\ t.next[chain[k + 1]] = chain[k]
  <2>1. chain[k] \in L /\ chain[k + 1] \in L /\ chain[k + 1] = t.prev[chain[k]]
    <3>1. k \in DOMAIN chain /\ k + 1 \in DOMAIN chain
      BY <1>2
    <3> QED BY <1>2, <1>5, <3>1 DEF ToSet
  <2>2. chain[k + 1] \in Items
    BY <1>4, <1>5, <2>1
  <2>3. t.prev[chain[k]] # chain[k]
    <3>1. {chain[k]} \in SUBSET Items
      BY <1>4, <1>5, <2>1
    <3> QED BY <3>1 DEF Linked, Acyclic
  <2> QED BY <2>1, <2>2, <2>3, HMITreeAssumption DEF Linked, Ends
<1>8. ToSet(chain) = {i \in Items : Subscribers(t, i) # {}}
  BY <1>5 DEF Listed
<1> QED BY <1>5, <1>6, <1>7, <1>8 DEF ListRight, chain

\* What is true of the tree between any two steps.
Good(t) == /\ t \in Trees
           /\ Linked(t, Listed(t))
           /\ \A p \in Pairs : t.wstate[p] # "free" => t.subscribed[p]
\* The items that the session with index x is subscribed to.
FollowedBy(t, x) == {i \in Items : t.subscribed[<<i, x>>]}

----------------------------------------------------------------------------
\* Only the pointers matter to a list.
LEMMA SameLinks ==
    ASSUME NEW t, NEW u, u.tail = t.tail, u.next = t.next, u.prev = t.prev
    PROVE  /\ \A L : Linked(t, L) => Linked(u, L)
           /\ \A r, K : Covers(t, r, K) => Covers(u, r, K)
  BY DEF Linked, Ends, Covers, Closed, Acyclic

\* update_refresh_period(): field by field.
LEMMA UnsubscribeFields ==
    ASSUME NEW t \in Trees, NEW i \in Items, NEW x \in Indexes
    PROVE  LET u == Unsubscribe(t, i, x)
               v == IF Subscribers(t, i) = {x} THEN RemoveFromList(t, i) ELSE t
           IN /\ u \in Trees
              /\ u.tail = v.tail /\ u.next = v.next /\ u.prev = v.prev
              /\ u.subscribed = [t.subscribed EXCEPT ![<<i, x>>] = FALSE]
              /\ u.wstate = [t.wstate EXCEPT ![<<i, x>>] = "free"]
              /\ u.known = [t.known EXCEPT ![<<i, x>>] = FALSE]
<1> DEFINE v == IF Subscribers(t, i) = {x} THEN RemoveFromList(t, i) ELSE t
<1>1. v \in Trees /\ v.subscribed = t.subscribed /\ v.wstate = t.wstate /\ v.known = t.known
  BY RemoveFields
<1>2. Unsubscribe(t, i, x) = [v EXCEPT !.subscribed[<<i, x>>] = FALSE, !.wstate[<<i, x>>] = "free",
                                       !.known[<<i, x>>] = FALSE]
  BY DEF Unsubscribe
<1> HIDE DEF v
<1>3. LET u == [v EXCEPT !.subscribed[<<i, x>>] = FALSE, !.wstate[<<i, x>>] = "free",
                         !.known[<<i, x>>] = FALSE]
      IN /\ u \in Trees
         /\ u.tail = v.tail /\ u.next = v.next /\ u.prev = v.prev
         /\ u.subscribed = [v.subscribed EXCEPT ![<<i, x>>] = FALSE]
         /\ u.wstate = [v.wstate EXCEPT ![<<i, x>>] = "free"]
         /\ u.known = [v.known EXCEPT ![<<i, x>>] = FALSE]
  BY <1>1 DEF Trees
<1> QED BY <1>1, <1>2, <1>3 DEF v

LEMMA SubscribeFields ==
    ASSUME NEW t \in Trees, NEW i \in Items, NEW x \in Indexes, ~ t.subscribed[<<i, x>>]
    PROVE  LET u == Subscribe(t, i, x)
               v == IF Subscribers(t, i) = {} THEN AppendToList(t, i) ELSE t
           IN /\ u \in Trees
              /\ u.tail = v.tail /\ u.next = v.next /\ u.prev = v.prev
              /\ u.subscribed = [t.subscribed EXCEPT ![<<i, x>>] = TRUE]
              /\ u.wstate = [t.wstate EXCEPT ![<<i, x>>] = "new"]
              /\ u.known = t.known
<1> DEFINE v == IF Subscribers(t, i) = {} THEN AppendToList(t, i) ELSE t
<1>1. v \in Trees /\ v.subscribed = t.subscribed /\ v.wstate = t.wstate /\ v.known = t.known
  BY AppendFields
<1>2. Subscribe(t, i, x) = [v EXCEPT !.subscribed[<<i, x>>] = TRUE, !.wstate[<<i, x>>] = "new"]
  BY DEF Subscribe
<1> HIDE DEF v
<1>3. LET u == [v EXCEPT !.subscribed[<<i, x>>] = TRUE, !.wstate[<<i, x>>] = "new"]
      IN /\ u \in Trees
         /\ u.tail = v.tail /\ u.next = v.next /\ u.prev = v.prev
         /\ u.subscribed = [v.subscribed EXCEPT ![<<i, x>>] = TRUE]
         /\ u.wstate = [v.wstate EXCEPT ![<<i, x>>] = "new"]
         /\ u.known = v.known
  BY <1>1 DEF Trees
<1> QED BY <1>1, <1>2, <1>3 DEF v

\* A walk that was begun in t meets in u whatever it had to, if it is still subscribed.
CoversKept(t, u) ==
    \A r \in Items \cup {NULL} : \A K \in SUBSET (Listed(t) \cap Listed(u)) :
        Covers(t, r, K) => Covers(u, r, K)
\* Some subscriptions of x are gone, and nothing else.
Lessened(t, u, x) ==
    /\ \A p \in Pairs : /\ u.subscribed[p] => /\ t.subscribed[p]
                                              /\ u.wstate[p] = t.wstate[p]
                                              /\ u.known[p] = t.known[p]
                        /\ p[2] # x => u.subscribed[p] = t.subscribed[p]
    /\ CoversKept(t, u)

\* Unsubscribing keeps the list right.
LEMMA UnsubscribeRight ==
    ASSUME NEW t, Good(t), NEW i \in Items, NEW x \in Indexes
    PROVE  LET u == Unsubscribe(t, i, x)
           IN Good(u) /\ Lessened(t, u, x) /\ ~ u.subscribed[<<i, x>>]
<1> DEFINE u == Unsubscribe(t, i, x)
           v == IF Subscribers(t, i) = {x} THEN RemoveFromList(t, i) ELSE t
           L == IF Subscribers(t, i) = {x} THEN Listed(t) \ {i} ELSE Listed(t)
<1>1. /\ t \in Trees /\ Linked(t, Listed(t))
      /\ \A p \in Pairs : t.wstate[p] # "free" => t.subscribed[p]
  BY DEF Good
<1>2. /\ u \in Trees
      /\ u.tail = v.tail /\ u.next = v.next /\ u.prev = v.prev
      /\ u.subscribed = [t.subscribed EXCEPT ![<<i, x>>] = FALSE]
      /\ u.wstate = [t.wstate EXCEPT ![<<i, x>>] = "free"]
      /\ u.known = [t.known EXCEPT ![<<i, x>>] = FALSE]
  BY <1>1, UnsubscribeFields
<1>3. /\ t.subscribed \in [Pairs -> BOOLEAN]
      /\ t.wstate \in [Pairs -> {"free", "new", "set", "tosend"}]
      /\ t.known \in [Pairs -> BOOLEAN]
  BY <1>1, TreeFields
<1>4. Linked(v, L) /\ \A r \in Items \cup {NULL} : \A K \in SUBSET L :
                         Covers(t, r, K) => Covers(v, r, K)
  <2>1. CASE Subscribers(t, i) = {x}
    <3>1. i \in Listed(t)
      BY <2>1 DEF Listed
    <3> QED BY <1>1, <2>1, <3>1, RemoveLinked, RemoveCovers DEF Listed
  <2>2. CASE Subscribers(t, i) # {x}
    BY <1>1, <2>2
  <2> QED BY <2>1, <2>2
<1> HIDE DEF u, v
<1>5. /\ ~ u.subscribed[<<i, x>>] /\ u.wstate[<<i, x>>] = "free"
      /\ \A p \in Pairs : p # <<i, x>> => /\ u.subscribed[p] = t.subscribed[p]
                                          /\ u.wstate[p] = t.wstate[p]
                                          /\ u.known[p] = t.known[p]
  BY <1>2, <1>3 DEF Pairs
<1>6. Listed(u) = L
  <2>1. ASSUME NEW j \in Items, j # i PROVE Subscribers(u, j) = Subscribers(t, j)
    BY <1>5, <2>1 DEF Subscribers, Pairs
  <2>2. Subscribers(u, i) = Subscribers(t, i) \ {x}
    BY <1>5 DEF Subscribers, Pairs
  <2> QED BY <2>1, <2>2 DEF Listed
<1>7. Linked(u, L) /\ \A r \in Items \cup {NULL} : \A K \in SUBSET L :
                         Covers(t, r, K) => Covers(u, r, K)
  BY <1>2, <1>4, SameLinks
<1>8. \A p \in Pairs : u.wstate[p] # "free" => u.subscribed[p]
  BY <1>1, <1>5
<1>9. Good(u)
  BY <1>2, <1>6, <1>7, <1>8 DEF Good
<1>10. Lessened(t, u, x)
  <2>1. CoversKept(t, u)
    BY <1>6, <1>7 DEF CoversKept
  <2>2. ASSUME NEW p \in Pairs
        PROVE  /\ u.subscribed[p] => /\ t.subscribed[p]
                                     /\ u.wstate[p] = t.wstate[p]
                                     /\ u.known[p] = t.known[p]
               /\ p[2] # x => u.subscribed[p] = t.subscribed[p]
    BY <1>5 DEF Pairs
  <2> QED BY <2>1, <2>2 DEF Lessened
<1> QED BY <1>5, <1>9, <1>10 DEF u

LEMMA LessenedTwice ==
    ASSUME NEW t, NEW u, NEW w, NEW x, Lessened(t, u, x), Lessened(u, w, x)
    PROVE  Lessened(t, w, x)
<1>1. Listed(w) \subseteq Listed(u) /\ Listed(u) \subseteq Listed(t)
  BY DEF Lessened, Listed, Subscribers, Pairs
<1>2. CoversKept(t, w)
  BY <1>1 DEF Lessened, CoversKept
<1>3. ASSUME NEW p \in Pairs
      PROVE  /\ w.subscribed[p] => /\ t.subscribed[p]
                                   /\ w.wstate[p] = t.wstate[p]
                                   /\ w.known[p] = t.known[p]
             /\ p[2] # x => w.subscribed[p] = t.subscribed[p]
  BY DEF Lessened
<1> QED BY <1>2, <1>3 DEF Lessened

\* So does subscribing.
LEMMA SubscribeRight ==
    ASSUME NEW t, Good(t), NEW i \in Items, NEW x \in Indexes, ~ t.subscribed[<<i, x>>]
    PROVE  LET u == Subscribe(t, i, x)
           IN /\ Good(u) /\ CoversKept(t, u)
              /\ u.subscribed[<<i, x>>] /\ u.wstate[<<i, x>>] = "new"
              /\ \A p \in Pairs : p # <<i, x>> => /\ u.subscribed[p] = t.subscribed[p]
                                                  /\ u.wstate[p] = t.wstate[p]
                                                  /\ u.known[p] = t.known[p]
<1> DEFINE u == Subscribe(t, i, x)
           v == IF Subscribers(t, i) = {} THEN AppendToList(t, i) ELSE t
           L == IF Subscribers(t, i) = {} THEN Listed(t) \cup {i} ELSE Listed(t)
<1>1. /\ t \in Trees /\ Linked(t, Listed(t))
      /\ \A p \in Pairs : t.wstate[p] # "free" => t.subscribed[p]
  BY DEF Good
<1>2. /\ u \in Trees
      /\ u.tail = v.tail /\ u.next = v.next /\ u.prev = v.prev
      /\ u.subscribed = [t.subscribed EXCEPT ![<<i, x>>] = TRUE]
      /\ u.wstate = [t.wstate EXCEPT ![<<i, x>>] = "new"]
      /\ u.known = t.known
  BY <1>1, SubscribeFields
<1>3. /\ t.subscribed \in [Pairs -> BOOLEAN]
      /\ t.wstate \in [Pairs -> {"free", "new", "set", "tosend"}]
      /\ t.known \in [Pairs -> BOOLEAN]
  BY <1>1, TreeFields
<1>4. Linked(v, L) /\ \A r \in Items \cup {NULL} : \A K \in SUBSET Listed(t) :
                         Covers(t, r, K) => Covers(v, r, K)
  <2>1. CASE Subscribers(t, i) = {}
    <3>1. i \in Items \ Listed(t)
      BY <2>1 DEF Listed
    <3> QED BY <1>1, <2>1, <3>1, AppendLinked, AppendCovers DEF Listed
  <2>2. CASE Subscribers(t, i) # {}
    BY <1>1, <2>2
  <2> QED BY <2>1, <2>2
<1> HIDE DEF u, v
<1>5. /\ u.subscribed[<<i, x>>] /\ u.wstate[<<i, x>>] = "new"
      /\ \A p \in Pairs : p # <<i, x>> => /\ u.subscribed[p] = t.subscribed[p]
                                          /\ u.wstate[p] = t.wstate[p]
                                          /\ u.known[p] = t.known[p]
  BY <1>2, <1>3 DEF Pairs
<1>6. Listed(u) = L
  <2>1. ASSUME NEW j \in Items, j # i PROVE Subscribers(u, j) = Subscribers(t, j)
    BY <1>5, <2>1 DEF Subscribers, Pairs
  <2>2. Subscribers(u, i) = Subscribers(t, i) \cup {x}
    BY <1>5 DEF Subscribers, Pairs
  <2> QED BY <2>1, <2>2 DEF Listed
<1>7. Linked(u, L) /\ CoversKept(t, u)
  BY <1>2, <1>4, SameLinks DEF CoversKept
<1>8. \A p \in Pairs : u.wstate[p] # "free" => u.subscribed[p]
  BY <1>1, <1>5
<1>9. Good(u)
  BY <1>2, <1>6, <1>7, <1>8 DEF Good
<1> QED BY <1>5, <1>7, <1>9 DEF u

----------------------------------------------------------------------------
\* Induction on numbers, from the least of a set of them.
Less == {ss \in Nat \X Nat : ss[1] < ss[2]}

LEMMA LeastNumber ==
    ASSUME NEW S \in SUBSET Nat, S # {}
    PROVE  \E m \in S : \A n \in S : m <= n
<1>1. OpToRel(<, Nat) = Less
  BY DEF OpToRel, Less
<1>2. IsWellFoundedOn(Less, Nat)
  BY <1>1, NatLessThanWellFounded
<1>3. \E m \in S : \A n \in S : ~ (<<n, m>> \in Less)
  BY <1>2, WFMin
<1>4. PICK m \in S : \A n \in S : ~ (<<n, m>> \in Less)
  BY <1>3
<1>5. ASSUME NEW n \in S PROVE m <= n
  <2>1. ~ (<<n, m>> \in Less) /\ m \in Nat /\ n \in Nat
    BY <1>4, <1>5
  <2>2. <<n, m>> \in Nat \X Nat /\ <<n, m>>[1] = n /\ <<n, m>>[2] = m
    BY <2>1
  <2>3. ~ (n < m)
    BY <2>1, <2>2 DEF Less
  <2> QED BY <2>1, <2>3
<1> QED BY <1>5

LEMMA Induct ==
    ASSUME NEW S, 0 \in S, \A n \in Nat : n \in S => n + 1 \in S
    PROVE  Nat \subseteq S
<1> SUFFICES ASSUME Nat \ S # {} PROVE FALSE
  OBVIOUS
<1>1. PICK m \in Nat \ S : \A n \in Nat \ S : m <= n
  BY LeastNumber
<1>2. m # 0 /\ m - 1 \in Nat /\ m - 1 \in S
  BY <1>1
<1> QED BY <1>1, <1>2

----------------------------------------------------------------------------
\* f is what "step" of Reset has to be up to m.
Resetting(t, chain, x, f, m) ==
    f = [k \in 0..m |-> IF k = 0 THEN t ELSE Unsubscribe(f[k - 1], chain[k], x)]

LEMMA ResetStepExists ==
    ASSUME NEW t, NEW chain, NEW x, NEW n \in Nat
    PROVE  \E f : Resetting(t, chain, x, f, n)
<1> DEFINE S == {m \in Nat : \E f : Resetting(t, chain, x, f, m)}
<1>1. 0 \in S
  <2>1. Resetting(t, chain, x, [k \in 0..0 |-> t], 0)
    BY DEF Resetting
  <2> QED BY <2>1
<1>2. ASSUME NEW m \in Nat, m \in S
      PROVE  m + 1 \in S
  <2>1. PICK f : Resetting(t, chain, x, f, m)
    BY <1>2
  <2> DEFINE last == Unsubscribe(f[m], chain[m + 1], x)
             g == [k \in 0..m + 1 |-> IF k = m + 1 THEN last ELSE f[k]]
             h == [k \in 0..m + 1 |->
                      IF k = 0 THEN t ELSE Unsubscribe(g[k - 1], chain[k], x)]
  <2>2. ASSUME NEW k \in 0..m + 1 PROVE g[k] = h[k]
    <3>1. CASE k = m + 1
      <4>1. k # 0 /\ k - 1 = m /\ m \in 0..m + 1 /\ m # m + 1
        BY <3>1
      <4>2. g[m] = f[m] /\ g[k] = last
        BY <3>1, <4>1
      <4> HIDE DEF g
      <4> QED BY <3>1, <4>1, <4>2
    <3>2. CASE k # m + 1
      <4>1. k \in 0..m /\ g[k] = f[k]
        BY <3>2
      <4>2. f[k] = IF k = 0 THEN t ELSE Unsubscribe(f[k - 1], chain[k], x)
        BY <2>1, <4>1 DEF Resetting
      <4>3. k # 0 => g[k - 1] = f[k - 1]
        BY <4>1
      <4> HIDE DEF g
      <4> QED BY <4>1, <4>2, <4>3
    <3> QED BY <3>1, <3>2
  <2>3. g = [k \in 0..m + 1 |-> g[k]] /\ h = [k \in 0..m + 1 |-> h[k]]
    OBVIOUS
  <2>4. g = h
    <3> HIDE DEF g, h
    <3> QED BY <2>2, <2>3
  <2>5. Resetting(t, chain, x, g, m + 1)
    <3> HIDE DEF g
    <3> QED BY <2>4 DEF Resetting
  <2> QED BY <2>5
<1>3. Nat \subseteq S
  <2> HIDE DEF S
  <2> QED BY <1>1, <1>2, Induct
<1> QED BY <1>3

\* svghmi_reset() keeps the list right, and unsubscribes x from all that it walks through.
LEMMA ResetRight ==
    ASSUME NEW t, Good(t), NEW i \in Items \cup {NULL}, NEW x \in Indexes
    PROVE  LET u == Reset(t, i, x)
           IN /\ Good(u) /\ Lessened(t, u, x)
              /\ \A j \in ToSet(Chain(t, i)) : ~ u.subscribed[<<j, x>>]
<1> DEFINE chain == Chain(t, i)
           n == Len(chain)
           step == CHOOSE f : Resetting(t, chain, x, f, n)
<1>1. chain \in Seq(Items) /\ n \in Nat /\ DOMAIN chain = 1..n
  <2>1. chain \in Seq(Items)
    BY ChainWalked DEF Good, Linked, Walked
  <2> QED BY <2>1
<1>2. Resetting(t, chain, x, step, n)
  <2> HIDE DEF chain
  <2> QED BY <1>1, ResetStepExists
<1>3. Reset(t, i, x) = step[n]
  BY Zenon DEF Reset, Resetting
<1> HIDE DEF step
<1>4. \A k \in 0..n : step[k] = IF k = 0 THEN t ELSE Unsubscribe(step[k - 1], chain[k], x)
  <2> HIDE DEF chain, n
  <2> QED BY <1>2 DEF Resetting
<1> DEFINE R(k) == /\ Good(step[k]) /\ Lessened(t, step[k], x)
                   /\ \A j \in 1..k : ~ step[k].subscribed[<<chain[j], x>>]
           S == {k \in Nat : k <= n => R(k)}
<1> HIDE DEF chain, n
<1>5. 0 \in S
  <2>1. Lessened(t, t, x)
    BY DEF Lessened, CoversKept
  <2>2. step[0] = t /\ 1..0 = {}
    BY <1>1, <1>4
  <2> QED BY <2>1, <2>2
<1>6. ASSUME NEW k \in Nat, k \in S PROVE k + 1 \in S
  <2> SUFFICES ASSUME k + 1 <= n PROVE R(k + 1)
    OBVIOUS
  <2>1. R(k) /\ k + 1 \in 0..n /\ (k + 1) - 1 = k /\ k + 1 # 0 /\ k + 1 \in 1..n
    BY <1>1, <1>6
  <2>2. step[k + 1] = Unsubscribe(step[k], chain[k + 1], x)
    BY <1>4, <2>1
  <2>3. chain[k + 1] \in Items
    BY <1>1, <2>1
  <2>4. /\ Good(step[k + 1]) /\ Lessened(step[k], step[k + 1], x)
        /\ ~ step[k + 1].subscribed[<<chain[k + 1], x>>]
    BY <2>1, <2>2, <2>3, UnsubscribeRight
  <2>5. Lessened(t, step[k + 1], x)
    BY <2>1, <2>4, LessenedTwice
  <2>6. ASSUME NEW j \in 1..k + 1 PROVE ~ step[k + 1].subscribed[<<chain[j], x>>]
    <3>1. CASE j = k + 1
      BY <2>4, <3>1
    <3>2. CASE j # k + 1
      <4>1. j \in 1..k /\ j \in 1..n
        BY <1>1, <3>2
      <4>2. <<chain[j], x>> \in Pairs
        BY <1>1, <4>1 DEF Pairs
      <4> QED BY <2>1, <2>4, <4>1, <4>2 DEF Lessened
    <3> QED BY <3>1, <3>2
  <2> QED BY <2>4, <2>5, <2>6
<1>7. Nat \subseteq S
  <2> HIDE DEF S
  <2> QED BY <1>5, <1>6, Induct
<1>8. R(n)
  BY <1>1, <1>7
<1>9. \A j \in ToSet(chain) : ~ step[n].subscribed[<<j, x>>]
  BY <1>1, <1>8 DEF ToSet
<1> QED BY <1>3, <1>8, <1>9 DEF chain

\* If that is all that x is subscribed to, nothing of it is left.
LEMMA ResetClears ==
    ASSUME NEW t, Good(t), NEW i \in Items \cup {NULL}, NEW x \in Indexes,
           Covers(t, i, FollowedBy(t, x))
    PROVE  FollowedBy(Reset(t, i, x), x) = {}
<1> DEFINE u == Reset(t, i, x)
<1>1. /\ Lessened(t, u, x)
      /\ \A j \in ToSet(Chain(t, i)) : ~ u.subscribed[<<j, x>>]
  BY ResetRight
<1>2. /\ ToSet(Chain(t, i)) \in SUBSET Items
      /\ Closed(t, ToSet(Chain(t, i))) /\ i \in ToSet(Chain(t, i)) \cup {NULL}
  <2>1. Walked(t, i)
    BY ChainWalked DEF Good, Linked
  <2> DEFINE chain == Chain(t, i)
  <2>2. chain \in Seq(Items) /\ Closed(t, ToSet(chain)) /\ (i # NULL => Len(chain) > 0 /\ chain[1] = i)
    BY <2>1 DEF Walked
  <2> HIDE DEF chain
  <2>3. i # NULL => 1 \in DOMAIN chain
    BY <2>2
  <2>4. ToSet(chain) \in SUBSET Items /\ i \in ToSet(chain) \cup {NULL}
    BY <2>2, <2>3 DEF ToSet
  <2> QED BY <2>2, <2>4 DEF chain
<1>3. FollowedBy(t, x) \subseteq ToSet(Chain(t, i))
  BY <1>2 DEF Covers
<1>4. \A j \in Items : u.subscribed[<<j, x>>] => j \in FollowedBy(t, x)
  BY <1>1 DEF Lessened, FollowedBy, Pairs
<1> HIDE DEF u
<1> QED BY <1>1, <1>3, <1>4 DEF FollowedBy, u

----------------------------------------------------------------------------
\* The list and the subscriptions are the same.
Alike(t, u) == /\ u.tail = t.tail /\ u.next = t.next /\ u.prev = t.prev
               /\ u.subscribed = t.subscribed
\* A session that knows the value of an item, or is on its way to.
Heard(t) == {p \in Pairs : t.known[p] \/ t.wstate[p] # "free"}

LEMMA AlikeGood ==
    ASSUME NEW t, NEW u, Good(t), Alike(t, u), u \in Trees,
           \A p \in Pairs : u.wstate[p] # "free" => t.subscribed[p]
    PROVE  Good(u) /\ CoversKept(t, u) /\ Listed(u) = Listed(t)
<1>1. Listed(u) = Listed(t)
  BY DEF Alike, Listed, Subscribers
<1>2. Linked(u, Listed(t)) /\ \A r, K : Covers(t, r, K) => Covers(u, r, K)
  BY SameLinks DEF Alike, Good
<1> QED BY <1>1, <1>2 DEF Good, Alike, CoversKept

\* write_iterator() forgets nobody who has subscribed.
LEMMA WriteRight ==
    ASSUME NEW t, Good(t), NEW changed, NEW due
    PROVE  LET u == Write(t, changed, due)
           IN /\ Good(u) /\ CoversKept(t, u) /\ Alike(t, u)
              /\ \A p \in Heard(t) : t.subscribed[p] => p \in Heard(u)
<1> DEFINE u == Write(t, changed, due)
           sampled == Sampled(t, changed)
           state(p) == CASE p \in sampled /\ t.wstate[p] = "new" -> "tosend"
                         [] p \in sampled /\ t.wstate[p] = "free" ->
                               IF p \in due THEN "tosend" ELSE "set"
                         [] t.wstate[p] = "set" /\ p \in due -> "tosend"
                         [] OTHER -> t.wstate[p]
           rewritten == {p[1] : p \in sampled} \cap changed
<1>1. /\ t \in Trees /\ Linked(t, Listed(t))
      /\ \A p \in Pairs : t.wstate[p] # "free" => t.subscribed[p]
  BY DEF Good
<1>2. /\ t.subscribed \in [Pairs -> BOOLEAN]
      /\ t.wstate \in [Pairs -> {"free", "new", "set", "tosend"}]
      /\ t.known \in [Pairs -> BOOLEAN]
  BY <1>1, TreeFields
<1>3. /\ u \in Trees /\ Alike(t, u)
      /\ u.wstate = [p \in Pairs |-> state(p)]
      /\ u.known = [p \in Pairs |-> t.known[p] /\ p[1] \notin rewritten]
  BY <1>1 DEF Write, Trees, Alike
<1>4. ToSet(Chain(t, t.tail)) = Listed(t)
  BY <1>1, ListIsRight
<1>5. \A p \in Pairs : p \in sampled <=> /\ p[1] \in Listed(t)
                                         /\ \/ t.wstate[p] = "new"
                                            \/ t.subscribed[p] /\ p[1] \in changed
  BY <1>4 DEF Sampled
<1>6. \A p \in Pairs : t.subscribed[p] => p[1] \in Listed(t)
  BY DEF Listed, Subscribers, Pairs
<1> HIDE DEF u
<1>7. ASSUME NEW p \in Pairs, u.wstate[p] # "free"
      PROVE  t.subscribed[p]
  <2>1. u.wstate[p] = state(p)
    BY <1>3
  <2>2. t.wstate[p] # "free" \/ p \in sampled
    BY <1>7, <2>1
  <2> QED BY <1>1, <1>5, <2>2
<1>8. ASSUME NEW p \in Heard(t), t.subscribed[p]
      PROVE  p \in Heard(u)
  <2>1. p \in Pairs /\ (t.known[p] \/ t.wstate[p] # "free")
    BY DEF Heard
  <2>2. u.wstate[p] = state(p) /\ u.known[p] = (t.known[p] /\ p[1] \notin rewritten)
    BY <1>3, <2>1, Zenon
  <2>3. CASE p \in sampled \/ t.wstate[p] # "free"
    <3>1. state(p) # "free"
      BY <2>1, <2>3, <1>2
    <3> QED BY <2>1, <2>2, <3>1 DEF Heard
  <2>4. CASE p \notin sampled /\ t.wstate[p] = "free"
    <3>1. p[1] \notin changed
      BY <1>5, <1>6, <1>8, <2>1, <2>4
    <3> QED BY <2>1, <2>2, <2>4, <3>1 DEF Heard
  <2> QED BY <2>3, <2>4
<1>9. Good(u) /\ CoversKept(t, u)
  BY <1>3, <1>7, AlikeGood
<1> QED BY <1>3, <1>8, <1>9 DEF u

\* send_iterator() leaves nothing to be sent to the session it sends to.
LEMMA SendRight ==
    ASSUME NEW t, Good(t), NEW x
    PROVE  LET u == SendTo(t, x)
           IN /\ Good(u) /\ CoversKept(t, u) /\ Alike(t, u)
              /\ \A p \in Heard(t) : p \in Heard(u)
              /\ \A p \in Pairs : u.wstate[p] = "tosend" => t.wstate[p] = "tosend" /\ p[2] # x
<1> DEFINE u == SendTo(t, x)
           sent(p) == p[2] = x /\ p[1] \in Listed(t) /\ t.wstate[p] = "tosend"
<1>1. /\ t \in Trees /\ Linked(t, Listed(t))
      /\ \A p \in Pairs : t.wstate[p] # "free" => t.subscribed[p]
  BY DEF Good
<1>2. /\ t.wstate \in [Pairs -> {"free", "new", "set", "tosend"}]
      /\ t.known \in [Pairs -> BOOLEAN]
  BY <1>1, TreeFields
<1>3. ToSet(Chain(t, t.tail)) = Listed(t)
  BY <1>1, ListIsRight
<1>4. /\ u \in Trees /\ Alike(t, u)
      /\ u.wstate = [p \in Pairs |-> IF sent(p) THEN "free" ELSE t.wstate[p]]
      /\ u.known = [p \in Pairs |-> t.known[p] \/ sent(p)]
  BY <1>1, <1>3 DEF SendTo, Trees, Alike
<1>5. \A p \in Pairs : t.subscribed[p] => p[1] \in Listed(t)
  BY DEF Listed, Subscribers, Pairs
<1> HIDE DEF u
<1>6. \A p \in Pairs : /\ u.wstate[p] = IF sent(p) THEN "free" ELSE t.wstate[p]
                       /\ u.known[p] = (t.known[p] \/ sent(p))
  BY <1>4
<1>7. \A p \in Pairs : u.wstate[p] # "free" => t.subscribed[p]
  BY <1>1, <1>6
<1>8. \A p \in Heard(t) : p \in Heard(u)
  BY <1>6 DEF Heard
<1>9. \A p \in Pairs : u.wstate[p] = "tosend" => t.wstate[p] = "tosend" /\ p[2] # x
  BY <1>1, <1>5, <1>6
<1>10. Good(u) /\ CoversKept(t, u)
  BY <1>4, <1>7, AlikeGood
<1> QED BY <1>4, <1>8, <1>9, <1>10 DEF u

----------------------------------------------------------------------------
\* register() has ended a session, and has yet to enter the one that replaces it.
Replacing == reactor = "replace" \/ (reactor \in {"tail", "spin"} /\ rthen = "replace")
Opened == {c \in Connections : conn[c] # "closed"}
\* One connection is about to be a session.
Entering == IF reactor = "register" \/ Replacing THEN 1 ELSE 0

\* Who holds the lock of the session manager.
Locks ==
    /\ mgr = "send" <=> send \in {"next", "grab", "collect"}
    /\ mgr = "python" <=> python \in {"close", "tail", "spin"}
    /\ mgr = "reactor" <=> Replacing
    /\ mgr # "plc"
    /\ python \in {"off", "start"} => send = "off"

\* Sessions are of connections that are not closed, or being closed; what is served or to
\* be closed, under the lock, is a session.
Roles ==
    /\ reactor \in {"register", "unregister"} \/ Replacing => rconn \in Connections
    /\ reactor = "register" \/ Replacing => rconn \notin Sessions /\ conn[rconn] # "closed"
    /\ Replacing => watchdog_session = NULL
    /\ reactor = "unregister" => conn[rconn] = "closed"
    /\ Sessions \subseteq Opened \cup (IF reactor = "unregister" THEN {rconn} ELSE {})
    /\ watchdog_session \notin multiclient_sessions
    /\ serving # NULL => mgr = "send" /\ serving \in Sessions
    /\ send \in {"grab", "collect"} => serving # NULL
    /\ mgr = "send" => left \subseteq Sessions
    /\ mgr = "python" => closing \subseteq Sessions

\* The count of sessions is bounded by that of connections, and so are the indexes.
Counted ==
    /\ IsFiniteSet(Opened)
    /\ \A c, d \in Sessions : c # d => session_index[c] # session_index[d]
    /\ indexes = {session_index[c] : c \in Sessions}
    /\ session_count = Cardinality(Sessions) - replaced + (IF Replacing THEN 1 ELSE 0)
    /\ Cardinality(Sessions) + Entering <= MAX_CONNECTIONS
    /\ Cardinality(Sessions) + replaced + Entering <= opens
    /\ python \in {"tail", "spin"} => pindex \notin indexes

\* A reset that has taken the tail, and waits for the lock, will meet all that its session
\* is subscribed to, whatever others do to the list meanwhile.
Cover ==
    /\ reactor = "spin" => Covers(tree, rfrom, FollowedBy(tree, rindex))
    /\ python = "spin" => pindex \in late \/ Covers(tree, pfrom, FollowedBy(tree, pindex))

\* The send thread missed a signal, or one is about to come.
Coming == lost \/ plc = "signal" \/ worker \in {"cleanup", "signal"}
\* There is nothing to be sent.
Quiet == \A p \in Pairs : p[2] \in indexes \ late => tree.wstate[p] # "tosend"
\* The sessions that the send thread has not served yet.
Unserved == left \cup (IF send = "next" THEN {} ELSE {serving})

\* What makes WakeUpHeard inductive: the same, at each step of the send thread.
Wake ==
    /\ continue => plc # "off" \/ worker = "cleanup"
    /\ send \in {"towait", "wait"} => Coming \/ (plc # "off" /\ Quiet)
    /\ send = "test" \/ python = "start" => ~continue \/ Coming \/ (plc # "off" /\ Quiet)
    /\ send \in {"next", "grab", "collect"} =>
          \/ ~continue \/ Coming
          \/ /\ plc # "off"
             /\ \A p \in Pairs : p[2] \in indexes \ late /\ tree.wstate[p] = "tosend" =>
                   \E c \in Unserved : session_index[c] = p[2]

IInv == /\ TypeOK /\ Good(tree) /\ Locks /\ Roles /\ Counted /\ Cover /\ Wake
        /\ NotForgotten /\ SubscribersKnown

----------------------------------------------------------------------------
\* Steps keep the list right.
LEMMA GoodStep ==
    ASSUME TypeOK, Good(tree), [Next]_vars
    PROVE  Good(tree)'
<1> USE DEF vars, treeVars, sendVars, pythonVars, reactorVars, connVars, mgrVars, bounds
<1>1. CASE StartPLC
  <2>1. PICK same \in SUBSET Items :
           tree' = [tree EXCEPT !.known = [p \in Pairs |-> @[p] /\ p[1] \in same]]
    BY <1>1 DEF StartPLC
  <2>2. tree' \in Trees /\ Alike(tree, tree') /\ tree'.wstate = tree.wstate
    BY <2>1 DEF Good, Trees, Alike
  <2>3. \A p \in Pairs : tree'.wstate[p] # "free" => tree.subscribed[p]
    BY <2>2 DEF Good
  <2> QED BY <2>2, <2>3, AlikeGood
<1>2. CASE PlcStep
  BY <1>2, WriteRight DEF PlcStep, PublishLock, PublishSome, PublishWrite, PublishSignal
<1>3. CASE SendStep
  BY <1>3, SendRight DEF SendStep, SendTest, SendWait, SendLock, SendNext, SendDone,
                         SendGrab, SendCollect
<1>4. CASE ReactorStep
  BY <1>4, ResetRight DEF TypeOK, ReactorStep, Register, Replace, ResetTail, ResetWalk, Unregister
<1>5. ASSUME NEW c \in Connections, Open(c) \/ Close(c) PROVE Good(tree)'
  BY <1>5 DEF Open, Close
<1>6. ASSUME NEW c \in Connections, Message(c) PROVE Good(tree)'
  <2>1. session_index[c] \in Indexes /\ tree.tail \in Items \cup {NULL}
    BY TreeFields DEF TypeOK
  <2>2. ASSUME NEW i \in Items, tree' = Subscribe(tree, i, session_index[c]) PROVE Good(tree)'
    <3>1. CASE tree.subscribed[<<i, session_index[c]>>]
      BY <2>2, <3>1 DEF Subscribe
    <3>2. CASE ~ tree.subscribed[<<i, session_index[c]>>]
      BY <2>1, <2>2, <3>2, SubscribeRight
    <3> QED BY <3>1, <3>2
  <2>3. ASSUME NEW i \in Items, tree' = Unsubscribe(tree, i, session_index[c]) PROVE Good(tree)'
    BY <2>1, <2>3, UnsubscribeRight
  <2>4. ASSUME tree' = Reset(tree, tree.tail, session_index[c]) PROVE Good(tree)'
    BY <2>1, <2>4, ResetRight
  <2> QED BY <1>6, <2>2, <2>3, <2>4 DEF Message
<1>7. CASE StopPLC \/ WorkerStep
  BY <1>7 DEF StopPLC, WorkerStep, CleanupFlag, CleanupSignal
<1>8. CASE PythonStep
  BY <1>8, ResetRight DEF TypeOK, PythonStep, SvghmiStart, StopListening, CloseAll, CloseNext,
                          CloseTail, CloseWalk, CloseDone, Join
<1>9. CASE UNCHANGED vars
  BY <1>9
<1> QED BY <1>1, <1>2, <1>3, <1>4, <1>5, <1>6, <1>7, <1>8, <1>9 DEF Next, Client

LEMMA InitIInv == Init => IInv
<1> SUFFICES ASSUME Init PROVE IInv
  OBVIOUS
<1>1. Good(InitTree)
  <2>1. /\ InitTree \in Trees
        /\ InitTree.tail = NULL
        /\ \A i \in Items : InitTree.prev[i] = NULL
        /\ \A p \in Pairs : ~ InitTree.subscribed[p] /\ InitTree.wstate[p] = "free"
    BY DEF InitTree, Trees
  <2>2. Listed(InitTree) = {}
    BY <2>1 DEF Listed, Subscribers, Pairs
  <2>3. Acyclic(InitTree)
    BY <2>1, HMITreeAssumption DEF Acyclic
  <2>4. Linked(InitTree, {})
    BY <2>1, <2>3 DEF Linked, Ends, Covers
  <2> QED BY <2>1, <2>2, <2>4 DEF Good
<1>2. /\ Sessions = {} /\ Opened = {} /\ Cardinality(Sessions) = 0
      /\ IsFiniteSet(Opened)
  BY FS_EmptySet DEF Init, Sessions, Opened
<1>3. MAX_CONNECTIONS \in Nat /\ 0 \in Indexes
  BY SVGHMIAssumption, FS_CardinalityType DEF MAX_CONNECTIONS
<1>4. TypeOK
  <2>1. tree \in Trees
    BY <1>1 DEF Init, Good
  <2>2. continue \in BOOLEAN /\ listening \in BOOLEAN /\ lost \in BOOLEAN
    BY Zenon DEF Init
  <2> QED BY <1>3, <2>1, <2>2, SVGHMIAssumption DEF Init, TypeOK
<1>5. Locks /\ Roles
  BY <1>2 DEF Init, Locks, Roles, Replacing
<1>6. Counted
  BY <1>2, <1>3 DEF Init, Counted, Replacing, Entering
<1>7. Cover /\ Wake
  BY DEF Init, Cover, Wake
<1>8. NotForgotten /\ SubscribersKnown
  BY <1>1 DEF Init, NotForgotten, SubscribersKnown, Followed, InitTree
<1> QED BY <1>1, <1>4, <1>5, <1>6, <1>7, <1>8 DEF IInv, Init

\* Steps keep the lock with whom it is.
LEMMA LocksStep ==
    ASSUME TypeOK, Locks, Roles, [Next]_vars
    PROVE  Locks'
<1> USE DEF vars, treeVars, sendVars, pythonVars, reactorVars, connVars, mgrVars, bounds,
            Locks, Replacing
<1>1. CASE StartPLC \/ StopPLC \/ WorkerStep
  BY <1>1 DEF StartPLC, StopPLC, WorkerStep, CleanupFlag, CleanupSignal, Signal
<1>2. CASE PlcStep
  BY <1>2 DEF PlcStep, PublishLock, PublishSome, PublishWrite, PublishSignal, Signal
<1>3. CASE SendStep
  BY <1>3 DEF SendStep, SendTest, SendWait, SendLock, SendNext, SendDone, SendGrab, SendCollect,
              Send
<1>4. CASE Register
  BY <1>4 DEF Register
<1>5. CASE Replace \/ ResetTail \/ ResetWalk \/ Unregister
  BY <1>5 DEF TypeOK, Replace, ResetTail, ResetWalk, Unregister, Reactor
<1>6. CASE Client
  BY <1>6 DEF Client, Open, Message, Close, Reactor
<1>7. CASE PythonStep
  BY <1>7 DEF PythonStep, SvghmiStart, StopListening, CloseAll, CloseNext, CloseTail, CloseWalk,
              CloseDone, Join, Python
<1>8. CASE UNCHANGED vars
  BY <1>8
<1> QED BY <1>1, <1>2, <1>3, <1>4, <1>5, <1>6, <1>7, <1>8 DEF Next, ReactorStep

----------------------------------------------------------------------------
\* The sessions, as one enters or leaves.
LEMMA EnterSessions ==
    ASSUME TypeOK, NEW c \in Connections, c \in has_watchdog => watchdog_session = NULL, Enter(c)
    PROVE  Sessions' = Sessions \cup {c}
  BY SVGHMIAssumption DEF TypeOK, Enter, Sessions

LEMMA LeaveSessions ==
    ASSUME TypeOK, watchdog_session \notin multiclient_sessions, NEW c \in Sessions, Leave(c)
    PROVE  Sessions' = Sessions \ {c}
  BY SVGHMIAssumption DEF TypeOK, Leave, Sessions

LEMMA RolesStep ==
    ASSUME TypeOK, Locks, Roles, [Next]_vars
    PROVE  Roles'
<1> USE DEF vars, treeVars, sendVars, pythonVars, reactorVars, connVars, mgrVars, bounds, Replacing
<1> DEFINE SameManager == UNCHANGED <<multiclient_sessions, watchdog_session>>
<1>0. /\ SameManager => Sessions' = Sessions
      /\ UNCHANGED conn => Opened' = Opened
  BY DEF Sessions, Opened
<1>1. CASE StartPLC \/ StopPLC \/ WorkerStep
  BY <1>0, <1>1 DEF Roles, StartPLC, StopPLC, WorkerStep, CleanupFlag, CleanupSignal, Signal
<1>2. CASE PlcStep
  BY <1>0, <1>2 DEF Roles, PlcStep, PublishLock, PublishSome, PublishWrite, PublishSignal, Signal
<1>3. CASE SendStep
  <2>1. ASSUME SendLock PROVE Roles'
    BY <1>0, <2>1 DEF Roles, SendLock, Send, Locks
  <2>2. ASSUME SendNext PROVE Roles'
    BY <1>0, <2>2, SVGHMIAssumption DEF Roles, SendNext, Send, Locks, TypeOK
  <2>3. ASSUME SendDone PROVE Roles'
    BY <1>0, <2>3 DEF Roles, SendDone, Send, Locks
  <2>4. ASSUME SendCollect PROVE Roles'
    BY <1>0, <2>4 DEF Roles, SendCollect, Send, Locks
  <2>5. ASSUME SendTest \/ SendWait \/ SendGrab PROVE Roles'
    BY <1>0, <2>5 DEF Roles, SendTest, SendWait, SendGrab, Send, Locks
  <2> QED BY <1>3, <2>1, <2>2, <2>3, <2>4, <2>5 DEF SendStep
<1>4. CASE Register
  <2>1. /\ reactor = "register" /\ reactor' = "tail" /\ mgr = "free"
        /\ UNCHANGED <<send, left, serving, rconn, python, closing>>
        /\ serving = NULL /\ send \notin {"grab", "collect"} /\ rconn \in Connections
    BY <1>4 DEF Roles, Locks, Register
  <2>2. CASE rconn \in has_watchdog /\ watchdog_session # NULL
    <3>1. /\ mgr' = "reactor" /\ Leave(watchdog_session) /\ SendClose(watchdog_session)
          /\ watchdog_session \in Sessions
      BY <1>4, <2>2 DEF Register, Sessions
    <3>2. /\ Sessions' = Sessions \ {watchdog_session} /\ watchdog_session' = NULL
          /\ watchdog_session' \notin multiclient_sessions'
      BY <3>1, LeaveSessions, SVGHMIAssumption DEF Leave, Roles, TypeOK
    <3>3. Opened' = Opened
      BY <3>1 DEF SendClose, Opened, TypeOK
    <3>4. rconn' \notin Sessions' /\ conn'[rconn'] # "closed"
      BY <2>1, <3>1, <3>2 DEF Roles, SendClose, TypeOK
    <3> QED BY <2>1, <3>1, <3>2, <3>3, <3>4 DEF Roles
  <2>3. CASE ~(rconn \in has_watchdog /\ watchdog_session # NULL)
    <3>1. UNCHANGED <<mgr, conn>> /\ Enter(rconn) /\ rthen' = "idle"
      BY <1>4, <2>3 DEF Register
    <3>2. Sessions' = Sessions \cup {rconn} /\ Opened' = Opened
      BY <2>1, <2>3, <3>1, EnterSessions DEF Opened
    <3>3. watchdog_session' \notin multiclient_sessions'
      BY <2>1, <2>3, <3>1, SVGHMIAssumption DEF Enter, Roles, Sessions, TypeOK
    <3>4. rconn \in Opened
      BY <2>1 DEF Roles, Opened
    <3> QED BY <2>1, <3>1, <3>2, <3>3, <3>4 DEF Roles
  <2> QED BY <2>2, <2>3
<1>5. CASE Replace
  <2>1. /\ reactor = "replace" /\ reactor' = "tail" /\ mgr = "reactor" /\ mgr' = "free"
        /\ UNCHANGED <<send, left, serving, rconn, python, closing, conn>>
        /\ serving = NULL /\ send \notin {"grab", "collect"} /\ rconn \in Connections
        /\ rthen' = "idle" /\ Enter(rconn) /\ watchdog_session = NULL
    BY <1>5 DEF Roles, Locks, Replace, Reactor
  <2>2. Sessions' = Sessions \cup {rconn} /\ Opened' = Opened
    BY <2>1, EnterSessions DEF Opened
  <2>3. watchdog_session' \notin multiclient_sessions'
    BY <2>1, SVGHMIAssumption DEF Enter, Roles, Sessions, TypeOK
  <2>4. rconn \in Opened
    BY <2>1 DEF Roles, Opened
  <2> QED BY <2>1, <2>2, <2>3, <2>4 DEF Roles
<1>6. CASE ResetTail \/ ResetWalk
  BY <1>0, <1>6 DEF TypeOK, Roles, ResetTail, ResetWalk, Reactor
<1>7. CASE Unregister
  <2>1. /\ reactor = "unregister" /\ mgr = "free"
        /\ UNCHANGED <<send, left, serving, python, closing, conn, mgr>>
        /\ serving = NULL /\ send \notin {"grab", "collect"} /\ Opened' = Opened
        /\ rconn \in Connections /\ rconn \notin Opened
    BY <1>0, <1>7 DEF Roles, Locks, Unregister, Opened
  <2>2. CASE rconn \in Sessions
    <3>1. reactor' = "tail" /\ Leave(rconn) /\ rthen' = "idle"
      BY <1>7, <2>2 DEF Unregister
    <3>2. Sessions' = Sessions \ {rconn}
      BY <2>2, <3>1, LeaveSessions DEF Roles
    <3>3. watchdog_session' \notin multiclient_sessions'
      BY <3>1, SVGHMIAssumption DEF Leave, Roles, TypeOK
    <3> QED BY <2>1, <3>1, <3>2, <3>3 DEF Roles
  <2>3. CASE rconn \notin Sessions
    BY <1>0, <1>7, <2>1, <2>3 DEF Unregister, Roles
  <2> QED BY <2>2, <2>3
<1>8. ASSUME NEW c \in Connections, Open(c) PROVE Roles'
  <2>1. c \notin Sessions /\ Opened' = Opened \cup {c} /\ conn'[c] = "open"
    BY <1>8 DEF Open, Reactor, Roles, Opened, TypeOK
  <2> QED BY <1>0, <1>8, <2>1 DEF Open, Reactor, Roles
<1>9. ASSUME NEW c \in Connections, Message(c) PROVE Roles'
  BY <1>0, <1>9 DEF Message, Roles
<1>10. ASSUME NEW c \in Connections, Close(c) PROVE Roles'
  <2>1. Opened' = Opened \ {c} /\ conn'[c] = "closed"
    BY <1>10 DEF Close, Opened, TypeOK
  <2> QED BY <1>0, <1>10, <2>1 DEF Close, Reactor, Roles
<1>11. CASE PythonStep
  <2>1. ASSUME CloseNext PROVE Roles'
    <3>1. PICK c \in closing : /\ closing' = closing \ {c}
                               /\ Leave(c) /\ SendClose(c)
      BY <2>1 DEF CloseNext
    <3>2. /\ python = "close" /\ python' = "tail" /\ mgr = "python"
          /\ UNCHANGED <<send, left, serving, reactor, rthen, rconn, mgr>>
          /\ serving = NULL /\ send \notin {"grab", "collect"}
          /\ c \in Sessions /\ ~ Replacing
      BY <2>1, <3>1 DEF CloseNext, Python, Roles, Locks
    <3>3. Sessions' = Sessions \ {c}
      BY <3>1, <3>2, LeaveSessions DEF Roles
    <3>4. Opened' = Opened
          /\ (\A d \in Connections : conn[d] # "closed" => conn'[d] # "closed")
          /\ (\A d \in Connections : conn[d] = "closed" => conn'[d] = "closed")
      BY <3>1 DEF SendClose, Opened, TypeOK
    <3>5. watchdog_session' \notin multiclient_sessions'
      BY <3>1, SVGHMIAssumption DEF Leave, Roles, TypeOK
    <3> QED BY <3>1, <3>2, <3>3, <3>4, <3>5 DEF Roles
  <2>2. ASSUME CloseAll PROVE Roles'
    BY <1>0, <2>2 DEF Roles, Locks, CloseAll, Python
  <2>3. ASSUME CloseDone PROVE Roles'
    BY <1>0, <2>3 DEF Roles, Locks, CloseDone, Python
  <2>4. ASSUME CloseTail \/ CloseWalk PROVE Roles'
    BY <1>0, <2>4 DEF Roles, Locks, CloseTail, CloseWalk, Python
  <2>5. ASSUME SvghmiStart \/ StopListening \/ Join PROVE Roles'
    BY <1>0, <2>5 DEF Roles, Locks, SvghmiStart, StopListening, Join, Python
  <2> QED BY <1>11, <2>1, <2>2, <2>3, <2>4, <2>5 DEF PythonStep
<1>12. CASE UNCHANGED vars
  BY <1>0, <1>12 DEF Roles
<1> QED BY <1>1, <1>2, <1>3, <1>4, <1>5, <1>6, <1>7, <1>8, <1>9, <1>10, <1>11, <1>12
        DEF Next, ReactorStep, Client

LEMMA SessionsFinite ==
    ASSUME TypeOK, Roles, Counted
    PROVE  /\ IsFiniteSet(Sessions) /\ Cardinality(Sessions) \in Nat
           /\ MAX_CONNECTIONS \in Nat
           /\ reactor = "idle" => Cardinality(Sessions) <= Cardinality(Opened)
<1>1. IsFiniteSet(Opened) /\ Cardinality(Opened) \in Nat
  BY FS_CardinalityType DEF Counted
<1>2. IsFiniteSet(Opened \cup {rconn})
  BY <1>1, FS_AddElement
<1>3. Sessions \subseteq Opened \cup {rconn}
  BY DEF Roles
<1>4. IsFiniteSet(Sessions)
  BY <1>2, <1>3, FS_Subset
<1>5. reactor = "idle" => Cardinality(Sessions) <= Cardinality(Opened)
  <2> SUFFICES ASSUME reactor = "idle" PROVE Cardinality(Sessions) <= Cardinality(Opened)
    OBVIOUS
  <2>1. Sessions \in SUBSET Opened
    BY DEF Roles
  <2> QED BY <1>1, <2>1, FS_Subset
<1> QED BY <1>4, <1>5, FS_CardinalityType, SVGHMIAssumption DEF MAX_CONNECTIONS

\* As long as there are less sessions than indexes there is a lowest free one.
LEMMA NextIndexRight ==
    ASSUME TypeOK, Roles, Counted, Cardinality(Sessions) < MAX_CONNECTIONS
    PROVE  NextIndex \in Indexes \ indexes
<1>1. /\ IsFiniteSet(Sessions) /\ Cardinality(Sessions) \in Nat /\ MAX_CONNECTIONS \in Nat
  BY SessionsFinite
<1> DEFINE f == [c \in Sessions |-> session_index[c]]
<1>2. Cardinality(indexes) <= Cardinality(Sessions) /\ IsFiniteSet(indexes)
  <2>1. f \in Surjection(Sessions, indexes)
    BY DEF Counted, Surjection
  <2> QED BY <1>1, <2>1, FS_Surjection
<1>3. Indexes \ indexes # {}
  <2>1. indexes # Indexes
    BY <1>1, <1>2, FS_CardinalityType DEF MAX_CONNECTIONS
  <2> QED BY <2>1 DEF TypeOK
<1>4. Indexes = 0..MAX_CONNECTIONS - 1 /\ Indexes \ indexes \in SUBSET Nat
  <2>1. Indexes = 0..MAX_CONNECTIONS - 1
    BY SVGHMIAssumption, Zenon DEF MAX_CONNECTIONS
  <2> QED BY <1>1, <2>1
<1>5. PICK m \in Indexes \ indexes : \A n \in Indexes \ indexes : m <= n
  BY <1>3, <1>4, LeastNumber
<1> DEFINE P(x) == x \notin indexes /\ \A y \in 0..x - 1 : y \in indexes
<1>6. m \in 0..MAX_CONNECTIONS /\ P(m)
  BY <1>1, <1>4, <1>5
<1>7. NextIndex \in 0..MAX_CONNECTIONS /\ P(NextIndex)
  <2> HIDE DEF P
  <2>1. NextIndex = CHOOSE x \in 0..MAX_CONNECTIONS : P(x)
    BY Zenon DEF NextIndex, P
  <2> QED BY <1>6, <2>1
<1>8. NextIndex # MAX_CONNECTIONS
  BY <1>1, <1>4, <1>5, <1>7
<1> QED BY <1>1, <1>4, <1>7, <1>8

\* Sessions have indexes of their own, and those are the ones in use.
Apart == /\ \A c, d \in Sessions : c # d => session_index[c] # session_index[d]
         /\ indexes = {session_index[c] : c \in Sessions}

\* They have so after one enters ...
LEMMA EnterCounted ==
    ASSUME TypeOK, Roles, Counted, Cardinality(Sessions) < MAX_CONNECTIONS,
           NEW c \in Connections \ Sessions, c \in has_watchdog => watchdog_session = NULL,
           Enter(c)
    PROVE  Apart' /\ Cardinality(Sessions') = Cardinality(Sessions) + 1
<1>1. Sessions' = Sessions \cup {c}
  BY EnterSessions
<1>2. NextIndex \in Indexes \ indexes
  BY NextIndexRight
<1>3. /\ session_index'[c] = NextIndex
      /\ \A d \in Sessions : session_index'[d] = session_index[d]
      /\ indexes' = indexes \cup {NextIndex}
  BY DEF Enter, TypeOK, Sessions
<1>4. Apart'
  <2>1. \A d \in Sessions : session_index[d] \in indexes
    BY DEF Counted
  <2>2. \A d, e \in Sessions' : d # e => session_index'[d] # session_index'[e]
    BY <1>1, <1>2, <1>3, <2>1 DEF Counted
  <2>3. indexes' = {session_index'[d] : d \in Sessions'}
    BY <1>1, <1>3 DEF Counted
  <2> QED BY <2>2, <2>3 DEF Apart
<1>5. Cardinality(Sessions') = Cardinality(Sessions) + 1
  <2>1. IsFiniteSet(Sessions) /\ c \notin Sessions
    BY SessionsFinite
  <2> QED BY <1>1, <2>1, FS_AddElement
<1> QED BY <1>4, <1>5

\* ... or leaves.
LEMMA LeaveCounted ==
    ASSUME TypeOK, Roles, Counted, NEW c \in Sessions, Leave(c),
           UNCHANGED session_index
    PROVE  /\ Apart' /\ Cardinality(Sessions') = Cardinality(Sessions) - 1
           /\ session_index[c] \notin indexes'
<1>1. Sessions' = Sessions \ {c}
  BY LeaveSessions DEF Roles
<1>2. indexes' = indexes \ {session_index[c]} /\ session_index' = session_index
  BY DEF Leave
<1>3. Apart'
  <2>1. indexes' = {session_index'[d] : d \in Sessions'}
    BY <1>1, <1>2 DEF Counted
  <2> QED BY <1>1, <1>2, <2>1 DEF Counted, Apart
<1>4. Cardinality(Sessions') = Cardinality(Sessions) - 1
  <2>1. IsFiniteSet(Sessions)
    BY SessionsFinite
  <2> QED BY <1>1, <2>1, FS_RemoveElement
<1> QED BY <1>2, <1>3, <1>4

\* Steps keep the count.
LEMMA CountedStep ==
    ASSUME TypeOK, Locks, Roles, Counted, [Next]_vars
    PROVE  Counted'
<1> USE DEF vars, treeVars, sendVars, pythonVars, reactorVars, connVars, mgrVars, bounds
<1>1. /\ IsFiniteSet(Sessions) /\ Cardinality(Sessions) \in Nat /\ MAX_CONNECTIONS \in Nat
      /\ reactor = "idle" => Cardinality(Sessions) <= Cardinality(Opened)
      /\ MAX_CONNECTIONS' = MAX_CONNECTIONS
  BY SessionsFinite DEF MAX_CONNECTIONS
<1>2. /\ opens \in Nat /\ replaced \in Nat /\ session_count \in Int
      /\ session_count = Cardinality(Sessions) - replaced + (IF Replacing THEN 1 ELSE 0)
      /\ Cardinality(Sessions) + Entering <= MAX_CONNECTIONS
      /\ Cardinality(Sessions) + replaced + Entering <= opens
      /\ IsFiniteSet(Opened) /\ Apart
      /\ python \in {"tail", "spin"} => pindex \notin indexes
  BY SVGHMIAssumption DEF TypeOK, Counted, Apart
<1>3. ASSUME /\ IsFiniteSet(Opened)' /\ Apart'
             /\ session_count' = Cardinality(Sessions') - replaced'
                                    + (IF Replacing' THEN 1 ELSE 0)
             /\ Cardinality(Sessions') + Entering' <= MAX_CONNECTIONS
             /\ Cardinality(Sessions') + replaced' + Entering' <= opens'
             /\ (python \in {"tail", "spin"} => pindex \notin indexes)'
      PROVE  Counted'
  BY <1>1, <1>3 DEF Counted, Apart
\* Nobody enters or leaves.
<1>4. ASSUME /\ UNCHANGED <<multiclient_sessions, watchdog_session, session_index, indexes,
                            session_count, replaced, opens>>
             /\ Opened' = Opened /\ Replacing' = Replacing /\ Entering' = Entering
             /\ python' \in {"tail", "spin"} => python \in {"tail", "spin"} /\ pindex' = pindex
      PROVE  Counted'
  <2>1. Sessions' = Sessions /\ Apart'
    BY <1>2, <1>4 DEF Sessions, Apart
  <2> QED BY <1>2, <1>3, <1>4, <2>1
<1>5. /\ UNCHANGED conn => Opened' = Opened
      /\ UNCHANGED <<reactor, rthen>> => Replacing' = Replacing /\ Entering' = Entering
  BY DEF Opened, Replacing, Entering
<1>6. CASE StartPLC \/ StopPLC \/ WorkerStep
  BY <1>4, <1>5, <1>6 DEF StartPLC, StopPLC, WorkerStep, CleanupFlag, CleanupSignal, Signal
<1>7. CASE PlcStep
  BY <1>4, <1>5, <1>7 DEF PlcStep, PublishLock, PublishSome, PublishWrite, PublishSignal, Signal
<1>8. CASE SendStep
  BY <1>4, <1>5, <1>8 DEF SendStep, SendTest, SendWait, SendLock, SendNext, SendDone, SendGrab,
                          SendCollect, Send
<1>9. CASE Register
  <2>1. /\ reactor = "register" /\ reactor' = "tail" /\ mgr = "free"
        /\ python \notin {"tail", "spin"} /\ python' = python /\ opens' = opens
        /\ session_index[rconn] \in Indexes /\ Entering = 1 /\ ~ Replacing
        /\ rconn \in Connections \ Sessions
    BY <1>9 DEF Register, Locks, Roles, TypeOK, Entering, Replacing
  <2>2. CASE rconn \in has_watchdog /\ watchdog_session # NULL
    <3>1. /\ rthen' = "replace" /\ replaced' = replaced + 1 /\ session_index' = session_index
          /\ Leave(watchdog_session) /\ SendClose(watchdog_session)
          /\ watchdog_session \in Sessions
      BY <1>9, <2>2 DEF Register, Sessions
    <3>2. Apart' /\ Cardinality(Sessions') = Cardinality(Sessions) - 1
      BY <3>1, LeaveCounted
    <3>3. Opened' = Opened
      BY <3>1 DEF SendClose, Opened, TypeOK
    <3>4. session_count' = session_count - 1
      BY <3>1 DEF Leave
    <3>5. Replacing' /\ Entering' = 1
      BY <2>1, <3>1 DEF Replacing, Entering
    <3> QED BY <1>1, <1>2, <1>3, <2>1, <3>1, <3>2, <3>3, <3>4, <3>5
  <2>3. CASE ~(rconn \in has_watchdog /\ watchdog_session # NULL)
    <3>1. /\ rthen' = "idle" /\ UNCHANGED <<replaced, conn>> /\ Enter(rconn)
          /\ session_count' = session_count + 1
      BY <1>9, <2>3 DEF Register
    <3>2. Cardinality(Sessions) < MAX_CONNECTIONS
      BY <1>1, <1>2, <2>1
    <3>3. Apart' /\ Cardinality(Sessions') = Cardinality(Sessions) + 1
      BY <2>1, <2>3, <3>1, <3>2, EnterCounted
    <3>4. ~ Replacing' /\ Entering' = 0
      BY <2>1, <3>1 DEF Replacing, Entering
    <3> QED BY <1>1, <1>2, <1>3, <1>5, <2>1, <3>1, <3>3, <3>4
  <2> QED BY <2>2, <2>3
<1>10. CASE Replace
  <2>1. /\ reactor = "replace" /\ reactor' = "tail" /\ rthen' = "idle" /\ mgr = "reactor"
        /\ python \notin {"tail", "spin"} /\ python' = python
        /\ UNCHANGED <<opens, conn, session_count, replaced>>
        /\ Entering = 1 /\ Replacing /\ Enter(rconn)
        /\ rconn \in Connections \ Sessions /\ watchdog_session = NULL
    BY <1>10 DEF Replace, Reactor, Locks, Roles, Entering, Replacing
  <2>2. Cardinality(Sessions) < MAX_CONNECTIONS
    BY <1>1, <1>2, <2>1
  <2>3. Apart' /\ Cardinality(Sessions') = Cardinality(Sessions) + 1
    BY <2>1, <2>2, EnterCounted
  <2>4. ~ Replacing' /\ Entering' = 0
    BY <2>1 DEF Replacing, Entering
  <2> QED BY <1>1, <1>2, <1>3, <1>5, <2>1, <2>3, <2>4
<1>11. CASE ResetTail \/ ResetWalk
  <2>1. Replacing' = Replacing /\ Entering' = Entering
    BY <1>11 DEF ResetTail, ResetWalk, Reactor, Replacing, Entering, TypeOK
  <2> QED BY <1>4, <1>5, <1>11, <2>1 DEF ResetTail, ResetWalk
<1>12. CASE Unregister
  <2>1. /\ reactor = "unregister" /\ mgr = "free"
        /\ python \notin {"tail", "spin"} /\ python' = python
        /\ UNCHANGED <<opens, conn, replaced, session_index>>
        /\ Entering = 0 /\ ~ Replacing
    BY <1>12 DEF Unregister, Locks, Entering, Replacing
  <2>2. CASE rconn \in Sessions
    <3>1. reactor' = "tail" /\ rthen' = "idle" /\ Leave(rconn)
      BY <1>12, <2>2 DEF Unregister
    <3>2. Apart' /\ Cardinality(Sessions') = Cardinality(Sessions) - 1
      BY <2>1, <2>2, <3>1, LeaveCounted
    <3>3. session_count' = session_count - 1
      BY <3>1 DEF Leave
    <3>4. ~ Replacing' /\ Entering' = 0
      BY <3>1 DEF Replacing, Entering
    <3> QED BY <1>1, <1>2, <1>3, <1>5, <2>1, <3>2, <3>3, <3>4
  <2>3. CASE rconn \notin Sessions
    <3>1. /\ reactor' = "idle"
          /\ UNCHANGED <<multiclient_sessions, watchdog_session, session_count, indexes>>
      BY <1>12, <2>3 DEF Unregister
    <3>2. Replacing' = Replacing /\ Entering' = Entering
      BY <2>1, <3>1 DEF Replacing, Entering
    <3> QED BY <1>4, <1>5, <2>1, <3>1, <3>2
  <2> QED BY <2>2, <2>3
<1>13. ASSUME NEW c \in Connections, Open(c) PROVE Counted'
  <2>1. /\ reactor = "idle" /\ reactor' = "register" /\ opens' = opens + 1
        /\ UNCHANGED <<python, pindex, session_index, multiclient_sessions, watchdog_session,
                       session_count, indexes, replaced>>
        /\ Cardinality(Opened) < MAX_CONNECTIONS
        /\ Opened' = Opened \cup {c}
    BY <1>13 DEF Open, Reactor, Opened, TypeOK
  <2>2. Sessions' = Sessions /\ Apart'
    BY <1>2, <2>1 DEF Sessions, Apart
  <2>3. IsFiniteSet(Opened') /\ Cardinality(Opened) \in Nat
    BY <1>2, <2>1, FS_AddElement, FS_CardinalityType
  <2>4. ~ Replacing /\ Entering = 0 /\ ~ Replacing' /\ Entering' = 1
    BY <2>1 DEF Replacing, Entering
  <2>5. Cardinality(Sessions') + Entering' <= MAX_CONNECTIONS
    BY <1>1, <2>1, <2>2, <2>3, <2>4
  <2> QED BY <1>1, <1>2, <1>3, <2>1, <2>2, <2>3, <2>4, <2>5
<1>14. ASSUME NEW c \in Connections, Message(c) PROVE Counted'
  BY <1>4, <1>5, <1>14 DEF Message
<1>15. ASSUME NEW c \in Connections, Close(c) PROVE Counted'
  <2>1. /\ reactor = "idle" /\ reactor' = "unregister"
        /\ UNCHANGED <<python, pindex, session_index, multiclient_sessions, watchdog_session,
                       session_count, indexes, replaced, opens>>
        /\ Opened' = Opened \ {c}
    BY <1>15 DEF Close, Reactor, Opened, TypeOK
  <2>2. Sessions' = Sessions /\ Apart'
    BY <1>2, <2>1 DEF Sessions, Apart
  <2>3. IsFiniteSet(Opened')
    BY <1>2, <2>1, FS_RemoveElement
  <2>4. ~ Replacing /\ Entering = 0 /\ ~ Replacing' /\ Entering' = 0
    BY <2>1 DEF Replacing, Entering
  <2> QED BY <1>1, <1>2, <1>3, <2>1, <2>2, <2>3, <2>4
<1>16. CASE CloseNext
  <2>1. PICK c \in closing : /\ Leave(c) /\ SendClose(c)
                             /\ pindex' = session_index[c]
    BY <1>16 DEF CloseNext
  <2>2. /\ mgr = "python" /\ c \in Sessions /\ ~ Replacing
        /\ UNCHANGED <<reactor, rthen, replaced, opens, session_index>>
    BY <1>16, <2>1 DEF CloseNext, Python, Locks, Roles
  <2>3. /\ Apart' /\ Cardinality(Sessions') = Cardinality(Sessions) - 1
        /\ pindex' \notin indexes'
    BY <2>1, <2>2, LeaveCounted
  <2>4. session_count' = session_count - 1
    BY <2>1 DEF Leave
  <2>5. Opened' = Opened
    BY <2>1 DEF SendClose, Opened, TypeOK
  <2>6. Replacing' = Replacing /\ Entering' = Entering /\ Entering \in Nat
    BY <2>2 DEF Replacing, Entering
  <2> QED BY <1>1, <1>2, <1>3, <2>2, <2>3, <2>4, <2>5, <2>6
<1>17. CASE CloseTail \/ CloseWalk
  BY <1>4, <1>5, <1>17 DEF CloseTail, CloseWalk, Python
<1>18. CASE SvghmiStart \/ StopListening \/ CloseAll \/ CloseDone \/ Join
  BY <1>4, <1>5, <1>18 DEF SvghmiStart, StopListening, CloseAll, CloseDone, Join, Python
<1>19. CASE UNCHANGED vars
  BY <1>4, <1>5, <1>19
<1> QED BY <1>6, <1>7, <1>8, <1>9, <1>10, <1>11, <1>12, <1>13, <1>14, <1>15, <1>16, <1>17,
           <1>18, <1>19 DEF Next, ReactorStep, Client, PythonStep

\* Steps keep the types.
LEMMA FlagStep ==
    ASSUME TypeOK, [Next]_vars
    PROVE  (continue \in BOOLEAN /\ listening \in BOOLEAN /\ lost \in BOOLEAN)'
<1> DEFINE Flags == continue \in BOOLEAN /\ listening \in BOOLEAN /\ lost \in BOOLEAN
<1> USE DEF mgrVars
<1>1. Flags
  BY DEF TypeOK
<1>2. CASE StartPLC
  BY <1>1, <1>2, Zenon DEF StartPLC
<1>3. CASE StopPLC \/ WorkerStep
  BY <1>1, <1>3, Zenon DEF StopPLC, WorkerStep, CleanupFlag, CleanupSignal, Signal
<1>4. CASE PlcStep
  BY <1>1, <1>4, Zenon DEF PlcStep, PublishLock, PublishSome, PublishWrite, PublishSignal, Signal
<1>5. CASE SendStep
  BY <1>1, <1>5, Zenon DEF SendStep, SendTest, SendWait, SendLock, SendNext, SendDone, SendGrab,
                           SendCollect
<1>6. CASE ReactorStep
  BY <1>1, <1>6, Zenon DEF ReactorStep, Register, Replace, ResetTail, ResetWalk, Unregister
<1>7. CASE Client
  BY <1>1, <1>7, Zenon DEF Client, Open, Message, Close
<1>8. CASE PythonStep
  BY <1>1, <1>8, Zenon DEF PythonStep, SvghmiStart, StopListening, CloseAll, CloseNext, CloseTail,
                           CloseWalk, CloseDone, Join
<1>9. CASE UNCHANGED vars
  BY <1>1, <1>9, Zenon DEF vars
<1> QED BY <1>2, <1>3, <1>4, <1>5, <1>6, <1>7, <1>8, <1>9 DEF Next

LEMMA TypeStep ==
    ASSUME TypeOK, Locks, Roles, Counted, Roles', Counted', Good(tree)', [Next]_vars
    PROVE  TypeOK'
<1> USE SVGHMIAssumption
    DEF vars, treeVars, sendVars, pythonVars, reactorVars, connVars, mgrVars, bounds
\* Of the numbers, the counts of sessions bound the rest.
<1>1. /\ opens' \in 0..MaxOpens /\ replaced' \in Nat =>
            session_count' \in (0 - MaxOpens)..MaxOpens /\ replaced' \in 0..MaxOpens
  <2> SUFFICES ASSUME opens' \in 0..MaxOpens /\ replaced' \in Nat
               PROVE  session_count' \in (0 - MaxOpens)..MaxOpens /\ replaced' \in 0..MaxOpens
    OBVIOUS
  <2>1. IsFiniteSet(Opened)' /\ Sessions' \subseteq Opened' \cup {rconn'}
    BY DEF Counted, Roles
  <2>2. IsFiniteSet(Sessions')
    <3>1. IsFiniteSet(Opened' \cup {rconn'})
      BY <2>1, FS_AddElement
    <3> QED BY <2>1, <3>1, FS_Subset
  <2>3. Cardinality(Sessions') \in Nat
    BY <2>2, FS_CardinalityType
  <2>4. /\ session_count' = Cardinality(Sessions') - replaced' + (IF Replacing' THEN 1 ELSE 0)
        /\ Cardinality(Sessions') + replaced' + Entering' <= opens'
        /\ Replacing' => Entering' = 1
        /\ Entering' \in {0, 1}
    BY DEF Counted, Entering
  <2>5. MaxOpens \in Nat /\ opens' \in Nat /\ opens' <= MaxOpens
    OBVIOUS
  <2> HIDE SVGHMIAssumption
  <2> QED BY <2>3, <2>4, <2>5
<1>2. tree' \in Trees
  BY DEF Good
<1> DEFINE Rest ==
      /\ wlock \in {"free", "plc", "send"}
      /\ plc \in {"off", "cycle", "write", "signal"}
      /\ worker \in {"idle", "cleanup", "signal", "delete"}
      /\ send \in {"off", "test", "towait", "wait", "lock", "next", "grab", "collect"}
      /\ python \in {"off", "start", "run", "lock", "close", "tail", "spin", "join"}
      /\ reactor \in {"idle", "register", "tail", "spin", "replace", "unregister"}
      /\ left \subseteq Connections /\ serving \in Connections \cup {NULL}
      /\ closing \subseteq Connections
      /\ pindex \in Indexes /\ pfrom \in Items \cup {NULL}
      /\ rconn \in Connections \cup {NULL}
      /\ rindex \in Indexes /\ rfrom \in Items \cup {NULL}
      /\ rthen \in {"idle", "replace"}
      /\ conn \in [Connections -> {"closed", "open", "closing"}]
      /\ has_watchdog \subseteq Connections
      /\ session_index \in [Connections -> Indexes]
      /\ multiclient_sessions \subseteq Connections
      /\ watchdog_session \in Connections \cup {NULL}
      /\ indexes \subseteq Indexes
      /\ mgr \in Threads \cup {"free"}
      /\ late \subseteq Indexes
      /\ replaced \in Nat /\ opens \in 0..MaxOpens /\ starts \in 0..MaxStarts
<1>3. Rest
  BY DEF TypeOK
<1>4. (continue \in BOOLEAN /\ listening \in BOOLEAN /\ lost \in BOOLEAN)'
  BY FlagStep
<1> SUFFICES Rest'
  BY <1>1, <1>2, <1>4 DEF TypeOK
<1> HIDE SVGHMIAssumption
<1>5. CASE StartPLC
  BY <1>3, <1>5, SVGHMIAssumption DEF StartPLC, Followed, Pairs
<1>6. CASE StopPLC \/ WorkerStep
  BY <1>3, <1>6 DEF StopPLC, WorkerStep, CleanupFlag, CleanupSignal, Signal
<1>7. CASE PlcStep
  <2>1. ASSUME PublishLock PROVE Rest'
    BY <1>3, <2>1 DEF PublishLock, Plc
  <2>2. ASSUME PublishSome PROVE Rest'
    BY <1>3, <2>2 DEF PublishSome, PublishWrite
  <2>3. ASSUME PublishSignal PROVE Rest'
    BY <1>3, <2>3 DEF PublishSignal, Plc, Signal
  <2> QED BY <1>7, <2>1, <2>2, <2>3 DEF PlcStep
<1>8. CASE SendStep
  <2>1. ASSUME SendLock PROVE Rest'
    BY <1>3, <2>1 DEF SendLock, Send, Sessions, Threads
  <2>2. ASSUME SendNext PROVE Rest'
    BY <1>3, <2>2 DEF SendNext, Send
  <2>3. ASSUME SendCollect PROVE Rest'
    BY <1>3, <2>3 DEF SendCollect, Send
  <2>4. ASSUME SendTest \/ SendWait \/ SendDone \/ SendGrab PROVE Rest'
    BY <1>3, <2>4 DEF SendTest, SendWait, SendDone, SendGrab, Send
  <2> QED BY <1>8, <2>1, <2>2, <2>3, <2>4 DEF SendStep
<1>9. CASE Register
  <2>1. rconn \in Connections /\ reactor = "register"
    BY <1>9 DEF Register, Roles
  <2>2. CASE rconn \in has_watchdog /\ watchdog_session # NULL
    BY <1>3, <1>9, <2>1, <2>2 DEF Register, Leave, SendClose, Threads
  <2>3. CASE ~ (rconn \in has_watchdog /\ watchdog_session # NULL)
    <3>1. Cardinality(Sessions) < MAX_CONNECTIONS
      BY <2>1, SessionsFinite DEF Counted, Entering
    <3>2. NextIndex \in Indexes
      BY <3>1, NextIndexRight
    <3> QED BY <1>3, <1>9, <2>1, <2>3, <3>2 DEF Register, Enter
  <2> QED BY <2>2, <2>3
<1>10. CASE Replace
  <2>1. rconn \in Connections /\ reactor = "replace"
    BY <1>10 DEF Replace, Reactor, Roles, Replacing
  <2>2. Cardinality(Sessions) < MAX_CONNECTIONS
    BY <2>1, SessionsFinite DEF Counted, Entering, Replacing
  <2>3. NextIndex \in Indexes
    BY <2>2, NextIndexRight
  <2> QED BY <1>3, <1>10, <2>1, <2>3 DEF Replace, Reactor, Enter, Threads
<1>11. CASE ResetTail \/ ResetWalk
  BY <1>3, <1>11, TreeFields DEF ResetTail, ResetWalk, Reactor, TypeOK
<1>12. CASE Unregister
  BY <1>3, <1>12, SVGHMIAssumption DEF Unregister, Leave, Sessions
<1>13. ASSUME NEW c \in Connections, Open(c) \/ Close(c) PROVE Rest'
  BY <1>3, <1>13, SVGHMIAssumption DEF Open, Close, Reactor
<1>14. ASSUME NEW c \in Connections, Message(c) PROVE Rest'
  BY <1>3, <1>14 DEF Message
<1>15. CASE PythonStep
  <2>1. ASSUME CloseNext PROVE Rest'
    BY <1>3, <2>1 DEF CloseNext, Python, Leave, SendClose
  <2>2. ASSUME CloseTail \/ CloseWalk PROVE Rest'
    BY <1>3, <2>2, TreeFields DEF CloseTail, CloseWalk, Python, TypeOK
  <2>3. ASSUME CloseAll \/ CloseDone PROVE Rest'
    BY <1>3, <2>3 DEF CloseAll, CloseDone, Python, Sessions, Threads
  <2>4. ASSUME SvghmiStart \/ StopListening \/ Join PROVE Rest'
    BY <1>3, <2>4 DEF SvghmiStart, StopListening, Join, Python
  <2> QED BY <1>15, <2>1, <2>2, <2>3, <2>4 DEF PythonStep
<1>16. CASE UNCHANGED vars
  BY <1>3, <1>16
<1> QED BY <1>5, <1>6, <1>7, <1>8, <1>9, <1>10, <1>11, <1>12, <1>13, <1>14, <1>15, <1>16
        DEF Next, ReactorStep, Client

----------------------------------------------------------------------------
\* No new subscription, and every walk goes on to meet the items it has to.
Shrunk(t, u) == CoversKept(t, u) /\ \A p \in Pairs : u.subscribed[p] => t.subscribed[p]
HeardKept(t, u) == \A p \in Heard(t) : u.subscribed[p] => p \in Heard(u)

LEMMA LessenedShrunk ==
    ASSUME NEW t, NEW u, NEW x, Lessened(t, u, x)
    PROVE  Shrunk(t, u) /\ HeardKept(t, u)
  BY DEF Lessened, Shrunk, HeardKept, Heard

LEMMA SameShrunk ==
    ASSUME NEW t, NEW x
    PROVE  Lessened(t, t, x) /\ Shrunk(t, t) /\ HeardKept(t, t)
  BY DEF Lessened, CoversKept, Shrunk, HeardKept

\* What a step does to the tree, but for a message or a start.
LEMMA TreeStep ==
    ASSUME TypeOK, Good(tree), [Next]_vars,
           ~ StartPLC, \A c \in Connections : ~ Message(c)
    PROVE  Shrunk(tree, tree') /\ HeardKept(tree, tree')
<1> USE DEF vars, treeVars, sendVars, pythonVars, reactorVars, connVars, mgrVars, bounds
<1> DEFINE Kept == Shrunk(tree, tree') /\ HeardKept(tree, tree')
<1>1. CASE tree' = tree
  BY <1>1, SameShrunk
<1>2. CASE PublishSome
  <2>1. PICK changed, due : tree' = Write(tree, changed, due)
    BY <1>2 DEF PublishSome, PublishWrite
  <2>2. /\ CoversKept(tree, tree') /\ Alike(tree, tree')
        /\ \A p \in Heard(tree) : tree.subscribed[p] => p \in Heard(tree')
    BY <2>1, WriteRight
  <2> QED BY <2>2 DEF Shrunk, HeardKept, Alike
<1>3. CASE SendCollect
  <2>1. /\ CoversKept(tree, tree') /\ Alike(tree, tree')
        /\ \A p \in Heard(tree) : p \in Heard(tree')
    BY <1>3, SendRight DEF SendCollect
  <2> QED BY <2>1 DEF Shrunk, HeardKept, Alike
<1>4. CASE ResetWalk \/ CloseWalk
  <2>1. PICK r \in Items \cup {NULL}, x \in Indexes : tree' = Reset(tree, r, x)
    BY <1>4 DEF TypeOK, ResetWalk, CloseWalk
  <2>2. Lessened(tree, tree', x)
    BY <2>1, ResetRight
  <2> QED BY <2>2, LessenedShrunk
<1>5. CASE StopPLC \/ WorkerStep
  BY <1>1, <1>5 DEF StopPLC, WorkerStep, CleanupFlag, CleanupSignal
<1>6. CASE PublishLock \/ PublishSignal
  BY <1>1, <1>6 DEF PublishLock, PublishSignal
<1>7. CASE SendStep
  BY <1>1, <1>3, <1>7 DEF SendStep, SendTest, SendWait, SendLock, SendNext, SendDone, SendGrab
<1>8. CASE ReactorStep
  BY <1>1, <1>4, <1>8 DEF ReactorStep, Register, Replace, ResetTail, Unregister
<1>9. ASSUME NEW c \in Connections, Open(c) \/ Close(c) PROVE Kept
  BY <1>1, <1>9 DEF Open, Close
<1>10. CASE PythonStep
  BY <1>1, <1>4, <1>10 DEF PythonStep, SvghmiStart, StopListening, CloseAll, CloseNext, CloseTail,
                           CloseDone, Join
<1>11. CASE UNCHANGED vars
  BY <1>1, <1>11
<1> QED BY <1>2, <1>5, <1>6, <1>7, <1>8, <1>9, <1>10, <1>11 DEF Next, PlcStep, Client

LEMMA StartEffect ==
    ASSUME Good(tree), StartPLC
    PROVE  Shrunk(tree, tree') /\ Alike(tree, tree') /\ tree'.wstate = tree.wstate
<1>1. PICK same \in SUBSET Items :
         tree' = [tree EXCEPT !.known = [p \in Pairs |-> @[p] /\ p[1] \in same]]
  BY DEF StartPLC
<1>2. tree' \in Trees /\ Alike(tree, tree') /\ tree'.wstate = tree.wstate
  BY <1>1 DEF Good, Trees, Alike
<1>3. \A p \in Pairs : tree'.wstate[p] # "free" => tree.subscribed[p]
  BY <1>2 DEF Good
<1>4. CoversKept(tree, tree')
  BY <1>2, <1>3, AlikeGood
<1> QED BY <1>2, <1>4 DEF Shrunk, Alike

\* What a message does to it.
NewlySubscribed(t, u, i, x) ==
    /\ CoversKept(t, u)
    /\ ~ t.subscribed[<<i, x>>] /\ u.subscribed[<<i, x>>] /\ u.wstate[<<i, x>>] = "new"
    /\ \A p \in Pairs : p # <<i, x>> => /\ u.subscribed[p] = t.subscribed[p]
                                        /\ u.wstate[p] = t.wstate[p]
                                        /\ u.known[p] = t.known[p]

LEMMA MessageEffect ==
    ASSUME TypeOK, Good(tree), NEW c \in Connections, Message(c)
    PROVE  \/ Lessened(tree, tree', session_index[c])
           \/ \E i \in Items : NewlySubscribed(tree, tree', i, session_index[c])
<1> DEFINE x == session_index[c]
<1>1. x \in Indexes /\ tree.tail \in Items \cup {NULL}
  BY TreeFields DEF TypeOK
<1>2. ASSUME NEW i \in Items, tree' = Subscribe(tree, i, x)
      PROVE  Lessened(tree, tree', x) \/ NewlySubscribed(tree, tree', i, x)
  <2>1. CASE tree.subscribed[<<i, x>>]
    <3>1. tree' = tree
      BY <1>2, <2>1 DEF Subscribe
    <3> QED BY <3>1, SameShrunk
  <2>2. CASE ~ tree.subscribed[<<i, x>>]
    <3> HIDE DEF x
    <3> QED BY <1>1, <1>2, <2>2, SubscribeRight DEF NewlySubscribed
  <2> QED BY <2>1, <2>2
<1>3. ASSUME NEW i \in Items, tree' = Unsubscribe(tree, i, x)
      PROVE  Lessened(tree, tree', x)
  BY <1>1, <1>3, UnsubscribeRight
<1>4. ASSUME tree' = Reset(tree, tree.tail, x)
      PROVE  Lessened(tree, tree', x)
  BY <1>1, <1>4, ResetRight
<1> QED BY <1>2, <1>3, <1>4 DEF Message

LEMMA StillCovers ==
    ASSUME NEW t, NEW u, CoversKept(t, u), NEW x \in Indexes,
           \A i \in Items : u.subscribed[<<i, x>>] => t.subscribed[<<i, x>>],
           NEW r \in Items \cup {NULL}, Covers(t, r, FollowedBy(t, x))
    PROVE  Covers(u, r, FollowedBy(u, x))
<1>1. FollowedBy(u, x) \subseteq FollowedBy(t, x)
  BY DEF FollowedBy
<1>2. Covers(t, r, FollowedBy(u, x))
  BY <1>1 DEF Covers
<1>3. FollowedBy(u, x) \in SUBSET (Listed(t) \cap Listed(u))
  BY DEF FollowedBy, Listed, Subscribers
<1> QED BY <1>2, <1>3 DEF CoversKept

LEMMA TailCovers ==
    ASSUME NEW t, Good(t), NEW x \in Indexes
    PROVE  Covers(t, t.tail, FollowedBy(t, x))
<1>1. FollowedBy(t, x) \subseteq Listed(t)
  BY DEF FollowedBy, Listed, Subscribers
<1> QED BY <1>1 DEF Good, Linked, Covers

\* A walk that was begun goes on to meet all it has to.
LEMMA CoverStep ==
    ASSUME TypeOK, Good(tree), Locks, Counted, Cover, [Next]_vars
    PROVE  Cover'
<1> USE DEF vars, treeVars, sendVars, pythonVars, reactorVars, connVars, mgrVars, bounds
<1>1. /\ rindex \in Indexes /\ pindex \in Indexes
      /\ rfrom \in Items \cup {NULL} /\ pfrom \in Items \cup {NULL}
  BY DEF TypeOK
<1>2. ASSUME Shrunk(tree, tree')
      PROVE  /\ reactor = "spin" => Covers(tree', rfrom, FollowedBy(tree', rindex))
             /\ python = "spin" =>
                   pindex \in late \/ Covers(tree', pfrom, FollowedBy(tree', pindex))
  BY <1>1, <1>2, StillCovers DEF Shrunk, Cover, Pairs
<1>3. CASE StartPLC
  <2>1. Shrunk(tree, tree')
    BY <1>3, StartEffect
  <2> QED BY <1>2, <1>3, <2>1 DEF StartPLC, Cover
<1>4. ASSUME NEW c \in Connections, Message(c) PROVE Cover'
  <2>1. /\ reactor' = "idle" /\ UNCHANGED <<python, pindex, pfrom>>
        /\ late' = IF c \notin Sessions THEN late \cup {session_index[c]} ELSE late
    BY <1>4 DEF Message
  <2> SUFFICES ASSUME python = "spin", pindex \notin late'
               PROVE  Covers(tree', pfrom, FollowedBy(tree', pindex))
    BY <2>1 DEF Cover
  <2>2. Covers(tree, pfrom, FollowedBy(tree, pindex)) /\ session_index[c] # pindex
    BY <2>1 DEF Cover, Counted
  <2>3. CASE Lessened(tree, tree', session_index[c])
    BY <1>1, <2>2, <2>3, LessenedShrunk, StillCovers DEF Shrunk, Pairs
  <2>4. ASSUME NEW i \in Items, NewlySubscribed(tree, tree', i, session_index[c])
        PROVE  Covers(tree', pfrom, FollowedBy(tree', pindex))
    BY <1>1, <2>2, <2>4, StillCovers DEF NewlySubscribed, Pairs
  <2> QED BY <1>4, <2>3, <2>4, MessageEffect
<1> SUFFICES ASSUME ~ StartPLC, \A c \in Connections : ~ Message(c) PROVE Cover'
  BY <1>3, <1>4
<1>5. Shrunk(tree, tree')
  BY TreeStep
<1>6. /\ reactor = "spin" => Covers(tree', rfrom, FollowedBy(tree', rindex))
      /\ python = "spin" => pindex \in late \/ Covers(tree', pfrom, FollowedBy(tree', pindex))
  BY <1>2, <1>5
<1>7. CASE ResetTail
  <2>1. /\ tree' = tree /\ rfrom' = tree.tail /\ rindex' = rindex
        /\ UNCHANGED <<python, pindex, pfrom, late>>
    BY <1>7 DEF ResetTail
  <2> QED BY <1>1, <1>6, <2>1, TailCovers DEF Cover
<1>8. CASE CloseTail
  <2>1. /\ tree' = tree /\ pfrom' = tree.tail /\ pindex' = pindex
        /\ UNCHANGED <<reactor, rindex, rfrom, late>>
    BY <1>8 DEF CloseTail
  <2> QED BY <1>1, <1>6, <2>1, TailCovers DEF Cover
\* With its subscriptions gone, an index is no longer late.
<1>9. CASE ResetWalk
  <2>1. /\ reactor = "spin" /\ reactor' = rthen /\ tree' = Reset(tree, rfrom, rindex)
        /\ late' = late \ {rindex}
        /\ UNCHANGED <<python, pindex, pfrom>>
    BY <1>9 DEF ResetWalk, Reactor
  <2>2. FollowedBy(tree', rindex) = {}
    BY <1>1, <2>1, ResetClears DEF Cover
  <2>3. pindex = rindex => Covers(tree', pfrom, FollowedBy(tree', pindex))
    BY <2>2 DEF Covers
  <2>4. reactor' # "spin"
    BY <2>1 DEF TypeOK
  <2> QED BY <1>6, <2>1, <2>3, <2>4 DEF Cover
<1>10. ASSUME /\ reactor' = "spin" => reactor = "spin" /\ UNCHANGED <<rindex, rfrom>>
              /\ python' = "spin" => python = "spin" /\ UNCHANGED <<pindex, pfrom>>
              /\ UNCHANGED late
       PROVE  Cover'
  BY <1>6, <1>10 DEF Cover
<1>11. CASE StopPLC \/ WorkerStep
  BY <1>10, <1>11 DEF StopPLC, WorkerStep, CleanupFlag, CleanupSignal
<1>12. CASE PlcStep
  BY <1>10, <1>12 DEF PlcStep, PublishLock, PublishSome, PublishWrite, PublishSignal
<1>13. CASE SendStep
  BY <1>10, <1>13 DEF SendStep, SendTest, SendWait, SendLock, SendNext, SendDone, SendGrab,
                      SendCollect
<1>14. CASE Register \/ Replace \/ Unregister
  BY <1>10, <1>14 DEF Register, Replace, Unregister, Reactor
<1>15. ASSUME NEW c \in Connections, Open(c) \/ Close(c) PROVE Cover'
  BY <1>10, <1>15 DEF Open, Close, Reactor
<1>16. CASE PythonStep
  BY <1>8, <1>10, <1>16 DEF PythonStep, SvghmiStart, StopListening, CloseAll, CloseNext,
                            CloseWalk, CloseDone, Join, Python
<1>17. CASE UNCHANGED vars
  BY <1>10, <1>17
<1> QED BY <1>7, <1>9, <1>11, <1>12, <1>13, <1>14, <1>15, <1>16, <1>17
        DEF Next, ReactorStep, Client

----------------------------------------------------------------------------
\* What the two resets that a thread makes leave behind.
LEMMA ResetWalkEffect ==
    ASSUME TypeOK, Good(tree), Cover, ResetWalk
    PROVE  /\ Shrunk(tree, tree') /\ HeardKept(tree, tree')
           /\ \A p \in Pairs : tree'.subscribed[p] => p[2] # rindex
<1>1. /\ reactor = "spin" /\ tree' = Reset(tree, rfrom, rindex)
      /\ rindex \in Indexes /\ rfrom \in Items \cup {NULL}
  BY DEF ResetWalk, Reactor, TypeOK
<1>2. FollowedBy(tree', rindex) = {}
  BY <1>1, ResetClears DEF Cover
<1>3. Lessened(tree, tree', rindex)
  BY <1>1, ResetRight
<1> QED BY <1>2, <1>3, LessenedShrunk DEF FollowedBy, Pairs

LEMMA CloseWalkEffect ==
    ASSUME TypeOK, Good(tree), Cover, CloseWalk
    PROVE  /\ Shrunk(tree, tree') /\ HeardKept(tree, tree')
           /\ pindex \in late \/ \A p \in Pairs : tree'.subscribed[p] => p[2] # pindex
<1>1. /\ python = "spin" /\ tree' = Reset(tree, pfrom, pindex)
      /\ pindex \in Indexes /\ pfrom \in Items \cup {NULL}
  BY DEF CloseWalk, Python, TypeOK
<1>2. pindex \in late \/ FollowedBy(tree', pindex) = {}
  BY <1>1, ResetClears DEF Cover
<1>3. Lessened(tree, tree', pindex)
  BY <1>1, ResetRight
<1> QED BY <1>2, <1>3, LessenedShrunk DEF FollowedBy, Pairs

\* No step forgets a session that has subscribed.
LEMMA NotForgottenStep ==
    ASSUME TypeOK, Good(tree), Cover, NotForgotten, [Next]_vars
    PROVE  NotForgotten'
<1> USE DEF vars, treeVars, sendVars, pythonVars, reactorVars, connVars, mgrVars, bounds
<1>1. \A p \in Pairs : tree.subscribed[p] => p \in Heard(tree) \/ p[2] \in late
  BY DEF NotForgotten, Followed, Heard
<1>2. SUFFICES \A p \in Pairs : tree'.subscribed[p] => p \in Heard(tree') \/ p[2] \in late'
  BY DEF NotForgotten, Followed, Heard
<1> DEFINE Kept == \A p \in Pairs : tree'.subscribed[p] => p \in Heard(tree') \/ p[2] \in late'
<1>3. ASSUME Shrunk(tree, tree'), HeardKept(tree, tree'), late \subseteq late' PROVE Kept
  BY <1>1, <1>3 DEF Shrunk, HeardKept
<1>4. CASE StartPLC
  <2>1. \A p \in Pairs : tree'.subscribed[p] => tree.subscribed[p]
    BY <1>4, StartEffect DEF Shrunk
  <2>2. late' = late \cup {p[2] : p \in Followed}
    BY <1>4 DEF StartPLC
  <2> QED BY <2>1, <2>2 DEF Followed
<1>5. ASSUME NEW c \in Connections, Message(c) PROVE Kept
  <2>1. late \subseteq late'
    BY <1>5 DEF Message
  <2>2. CASE Lessened(tree, tree', session_index[c])
    BY <1>3, <2>1, <2>2, LessenedShrunk
  <2>3. ASSUME NEW i \in Items, NewlySubscribed(tree, tree', i, session_index[c]) PROVE Kept
    BY <1>1, <2>1, <2>3 DEF NewlySubscribed, Heard
  <2> QED BY <1>5, <2>2, <2>3, MessageEffect
<1> SUFFICES ASSUME ~ StartPLC, \A c \in Connections : ~ Message(c) PROVE Kept
  BY <1>4, <1>5
<1>6. Shrunk(tree, tree') /\ HeardKept(tree, tree')
  BY TreeStep
<1>7. CASE ResetWalk
  <2>1. late' = late \ {rindex}
    BY <1>7 DEF ResetWalk
  <2>2. \A p \in Pairs : tree'.subscribed[p] => p[2] # rindex
    BY <1>7, ResetWalkEffect
  <2> QED BY <1>1, <1>6, <2>1, <2>2 DEF Shrunk, HeardKept
<1>8. CASE ~ ResetWalk
  <2>1. CASE StopPLC \/ WorkerStep
    BY <1>3, <1>6, <2>1 DEF StopPLC, WorkerStep, CleanupFlag, CleanupSignal
  <2>2. CASE PlcStep
    BY <1>3, <1>6, <2>2 DEF PlcStep, PublishLock, PublishSome, PublishWrite, PublishSignal
  <2>3. CASE SendStep
    BY <1>3, <1>6, <2>3 DEF SendStep, SendTest, SendWait, SendLock, SendNext, SendDone, SendGrab,
                            SendCollect
  <2>4. CASE Register \/ Replace \/ ResetTail \/ Unregister
    BY <1>3, <1>6, <2>4 DEF Register, Replace, ResetTail, Unregister
  <2>5. ASSUME NEW c \in Connections, Open(c) \/ Close(c) PROVE Kept
    BY <1>3, <1>6, <2>5 DEF Open, Close
  <2>6. CASE PythonStep
    BY <1>3, <1>6, <2>6 DEF PythonStep, SvghmiStart, StopListening, CloseAll, CloseNext,
                            CloseTail, CloseWalk, CloseDone, Join
  <2>7. CASE UNCHANGED vars
    BY <1>3, <1>6, <2>7
  <2> QED BY <1>8, <2>1, <2>2, <2>3, <2>4, <2>5, <2>6, <2>7 DEF Next, ReactorStep, Client
<1> QED BY <1>7, <1>8

\* No step leaves a subscription behind without a session that has its index.
LEMMA SubscribersStep ==
    ASSUME TypeOK, Good(tree), Locks, Counted, Cover, SubscribersKnown, [Next]_vars
    PROVE  SubscribersKnown'
<1> USE DEF vars, treeVars, sendVars, pythonVars, reactorVars, connVars, mgrVars, bounds
<1> DEFINE Held == indexes \cup late
                   \cup (IF reactor \in {"tail", "spin"} THEN {rindex} ELSE {})
                   \cup (IF python \in {"tail", "spin"} THEN {pindex} ELSE {})
<1>1. \A p \in Pairs : tree.subscribed[p] => p[2] \in Held
  BY DEF SubscribersKnown, Followed
<1>2. SUFFICES \A p \in Pairs : tree'.subscribed[p] => p[2] \in Held'
  BY DEF SubscribersKnown, Followed
<1> DEFINE Kept == \A p \in Pairs : tree'.subscribed[p] => p[2] \in Held'
<1>3. ASSUME Shrunk(tree, tree'), Held \subseteq Held' PROVE Kept
  BY <1>1, <1>3 DEF Shrunk
<1>4. CASE StartPLC
  <2>1. Held \subseteq Held'
    BY <1>4 DEF StartPLC
  <2> QED BY <1>3, <1>4, <2>1, StartEffect
<1>5. ASSUME NEW c \in Connections, Message(c) PROVE Kept
  <2>1. Held \subseteq Held' /\ session_index[c] \in Held'
    BY <1>5 DEF Message, Counted
  <2>2. CASE Lessened(tree, tree', session_index[c])
    BY <1>3, <2>1, <2>2, LessenedShrunk
  <2>3. ASSUME NEW i \in Items, NewlySubscribed(tree, tree', i, session_index[c]) PROVE Kept
    <3> HIDE DEF Held
    <3> QED BY <1>1, <2>1, <2>3 DEF NewlySubscribed, Pairs
  <2> QED BY <1>5, <2>2, <2>3, MessageEffect
<1> SUFFICES ASSUME ~ StartPLC, \A c \in Connections : ~ Message(c) PROVE Kept
  BY <1>4, <1>5
<1>6. Shrunk(tree, tree')
  BY TreeStep
<1>7. ASSUME Held \subseteq Held' PROVE Kept
  BY <1>3, <1>6, <1>7
<1>8. CASE ResetWalk
  <2>1. Held \ {rindex} \subseteq Held'
    BY <1>8 DEF ResetWalk, Reactor
  <2>2. \A p \in Pairs : tree'.subscribed[p] => p[2] # rindex
    BY <1>8, ResetWalkEffect
  <2> HIDE DEF Held
  <2> QED BY <1>1, <1>6, <2>1, <2>2 DEF Shrunk
<1>9. CASE CloseWalk
  <2>1. Held \ ({pindex} \ late) \subseteq Held'
    BY <1>9 DEF CloseWalk, Python
  <2>2. pindex \in late \/ \A p \in Pairs : tree'.subscribed[p] => p[2] # pindex
    BY <1>9, CloseWalkEffect
  <2> HIDE DEF Held
  <2> QED BY <1>1, <1>6, <2>1, <2>2 DEF Shrunk
<1>10. CASE StopPLC \/ WorkerStep
  BY <1>7, <1>10 DEF StopPLC, WorkerStep, CleanupFlag, CleanupSignal
<1>11. CASE PlcStep
  BY <1>7, <1>11 DEF PlcStep, PublishLock, PublishSome, PublishWrite, PublishSignal
<1>12. CASE SendStep
  BY <1>7, <1>12 DEF SendStep, SendTest, SendWait, SendLock, SendNext, SendDone, SendGrab,
                     SendCollect
<1>13. CASE Register
  <2>1. Held \subseteq Held'
    BY <1>13 DEF Register, Leave, Enter
  <2> QED BY <1>7, <2>1
<1>14. CASE Replace \/ ResetTail
  <2>1. Held \subseteq Held'
    BY <1>14 DEF Replace, ResetTail, Reactor, Enter
  <2> QED BY <1>7, <2>1
<1>15. CASE Unregister
  <2>1. Held \subseteq Held'
    BY <1>15 DEF Unregister, Leave
  <2> QED BY <1>7, <2>1
<1>16. ASSUME NEW c \in Connections, Open(c) \/ Close(c) PROVE Kept
  <2>1. Held \subseteq Held'
    BY <1>16 DEF Open, Close, Reactor
  <2> QED BY <1>7, <2>1
<1>17. CASE CloseNext
  <2>1. Held \subseteq Held'
    BY <1>17 DEF CloseNext, Leave, Python
  <2> QED BY <1>7, <2>1
<1>18. CASE SvghmiStart \/ StopListening \/ CloseAll \/ CloseTail \/ CloseDone \/ Join
  <2>1. Held \subseteq Held'
    BY <1>18 DEF SvghmiStart, StopListening, CloseAll, CloseTail, CloseDone, Join, Python
  <2> QED BY <1>7, <2>1
<1>19. CASE UNCHANGED vars
  BY <1>7, <1>19
<1> QED BY <1>8, <1>9, <1>10, <1>11, <1>12, <1>13, <1>14, <1>15, <1>16, <1>17, <1>18, <1>19
        DEF Next, ReactorStep, Client, PythonStep

----------------------------------------------------------------------------
\* What is to be sent to the sessions, but for those that subscribed late.
Waiting == {p \in Pairs : p[2] \in indexes \ late /\ tree.wstate[p] = "tosend"}

LEMMA LessenedTosend ==
    ASSUME NEW t, NEW u, NEW x, Lessened(t, u, x), Good(u)
    PROVE  \A p \in Pairs : u.wstate[p] = "tosend" => t.wstate[p] = "tosend"
  BY DEF Lessened, Good

\* A session that enters is not waited for: what is subscribed with its index was so late.
LEMMA EnterWaiting ==
    ASSUME TypeOK, Good(tree), Roles, Counted, SubscribersKnown,
           reactor \notin {"tail", "spin"}, python \notin {"tail", "spin"},
           Cardinality(Sessions) < MAX_CONNECTIONS,
           NEW c, Enter(c), UNCHANGED <<tree, late>>
    PROVE  Waiting' \subseteq Waiting
<1>1. NextIndex \notin indexes /\ indexes' = indexes \cup {NextIndex}
  BY NextIndexRight DEF Enter
<1>2. \A p \in Pairs : tree.wstate[p] = "tosend" => p[2] \in indexes \cup late
  BY DEF Good, SubscribersKnown, Followed
<1> QED BY <1>1, <1>2 DEF Waiting

\* Only the PLC thread, which wakes up the send thread next, makes more to be sent.
LEMMA WaitingStep ==
    ASSUME TypeOK, Good(tree), Good(tree)', Locks, Roles, Counted, Cover, SubscribersKnown,
           [Next]_vars
    PROVE  Waiting' \subseteq Waiting \/ plc' = "signal"
<1> USE DEF vars, treeVars, sendVars, pythonVars, reactorVars, connVars, mgrVars, bounds
<1>1. ASSUME indexes' \subseteq indexes, late \subseteq late',
             \A p \in Pairs : tree'.wstate[p] = "tosend" => tree.wstate[p] = "tosend"
      PROVE  Waiting' \subseteq Waiting
  BY <1>1 DEF Waiting
<1>2. CASE StartPLC
  <2>1. tree'.wstate = tree.wstate /\ late \subseteq late' /\ indexes' = indexes
    BY <1>2, StartEffect DEF StartPLC
  <2> QED BY <1>1, <2>1
<1>3. CASE StopPLC \/ WorkerStep
  BY <1>1, <1>3 DEF StopPLC, WorkerStep, CleanupFlag, CleanupSignal
<1>4. CASE PlcStep
  <2>1. ASSUME PublishSome PROVE Waiting' \subseteq Waiting \/ plc' = "signal"
    BY <1>1, <2>1 DEF PublishSome, PublishWrite, Dirtied
  <2> QED BY <1>1, <1>4, <2>1 DEF PlcStep, PublishLock, PublishSignal
<1>5. CASE SendStep
  <2>1. ASSUME SendCollect PROVE Waiting' \subseteq Waiting
    BY <1>1, <2>1, SendRight DEF SendCollect
  <2> QED BY <1>1, <1>5, <2>1 DEF SendStep, SendTest, SendWait, SendLock, SendNext, SendDone,
                                  SendGrab
<1>6. CASE Register
  <2>1. reactor = "register" /\ mgr = "free" /\ python \notin {"tail", "spin"}
        /\ UNCHANGED <<tree, late>>
    BY <1>6 DEF Register, Locks
  <2>2. CASE rconn \in has_watchdog /\ watchdog_session # NULL
    BY <1>1, <1>6, <2>1, <2>2 DEF Register, Leave
  <2>3. CASE ~ (rconn \in has_watchdog /\ watchdog_session # NULL)
    <3>1. Cardinality(Sessions) < MAX_CONNECTIONS /\ Enter(rconn)
      BY <1>6, <2>1, <2>3, SessionsFinite DEF Register, Counted, Entering
    <3> QED BY <2>1, <3>1, EnterWaiting
  <2> QED BY <2>2, <2>3
<1>7. CASE Replace
  <2>1. reactor = "replace" /\ mgr = "reactor" /\ python \notin {"tail", "spin"}
        /\ UNCHANGED <<tree, late>>
    BY <1>7 DEF Replace, Reactor, Locks, Replacing
  <2>2. Cardinality(Sessions) < MAX_CONNECTIONS /\ Enter(rconn)
    BY <1>7, <2>1, SessionsFinite DEF Replace, Counted, Entering, Replacing
  <2> QED BY <2>1, <2>2, EnterWaiting
<1>8. CASE ResetWalk
  <2>1. late' = late \ {rindex} /\ indexes' = indexes
    BY <1>8 DEF ResetWalk
  <2>2. /\ Lessened(tree, tree', rindex)
        /\ \A p \in Pairs : tree'.subscribed[p] => p[2] # rindex
    BY <1>8, ResetRight, ResetWalkEffect DEF ResetWalk, TypeOK
  <2>3. \A p \in Pairs : tree'.wstate[p] = "tosend" => tree.wstate[p] = "tosend" /\ p[2] # rindex
    BY <2>2, LessenedTosend DEF Good
  <2> QED BY <2>1, <2>3 DEF Waiting
<1>9. CASE ResetTail
  BY <1>1, <1>9 DEF ResetTail
<1>10. CASE Unregister
  BY <1>1, <1>10 DEF Unregister, Leave
<1>11. ASSUME NEW c \in Connections, Open(c) \/ Close(c) PROVE Waiting' \subseteq Waiting
  BY <1>1, <1>11 DEF Open, Close
<1>12. ASSUME NEW c \in Connections, Message(c) PROVE Waiting' \subseteq Waiting
  <2>1. late \subseteq late' /\ indexes' = indexes
    BY <1>12 DEF Message
  <2>2. CASE Lessened(tree, tree', session_index[c])
    BY <1>1, <2>1, <2>2, LessenedTosend
  <2>3. ASSUME NEW i \in Items, NewlySubscribed(tree, tree', i, session_index[c])
        PROVE  Waiting' \subseteq Waiting
    BY <1>1, <2>1, <2>3 DEF NewlySubscribed
  <2> QED BY <1>12, <2>2, <2>3, MessageEffect
<1>13. CASE CloseWalk
  <2>1. Lessened(tree, tree', pindex) /\ UNCHANGED <<late, indexes>>
    BY <1>13, ResetRight DEF CloseWalk, TypeOK
  <2> QED BY <1>1, <2>1, LessenedTosend
<1>14. CASE CloseNext
  BY <1>1, <1>14 DEF CloseNext, Leave
<1>15. CASE SvghmiStart \/ StopListening \/ CloseAll \/ CloseTail \/ CloseDone \/ Join
  BY <1>1, <1>15 DEF SvghmiStart, StopListening, CloseAll, CloseTail, CloseDone, Join
<1>16. CASE UNCHANGED vars
  BY <1>1, <1>16
<1> QED BY <1>2, <1>3, <1>4, <1>5, <1>6, <1>7, <1>8, <1>9, <1>10, <1>11, <1>12, <1>13, <1>14,
           <1>15, <1>16 DEF Next, ReactorStep, Client, PythonStep

\* Steps keep Wake.
LEMMA WakeStep ==
    ASSUME TypeOK, Good(tree), Good(tree)', Locks, Locks', Roles, Counted, Cover,
           SubscribersKnown, Wake, [Next]_vars
    PROVE  Wake'
<1> USE DEF vars, treeVars, sendVars, pythonVars, reactorVars, connVars, mgrVars, bounds
<1> DEFINE Served == \A p \in Waiting : \E c \in Unserved : session_index[c] = p[2]
           Running == continue => plc # "off" \/ worker = "cleanup"
           Clear(s) == \/ ~ continue \/ Coming
                       \/ plc # "off" /\ s
           WakeParts == /\ Running
                        /\ send \in {"towait", "wait"} =>
                              Coming \/ (plc # "off" /\ Waiting = {})
                        /\ send = "test" \/ python = "start" => Clear(Waiting = {})
                        /\ send \in {"next", "grab", "collect"} => Clear(Served)
<1>1. WakeParts
  <2>1. Quiet <=> Waiting = {}
    BY DEF Quiet, Waiting
  <2>2. Served <=> \A p \in Pairs : p[2] \in indexes \ late /\ tree.wstate[p] = "tosend" =>
                                       \E c \in Unserved : session_index[c] = p[2]
    BY DEF Waiting
  <2> HIDE DEF Served
  <2> QED BY <2>1, <2>2 DEF Wake
<1>2. ASSUME WakeParts' PROVE Wake'
  <2>1. (Quiet <=> Waiting = {})'
    BY DEF Quiet, Waiting
  <2>2. (Served <=> \A p \in Pairs : p[2] \in indexes \ late /\ tree.wstate[p] = "tosend" =>
                                       \E c \in Unserved : session_index[c] = p[2])'
    BY DEF Waiting
  <2> HIDE DEF Served
  <2> QED BY <1>2, <2>1, <2>2 DEF Wake
<1>3. Waiting' \subseteq Waiting \/ plc' = "signal"
  BY WaitingStep
<1> HIDE DEF Served
\* A step after which a signal is about to come is harmless.
<1>4. ASSUME Coming', Running' PROVE WakeParts'
  BY <1>4
\* So is one that is not of the send thread, and does not take a signal away.
<1>5. ASSUME UNCHANGED <<send, left, serving, continue, worker>>,
             send \in {"next", "grab", "collect"} => UNCHANGED session_index,
             plc' = plc \/ (plc = "cycle" /\ plc' = "write") \/ (plc = "write" /\ plc' = "cycle"),
             lost' = lost,
             python' = "start" => python = "start",
             Waiting' \subseteq Waiting
      PROVE  WakeParts'
  <2>1. Running' /\ (Coming => Coming') /\ (plc # "off" => plc' # "off")
    BY <1>1, <1>5 DEF Coming
  <2>2. Served /\ send \in {"next", "grab", "collect"} => Served'
    BY <1>5 DEF Served, Unserved
  <2>3. Waiting = {} => Waiting' = {}
    BY <1>5
  <2> QED BY <1>1, <1>5, <2>1, <2>2, <2>3
<1>6. CASE StartPLC
  <2>1. /\ python = "off" /\ python' = "start" /\ plc' = "cycle" /\ send' = send
        /\ late' = late \cup {p[2] : p \in Followed} /\ indexes' = indexes
    BY <1>6 DEF StartPLC
  <2>2. tree'.wstate = tree.wstate
    BY <1>6, StartEffect
  <2>3. Waiting' = {}
    BY <2>1, <2>2 DEF Waiting, Good, Followed
  <2>4. send' = "off"
    BY <2>1 DEF Locks
  <2> QED BY <1>2, <2>1, <2>3, <2>4
<1>7. CASE StopPLC
  BY <1>2, <1>4, <1>7 DEF StopPLC, Coming
<1>8. CASE WorkerStep
  <2>1. CASE CleanupFlag
    BY <1>2, <1>4, <2>1 DEF CleanupFlag, Coming
  <2>2. CASE CleanupSignal
    <3>1. /\ UNCHANGED <<continue, plc, python>> /\ worker # "cleanup"
          /\ UNCHANGED <<indexes, late, tree>>
      BY <2>2 DEF CleanupSignal
    <3>2. CASE send = "wait"
      <4>1. send' = "lock" /\ python' # "start"
        BY <2>2, <3>1, <3>2 DEF CleanupSignal, Signal, Locks
      <4> QED BY <1>1, <1>2, <3>1, <4>1
    <3>3. CASE send # "wait"
      BY <1>1, <1>2, <1>4, <2>2, <3>1, <3>3 DEF CleanupSignal, Signal, Coming
    <3> QED BY <3>2, <3>3
  <2> QED BY <1>8, <2>1, <2>2 DEF WorkerStep
<1>9. CASE PublishLock
  BY <1>2, <1>3, <1>5, <1>9 DEF PublishLock, Plc
<1>10. CASE PublishSome
  <2>1. CASE plc' = "signal"
    BY <1>1, <1>2, <1>4, <1>10, <2>1 DEF PublishSome, PublishWrite, Coming
  <2>2. CASE plc' # "signal"
    BY <1>2, <1>3, <1>5, <1>10, <2>2 DEF PublishSome, PublishWrite
  <2> QED BY <2>1, <2>2
<1>11. CASE PublishSignal
  <2>1. /\ UNCHANGED <<continue, worker, python>> /\ plc' = "cycle"
    BY <1>11 DEF PublishSignal, Plc
  <2>2. CASE send = "wait"
    <3>1. send' = "lock" /\ python' # "start"
      BY <1>11, <2>1, <2>2 DEF PublishSignal, Signal, Locks
    <3> QED BY <1>2, <2>1, <3>1
  <2>3. CASE send # "wait"
    BY <1>2, <1>4, <1>11, <2>1, <2>3 DEF PublishSignal, Signal, Coming
  <2> QED BY <2>2, <2>3
<1>12. CASE SendStep
  <2>1. /\ UNCHANGED <<continue, plc, worker, python, session_index>>
        /\ plc' = "signal" => Coming'
        /\ Running'
    BY <1>1, <1>12 DEF SendStep, SendTest, SendWait, SendLock, SendNext, SendDone, SendGrab,
                       SendCollect, Coming
  <2>2. Waiting' \subseteq Waiting \/ Coming'
    BY <1>3, <2>1
  <2>3. SUFFICES ASSUME Waiting' \subseteq Waiting PROVE WakeParts'
    BY <1>2, <1>4, <2>1, <2>2
  <2>4. python' # "start" \/ send = "off"
    BY <2>1 DEF Locks
  <2>5. send # "off" /\ python' # "start"
    BY <1>12, <2>4 DEF SendStep, SendTest, SendWait, SendLock, SendNext, SendDone, SendGrab,
                       SendCollect, Send
  <2>6. Waiting = {} => Waiting' = {}
    BY <2>3
  <2>7. CASE SendTest
    BY <1>1, <2>1, <2>5, <2>6, <2>7 DEF SendTest, Send, Coming
  <2>8. CASE SendWait
    BY <1>1, <2>1, <2>5, <2>6, <2>8 DEF SendWait, Send, Coming
  <2>9. CASE SendLock
    <3>1. send' = "next" /\ left' = Sessions /\ indexes' = indexes
      BY <2>9 DEF SendLock, Send
    <3>2. Unserved' = Sessions
      BY <3>1 DEF Unserved
    <3>3. Served'
      BY <2>1, <3>1, <3>2 DEF Served, Waiting, Counted
    <3>4. Clear(Served)'
      BY <2>1, <3>3 DEF Coming
    <3> QED BY <2>1, <2>5, <3>1, <3>4
  <2>10. CASE SendNext
    <3>1. PICK c \in left : serving' = c /\ left' = left \ {c}
      BY <2>10 DEF SendNext
    <3>2. /\ send = "next" /\ send' = "grab" /\ lost' = lost
      BY <2>10 DEF SendNext, Send
    <3>3. Unserved' = Unserved
      BY <3>1, <3>2 DEF Unserved
    <3>4. Served => Served'
      BY <2>1, <2>3, <3>3 DEF Served
    <3> QED BY <1>1, <2>1, <2>5, <3>2, <3>4 DEF Coming
  <2>11. CASE SendDone
    <3>1. send = "next" /\ send' = "test" /\ lost' = lost /\ (left = {} \/ ~ continue)
      BY <2>11 DEF SendDone, Send
    <3>2. left = {} /\ Served => Waiting = {}
      BY <3>1 DEF Served, Unserved
    <3> QED BY <1>1, <2>1, <2>5, <2>6, <3>1, <3>2 DEF Coming
  <2>12. CASE SendGrab
    <3>1. send = "grab" /\ send' = "collect" /\ UNCHANGED <<left, serving, lost>>
      BY <2>12 DEF SendGrab, Send
    <3>2. Unserved' = Unserved
      BY <3>1 DEF Unserved
    <3>3. Served => Served'
      BY <2>1, <2>3, <3>2 DEF Served
    <3> QED BY <1>1, <2>1, <2>5, <3>1, <3>3 DEF Coming
  <2>13. CASE SendCollect
    <3>1. /\ send = "collect" /\ send' = "next" /\ lost' = lost
          /\ tree' = SendTo(tree, session_index[serving])
          /\ left' = left \/ tree.tail = NULL
      BY <2>13 DEF SendCollect, Send
    <3>2. Unserved = left \cup {serving} /\ Unserved' = left'
      BY <3>1 DEF Unserved
    <3>3. \A p \in Waiting' : p[2] # session_index[serving]
      BY <3>1, SendRight DEF Waiting
    <3>4. CASE left' = left
      <4>1. Served => Served'
        BY <2>1, <2>3, <3>2, <3>3, <3>4 DEF Served
      <4> QED BY <1>1, <2>1, <2>5, <3>1, <4>1 DEF Coming
    \* With an empty list there is nothing to send.
    <3>5. CASE tree.tail = NULL
      <4>1. Listed(tree) = {}
        <5>1. Covers(tree, NULL, Listed(tree)) /\ Closed(tree, {})
          BY <3>5 DEF Good, Linked, Closed
        <5> QED BY <5>1 DEF Covers
      <4>2. Waiting = {}
        BY <4>1 DEF Waiting, Good, Listed, Subscribers, Pairs
      <4>3. Served'
        BY <2>6, <4>2 DEF Served
      <4> QED BY <1>1, <2>1, <2>5, <3>1, <4>3 DEF Coming
    <3> QED BY <3>1, <3>4, <3>5
  <2> QED BY <1>12, <2>7, <2>8, <2>9, <2>10, <2>11, <2>12, <2>13 DEF SendStep
\* Until here, a signal: what follows makes nothing new to send.
<1>13. ASSUME plc' = plc PROVE Waiting' \subseteq Waiting \/ plc = "signal"
  BY <1>3, <1>13
<1>14. ASSUME UNCHANGED <<send, left, serving, continue, worker, plc, lost>>,
              send \in {"next", "grab", "collect"} => UNCHANGED session_index,
              python' = "start" => python = "start"
       PROVE  Wake'
  <2>1. CASE plc = "signal"
    BY <1>1, <1>2, <1>4, <1>14, <2>1 DEF Coming
  <2>2. CASE plc # "signal"
    BY <1>2, <1>5, <1>13, <1>14, <2>2
  <2> QED BY <2>1, <2>2
<1>15. CASE ReactorStep
  <2>1. send \in {"next", "grab", "collect"} => session_index' = session_index
    BY <1>15 DEF ReactorStep, Register, Replace, ResetTail, ResetWalk, Unregister, Locks,
                 Replacing, Reactor
  <2> QED BY <1>14, <1>15, <2>1 DEF ReactorStep, Register, Replace, ResetTail, ResetWalk, Unregister
<1>16. CASE Client
  BY <1>14, <1>16 DEF Client, Open, Message, Close
<1>17. CASE SvghmiStart
  <2>1. /\ python = "start" /\ python' = "run" /\ send' = "test"
        /\ UNCHANGED <<continue, plc, worker, lost, indexes, late, tree>>
    BY <1>17 DEF SvghmiStart, Python
  <2>2. Waiting' = Waiting
    BY <2>1 DEF Waiting
  <2> QED BY <1>1, <1>2, <2>1, <2>2 DEF Coming
<1>18. CASE StopListening \/ CloseAll \/ CloseNext \/ CloseTail \/ CloseWalk \/ CloseDone \/ Join
  BY <1>14, <1>18 DEF StopListening, CloseAll, CloseNext, CloseTail, CloseWalk, CloseDone, Join,
                      Python
<1>19. CASE UNCHANGED vars
  BY <1>14, <1>19
<1> QED BY <1>6, <1>7, <1>8, <1>9, <1>10, <1>11, <1>12, <1>15, <1>16, <1>17, <1>18, <1>19
        DEF Next, PlcStep, PythonStep

----------------------------------------------------------------------------
\* The invariant that the others follow from.
THEOREM SVGHMIInvariant == Spec => []IInv
<1>1. IInv /\ [Next]_vars => IInv'
  <2> SUFFICES ASSUME IInv, [Next]_vars PROVE IInv'
    OBVIOUS
  <2>1. /\ TypeOK /\ Good(tree) /\ Locks /\ Roles /\ Counted /\ Cover /\ Wake
        /\ NotForgotten /\ SubscribersKnown
    BY DEF IInv
  <2>2. Good(tree)' /\ Locks' /\ Roles' /\ Counted'
    BY <2>1, GoodStep, LocksStep, RolesStep, CountedStep
  <2>3. TypeOK'
    BY <2>1, <2>2, TypeStep
  <2>4. Cover' /\ Wake'
    BY <2>1, <2>2, CoverStep, WakeStep
  <2>5. NotForgotten' /\ SubscribersKnown'
    BY <2>1, NotForgottenStep, SubscribersStep
  <2> QED BY <2>2, <2>3, <2>4, <2>5 DEF IInv
<1> QED BY <1>1, InitIInv, PTL DEF Spec

\* Every variable of SVGHMI keeps its type: the tree of svghmi.c, the sessions and indexes of
\* svghmi_server.py, and the counts that its MAX_CONNECTIONS bounds.
THEOREM SVGHMITypeCorrect == Spec => []TypeOK
<1>1. IInv => TypeOK
  BY DEF IInv
<1> QED BY <1>1, SVGHMIInvariant, PTL

\* Whatever the clients, the PLC and its stop do in between: the list is that of the
\* subscribed items, no subscribed session misses a change, sessions have indexes of their
\* own, nobody else is subscribed, and the session being served is not ended.
THEOREM HMIIsRight == Spec => []HMIOK
<1>1. IInv => HMIOK
  <2> SUFFICES ASSUME IInv PROVE HMIOK
    OBVIOUS
  <2>1. /\ TypeOK /\ Good(tree) /\ Locks /\ Roles /\ Counted
        /\ NotForgotten /\ SubscribersKnown
    BY DEF IInv
  <2>2. ListKept
    BY <2>1, ListIsRight DEF Good, ListKept
  <2>3. SessionsApart
    <3>1. Cardinality(Sessions) \in Nat /\ MAX_CONNECTIONS \in Nat
      BY <2>1, SessionsFinite
    <3>2. replaced \in Nat
      BY <2>1 DEF TypeOK
    <3>3. reactor = "register" => session_count < MAX_CONNECTIONS
      BY <2>1, <3>1, <3>2 DEF Counted, Entering, Replacing
    <3>4. mgr # "reactor" => session_count = Cardinality(Sessions) - replaced
      BY <2>1, <3>1, <3>2 DEF Counted, Locks
    <3> QED BY <2>1, <3>3, <3>4 DEF Counted, SessionsApart
  <2>4. ServingKept
    BY <2>1 DEF Roles, ServingKept
  <2> QED BY <2>1, <2>2, <2>3, <2>4 DEF HMIOK
<1> QED BY <1>1, SVGHMIInvariant, PTL

\* The send thread waits with something to send only if it is about to be woken up, or if
\* the signal came before it waited.
THEOREM WakeUpIsHeard == Spec => []WakeUpHeard
<1>1. IInv => WakeUpHeard
  BY DEF IInv, Wake, Coming, Quiet, WakeUpHeard
<1> QED BY <1>1, SVGHMIInvariant, PTL
==============================================================================
