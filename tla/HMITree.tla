------------------------------ MODULE HMITree ------------------------------
(***************************************************************************)
(* The HMI tree of svghmi/svghmi.c: the state of every item for every      *)
(* session index, and the list, doubly linked, of the items that some      *)
(* session is subscribed to.  Every operator takes a tree and returns the  *)
(* next one; SVGHMI says who calls it and when.                            *)
(*                                                                         *)
(* Values are left out: value_changed is told by the caller, and "known"   *)
(* says that the session was sent the value that is in wbuf.  So is time:  *)
(* that a refresh period has elapsed is told by the caller.                *)
(***************************************************************************)
EXTENDS Integers, SequencesExt

CONSTANTS Items,        \* hmi_tree_items
          Indexes,      \* of sessions: 0..MAX_CONNECTIONS-1
          NULL

ASSUME HMITreeAssumption == NULL \notin Items

Pairs == Items \X Indexes

\* subscriptions_tail, subscriptions_next, subscriptions_prev; wstate, and whether
\* refresh_period_ms is other than 0.
Trees == [tail : Items \cup {NULL},
          next : [Items -> Items \cup {NULL}],
          prev : [Items -> Items \cup {NULL}],
          subscribed : [Pairs -> BOOLEAN],
          wstate : [Pairs -> {"free", "new", "set", "tosend"}],
          known : [Pairs -> BOOLEAN]]

InitTree == [tail |-> NULL,
             next |-> [i \in Items |-> NULL],
             prev |-> [i \in Items |-> NULL],
             subscribed |-> [p \in Pairs |-> FALSE],
             wstate |-> [p \in Pairs |-> "free"],
             known |-> [p \in Pairs |-> FALSE]]

\* The items that a walk from one of them to the head of the list meets.
Chain(t, i) ==
    LET from[j \in Items \cup {NULL}] == IF j = NULL THEN << >> ELSE <<j>> \o from[t.prev[j]]
    IN from[i]

Subscribers(t, i) == {x \in Indexes : t.subscribed[<<i, x>>]}

AppendToList(t, i) ==
    [t EXCEPT !.next = [j \in Items |-> IF j = i THEN NULL
                                        ELSE IF j = t.tail THEN i ELSE @[j]],
              !.prev[i] = t.tail,
              !.tail = i]

\* Slip: the item that follows keeps pointing to the one that is removed.
RemoveFromListHalf(t, i) ==
    IF t.next[i] = NULL
    THEN [t EXCEPT !.tail = t.prev[i]]
    ELSE t

\* The tail, the head, or an item in between.
RemoveFromList(t, i) ==
    LET before == t.prev[i]
        after == t.next[i]
    IN IF after = NULL
       THEN [t EXCEPT !.tail = before,
                      !.next = [j \in Items |-> IF j = before THEN NULL ELSE @[j]]]
       ELSE [t EXCEPT !.prev[after] = before,
                      !.next = [j \in Items |-> IF j = before THEN after ELSE @[j]]]

\* Slip: a session that subscribes is not sent what the variable is now.
SubscribeQuietly(t, i, x) ==
    LET listed == IF Subscribers(t, i) = {} THEN AppendToList(t, i) ELSE t
    IN [listed EXCEPT !.subscribed[<<i, x>>] = TRUE]

\* update_refresh_period() with a period other than 0 ...
Subscribe(t, i, x) ==
    LET listed == IF Subscribers(t, i) = {} THEN AppendToList(t, i) ELSE t
    IN IF t.subscribed[<<i, x>>]
       THEN t
       ELSE [listed EXCEPT !.subscribed[<<i, x>>] = TRUE, !.wstate[<<i, x>>] = "new"]

\* ... and with 0.
Unsubscribe(t, i, x) ==
    LET listed == IF Subscribers(t, i) = {x} THEN RemoveFromList(t, i) ELSE t
    IN [listed EXCEPT !.subscribed[<<i, x>>] = FALSE, !.wstate[<<i, x>>] = "free",
                      !.known[<<i, x>>] = FALSE]

\* svghmi_reset(), from what it took for the tail.
Reset(t, i, x) ==
    LET chain == Chain(t, i)
        step[k \in 0..Len(chain)] == IF k = 0 THEN t ELSE Unsubscribe(step[k - 1], chain[k], x)
    IN step[Len(chain)]

\* A session that has just subscribed, or is subscribed to a value that changes.
Sampled(t, changed) ==
    LET listed == ToSet(Chain(t, t.tail))
    IN {p \in Pairs : /\ p[1] \in listed
                      /\ \/ t.wstate[p] = "new"
                         \/ t.subscribed[p] /\ p[1] \in changed}

\* write_iterator() for every item of the list.  A session is due if the period of its
\* subscription has elapsed, or is below the period of the PLC.
Write(t, changed, due) ==
    LET sampled == Sampled(t, changed)
        rewritten == {p[1] : p \in sampled} \cap changed
    IN [t EXCEPT !.wstate = [p \in Pairs |->
                     CASE p \in sampled /\ @[p] = "new" -> "tosend"
                       [] p \in sampled /\ @[p] = "free" -> IF p \in due THEN "tosend" ELSE "set"
                       [] @[p] = "set" /\ p \in due -> "tosend"
                       [] OTHER -> @[p]],
                 !.known = [p \in Pairs |-> @[p] /\ p[1] \notin rewritten]]

\* Something is to be sent that was not, before: global_write_dirty.
Dirtied(t, u) == \E p \in Pairs : t.wstate[p] # "tosend" /\ u.wstate[p] = "tosend"

\* send_iterator() for every item of the list.
SendTo(t, x) ==
    LET listed == ToSet(Chain(t, t.tail))
        sent(p) == p[2] = x /\ p[1] \in listed /\ t.wstate[p] = "tosend"
    IN [t EXCEPT !.wstate = [p \in Pairs |-> IF sent(p) THEN "free" ELSE @[p]],
                 !.known = [p \in Pairs |-> @[p] \/ sent(p)]]

\* The list is what the subscriptions say: each item that has a subscriber once, and no
\* other, whichever end of the list it is read from.
ListRight(t) ==
    LET chain == Chain(t, t.tail)
        n == Len(chain)
    IN /\ ToSet(chain) = {i \in Items : Subscribers(t, i) # {}}
       /\ n > 0 => t.next[t.tail] = NULL
       /\ \A k \in 1..n - 1 : chain[k + 1] # chain[k] /\ t.next[chain[k + 1]] = chain[k]
=============================================================================
