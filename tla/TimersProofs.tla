---------------------------- MODULE TimersProofs ----------------------------
(* Theorems about the timer list, for any delays. *)
EXTENDS Timers, TLAPS

-----------------------------------------------------------------------------
(***************************************************************************)
(* Type correctness, for the broken list as well.                          *)
(***************************************************************************)
\* No link leads past an end of the list, and the ends link to nothing.
EndsKept ==
  /\ \A n \in Node : succ[n] # "head" /\ pred[n] # "tail"
  /\ succ["tail"] = NULL /\ pred["head"] = NULL

TypeInv == TypeOK /\ EndsKept

Place == (Node \cup {NULL}) \ {"head"}

\* The boot's list has the types and ends in order.
LEMMA BootType ==
  /\ BootSucc \in [Node -> Node \cup {NULL}]
  /\ BootPred \in [Node -> Node \cup {NULL}]
  /\ \A n \in Node : BootSucc[n] # "head" /\ BootPred[n] # "tail"
  /\ BootSucc["tail"] = NULL /\ BootPred["head"] = NULL
  /\ BootRem \in [Timer -> Nat] /\ \A t \in Timer : BootRem[t] <= Delay[t]
<1>1. /\ BootSucc \in [Node -> Node \cup {NULL}]
      /\ \A n \in Node : BootSucc[n] # "head"
      /\ BootSucc["tail"] = NULL
  BY DEF BootSucc, Node, Timer, NULL
<1>2. /\ BootPred \in [Node -> Node \cup {NULL}]
      /\ \A n \in Node : BootPred[n] # "tail"
      /\ BootPred["head"] = NULL
  BY DEF BootPred, Node, Timer, NULL
<1>3. BootRem \in [Timer -> Nat] /\ \A t \in Timer : BootRem[t] <= Delay[t]
  BY DelayAssumption DEF BootRem, Periodic
<1> QED
  BY <1>1, <1>2, <1>3

\* The search ends at a node that is not the head, or nowhere.
LEMMA SearchType ==
  ASSUME TypeInv, NEW t \in Timer
  PROVE  Search(t) \in Place
<1>1. succ["head"] \in Place
  BY DEF TypeInv, TypeOK, EndsKept, Place, Node
<1>2. ASSUME NEW n \in Place PROVE Step(t, n) \in Place
  BY DEF Step, Stops, TypeInv, TypeOK, EndsKept, Place, Node
<1> DEFINE n1 == Step(t, succ["head"])
           n2 == Step(t, n1)
           n3 == Step(t, n2)
           n4 == Step(t, n3)
           n5 == Step(t, n4)
<1>3. n1 \in Place
  BY <1>1, <1>2
<1>4. n2 \in Place
  BY <1>2, <1>3
<1>5. n3 \in Place
  BY <1>2, <1>4
<1>6. n4 \in Place
  BY <1>2, <1>5
<1>7. n5 \in Place
  BY <1>2, <1>6
<1> QED
  BY <1>7, Zenon DEF Search

\* What the insertion and the removal of a timer leave of the links.
LEMMA InsertType ==
  ASSUME TypeInv, NEW t \in Timer, NEW n \in Place, INSERT_BEFORE(t, n)
  PROVE  /\ succ' \in [Node -> Node \cup {NULL}]
         /\ pred' \in [Node -> Node \cup {NULL}]
         /\ EndsKept'
<1> DEFINE p1 == Store(pred, t, Load(pred, n))
           s1 == Store(succ, t, n)
<1>0. t \in Node /\ t # "head" /\ t # "tail" /\ t # NULL
  BY DEF Timer, Node, NULL
<1>1. Load(pred, n) \in (Node \cup {NULL}) \ {"tail"}
  BY DEF Load, TypeInv, TypeOK, EndsKept, Place, NULL, Node
<1>2. /\ p1 \in [Node -> Node \cup {NULL}] /\ p1["head"] = NULL
      /\ \A m \in Node : p1[m] # "tail"
  BY <1>0, <1>1 DEF Store, TypeInv, TypeOK, EndsKept, Node
<1>3. /\ s1 \in [Node -> Node \cup {NULL}] /\ s1["tail"] = NULL
      /\ \A m \in Node : s1[m] # "head"
  BY <1>0 DEF Store, TypeInv, TypeOK, EndsKept, Node, Place
<1>4. Load(p1, n) \in (Node \cup {NULL}) \ {"tail"}
  BY <1>2 DEF Load, Place, NULL
<1>5. succ' = Store(s1, Load(p1, n), t) /\ pred' = Store(p1, n, t)
  BY DEF INSERT_BEFORE
<1> HIDE DEF p1, s1
<1> QED
  BY <1>0, <1>2, <1>3, <1>4, <1>5 DEF Store, EndsKept, Node, Place

\* What the removal of a timer leaves of the links, in a list or not.
LEMMA RemoveType ==
  ASSUME TypeInv, NEW t \in Timer, REMOVE(t)
  PROVE  /\ succ' \in [Node -> Node \cup {NULL}]
         /\ pred' \in [Node -> Node \cup {NULL}]
         /\ EndsKept'
<1> DEFINE s1 == Store(succ, pred[t], succ[t])
           p1 == Store(pred, s1[t], pred[t])
<1>0. t \in Node /\ t # "head" /\ t # "tail" /\ t # NULL
  BY DEF Timer, Node, NULL
<1>1. /\ s1 \in [Node -> Node \cup {NULL}] /\ s1["tail"] = NULL
      /\ \A m \in Node : s1[m] # "head"
  BY <1>0 DEF Store, TypeInv, TypeOK, EndsKept, Node
<1> HIDE DEF s1
<1>2. /\ p1 \in [Node -> Node \cup {NULL}] /\ p1["head"] = NULL
      /\ \A m \in Node : p1[m] # "tail"
  BY <1>0, <1>1 DEF Store, TypeInv, TypeOK, EndsKept, Node
<1>3. succ' = [s1 EXCEPT ![t] = NULL] /\ pred' = [p1 EXCEPT ![t] = NULL]
  BY DEF REMOVE, s1
<1> HIDE DEF p1
<1> QED
  BY <1>0, <1>1, <1>2, <1>3 DEF EndsKept, Node, NULL

\* A task or a press that inserts a timer keeps the types.
LEMMA AddType ==
  ASSUME TypeInv, NEW t \in Timer, timer_addToList(t),
         task' \in Timer \cup {"none"}, UNCHANGED button
  PROVE  TypeInv'
<1>1. active' \subseteq Timer /\ misused' \in BOOLEAN
  BY Zenon DEF timer_addToList, TypeInv, TypeOK
<1>4. rem' \in [Timer -> Nat] /\ \A u \in Timer : rem'[u] <= Delay[u]
  <2>1. rem' = [rem EXCEPT ![t] = Delay[t]]
    BY DEF timer_addToList, NewTick
  <2>2. \A u \in Timer : Delay[u] \in Nat
    BY DelayAssumption
  <2>3. rem \in [Timer -> Nat] /\ \A u \in Timer : rem[u] <= Delay[u]
    BY DEF TypeInv, TypeOK
  <2> QED
    BY <2>1, <2>2, <2>3
<1>2. pc' \in {"poll", "hung"}
  BY DEF timer_addToList
<1>3. /\ succ' \in [Node -> Node \cup {NULL}]
      /\ pred' \in [Node -> Node \cup {NULL}]
      /\ EndsKept'
  <2>1. CASE Stops(Search(t), t)
    BY <2>1, SearchType, InsertType DEF timer_addToList
  <2>2. CASE ~Stops(Search(t), t)
    BY <2>2 DEF timer_addToList, TypeInv, TypeOK, EndsKept
  <2> QED
    BY <2>1, <2>2
<1> QED
  BY <1>1, <1>2, <1>3, <1>4 DEF TypeInv, TypeOK, button

\* So does a reset.
LEMMA BootKeeps ==
  ASSUME TypeInv, controlSetup
  PROVE  TypeInv'
<1>1. Periodic \subseteq Timer
  BY DEF Periodic, Timer
<1> QED
  BY <1>1, BootType DEF TypeInv, TypeOK, EndsKept, controlSetup

\* Every step keeps the types and the ends.
LEMMA TypeStep == TypeInv /\ [Next]_vars => TypeInv'
<1> SUFFICES ASSUME TypeInv, [Next]_vars PROVE TypeInv'
  OBVIOUS
<1>1. CASE PollStarts
  <2>1. succ["head"] \in Timer
    BY <1>1 DEF PollStarts, Expired, Load, TypeInv, TypeOK, EndsKept, Node
  <2>2. REMOVE(succ["head"])
    BY <1>1 DEF PollStarts, timer_remove
  <2> QED
    BY <1>1, <2>1, <2>2, RemoveType
    DEF PollStarts, timer_remove, TypeInv, TypeOK, button
<1>2. CASE PollEnds
  BY <1>2 DEF PollEnds, TypeInv, TypeOK, EndsKept, list, button
<1>3. CASE PeriodicTaskEnds
  <2>1. task \in Timer
    BY <1>3 DEF PeriodicTaskEnds, Periodic, Timer
  <2> QED
    BY <1>3, <2>1, AddType DEF PeriodicTaskEnds, Reschedule
<1>4. CASE ButtonTaskEnds
  BY <1>4 DEF ButtonTaskEnds, TypeInv, TypeOK, EndsKept, list, button
<1>5. CASE ButtonTaskResets \/ WatchdogResets
  BY <1>5, BootKeeps DEF ButtonTaskResets, WatchdogResets
<1>6. CASE CheckSignals
  BY <1>6 DEF CheckSignals, TypeInv, TypeOK, EndsKept, list
<1>7. CASE ButtonPressed
  <2>1. "btn" \in Timer /\ task' \in Timer \cup {"none"}
    BY <1>7 DEF ButtonPressed, TypeInv, TypeOK, Timer
  <2> QED
    BY <1>7, <2>1, AddType DEF ButtonPressed
<1>8. CASE ButtonReleased
  <2>1. "btn" \in Timer
    BY DEF Timer
  <2> QED
    BY <1>8, <2>1, RemoveType
    DEF ButtonReleased, timer_remove, TypeInv, TypeOK, button
<1>9. CASE Edge
  BY <1>9 DEF Edge, TypeInv, TypeOK, EndsKept, list
<1>10. CASE Second
  <2>1. /\ rem' \in [Timer -> Nat]
        /\ \A t \in Timer : rem'[t] <= Delay[t]
    BY <1>10, DelayAssumption DEF Second, TypeInv, TypeOK
  <2> QED
    BY <1>10, <2>1 DEF Second, TypeInv, TypeOK, EndsKept, list, button
<1>11. CASE UNCHANGED vars
  BY <1>11 DEF vars, TypeInv, TypeOK, EndsKept, list, button
<1> QED
  BY <1>1, <1>2, <1>3, <1>4, <1>5, <1>6, <1>7, <1>8, <1>9, <1>10, <1>11
  DEF Next, MainLoop

\* The types and the ends, in every behaviour.
LEMMA TypesHold == Spec => []TypeInv
<1>1. Init => TypeInv
  BY BootType DEF Init, TypeInv, TypeOK, EndsKept, Periodic, Timer
<1> QED
  BY <1>1, TypeStep, PTL DEF Spec

\* Broken or whole, the list links nodes, and the task that runs is that of a
\* timer: nothing that poll, tasks and button do takes an end for a timer.
THEOREM TypeCorrect == Spec => []TypeOK
<1>1. TypeInv => TypeOK
  BY DEF TypeInv
<1> QED
  BY <1>1, TypesHold, PTL

-----------------------------------------------------------------------------
(***************************************************************************)
(* The list while no timer was inserted twice.                             *)
(***************************************************************************)
Link(a, b) == succ[a] = b /\ pred[b] = a

None == active = {} /\ Link("head", "tail")
One(x) == active = {x} /\ Link("head", x) /\ Link(x, "tail")
Two(x, y) ==
  /\ x # y /\ active = {x, y} /\ rem[x] <= rem[y]
  /\ Link("head", x) /\ Link(x, y) /\ Link(y, "tail")
Three(x, y, z) ==
  /\ x # y /\ x # z /\ y # z /\ active = {x, y, z}
  /\ rem[x] <= rem[y] /\ rem[y] <= rem[z]
  /\ Link("head", x) /\ Link(x, y) /\ Link(y, z) /\ Link(z, "tail")

\* The list from its head to its tail, in the order of expiry, and the timers
\* that are not in it
Chain ==
  \/ None
  \/ \E x \in Timer : One(x)
  \/ \E x, y \in Timer : Two(x, y)
  \/ \E x, y, z \in Timer : Three(x, y, z)
Whole == Chain /\ \A t \in Timer \ active : succ[t] = NULL /\ pred[t] = NULL

\* A walk along the chain meets the active timers, each once.
LEMMA WholeIsSound ==
  ASSUME TypeInv, Whole
  PROVE  /\ Listed = active /\ "tail" \in Walked
         /\ \A n \in Walked \ {"tail"} : pred[succ[n]] = n
         /\ \A t \in Listed : succ[t] \in Timer => rem[t] <= rem[succ[t]]
<1>1. succ["tail"] = NULL
  BY DEF TypeInv, EndsKept
<1>2. CASE None
  <2>1. Walked = {"head", "tail"}
    BY <1>1, <1>2 DEF None, Link, Walked, Load, NULL
  <2> QED
    BY <1>2, <2>1 DEF None, Link, Listed, Timer
<1>3. ASSUME NEW x \in Timer, One(x)
      PROVE  /\ Listed = active /\ "tail" \in Walked
             /\ \A n \in Walked \ {"tail"} : pred[succ[n]] = n
             /\ \A t \in Listed : succ[t] \in Timer => rem[t] <= rem[succ[t]]
  <2>1. Walked = {"head", x, "tail"}
    BY <1>1, <1>3 DEF One, Link, Walked, Load, NULL, Timer
  <2> QED
    BY <1>3, <2>1 DEF One, Link, Listed, Timer
<1>4. ASSUME NEW x \in Timer, NEW y \in Timer, Two(x, y)
      PROVE  /\ Listed = active /\ "tail" \in Walked
             /\ \A n \in Walked \ {"tail"} : pred[succ[n]] = n
             /\ \A t \in Listed : succ[t] \in Timer => rem[t] <= rem[succ[t]]
  <2>1. Walked = {"head", x, y, "tail"}
    BY <1>1, <1>4 DEF Two, Link, Walked, Load, NULL, Timer
  <2> QED
    BY <1>4, <2>1 DEF Two, Link, Listed, Timer
<1>5. ASSUME NEW x \in Timer, NEW y \in Timer, NEW z \in Timer, Three(x, y, z)
      PROVE  /\ Listed = active /\ "tail" \in Walked
             /\ \A n \in Walked \ {"tail"} : pred[succ[n]] = n
             /\ \A t \in Listed : succ[t] \in Timer => rem[t] <= rem[succ[t]]
  <2>1. Walked = {"head", x, y, z, "tail"}
    BY <1>1, <1>5 DEF Three, Link, Walked, Load, NULL, Timer
  <2> QED
    BY <1>5, <2>1 DEF Three, Link, Listed, Timer
<1> QED
  BY <1>2, <1>3, <1>4, <1>5 DEF Whole, Chain

\* The list of the boot.
LEMMA BootWhole ==
  ASSUME controlSetup
  PROVE  Whole'
<1>1. /\ Two("cmd", "sms")'
      /\ \A t \in Timer \ Periodic : succ'[t] = NULL /\ pred'[t] = NULL
  BY DelayAssumption
  DEF controlSetup, Two, Link, BootSucc, BootPred, BootRem, Node, Timer,
      Periodic, NULL
<1> QED
  BY <1>1 DEF Whole, Chain, controlSetup, Timer

\* The insertion before a node that is linked to its predecessor.
LEMMA Inserted ==
  ASSUME TypeInv, NEW t \in Timer, NEW p \in Node, NEW n \in Node,
         Link(p, n), t # n, t # p, INSERT_BEFORE(t, n)
  PROVE  /\ succ' = [succ EXCEPT ![t] = n, ![p] = t]
         /\ pred' = [pred EXCEPT ![t] = p, ![n] = t]
<1>1. t \in Node /\ t # NULL /\ n # NULL /\ p # NULL
  BY DEF Node, Timer, NULL
<1> QED
  BY <1>1 DEF Link, INSERT_BEFORE, Store, Load, TypeInv, TypeOK

\* The removal of a linked timer, and of one that is in no list.
LEMMA Removed ==
  ASSUME TypeInv, NEW t \in Timer, NEW p \in Node, NEW n \in Node,
         Link(p, t), Link(t, n), t # n, t # p, REMOVE(t)
  PROVE  /\ succ' = [succ EXCEPT ![p] = n, ![t] = NULL]
         /\ pred' = [pred EXCEPT ![n] = p, ![t] = NULL]
<1>1. t \in Node /\ t # NULL /\ n # NULL /\ p # NULL
  BY DEF Node, Timer, NULL
<1> QED
  BY <1>1 DEF Link, REMOVE, Store, TypeInv, TypeOK

\* The removal of a timer that is in no list leaves the links alone.
LEMMA NotListed ==
  ASSUME TypeInv, NEW t \in Timer, succ[t] = NULL, pred[t] = NULL, REMOVE(t)
  PROVE  UNCHANGED <<succ, pred>>
<1>1. t \in Node /\ t # NULL
  BY DEF Node, Timer, NULL
<1> QED
  BY <1>1 DEF REMOVE, Store, TypeInv, TypeOK

\* The search goes on until it stops.
LEMMA SearchFinds ==
  ASSUME NEW t, NEW a, NEW b, NEW c,
         succ["head"] = a, succ[a] = b, succ[b] = c
  PROVE  /\ Stops(a, t) => Search(t) = a
         /\ ~Stops(a, t) /\ Stops(b, t) => Search(t) = b
         /\ ~Stops(a, t) /\ ~Stops(b, t) /\ Stops(c, t) => Search(t) = c
BY DEF Search, Step

\* The new timer takes its place before the first one that expires later.
LEMMA InsertWhole ==
  ASSUME TypeInv, Whole, NEW t \in Timer, t \notin active, timer_addToList(t)
  PROVE  Whole' /\ pc' = "poll"
<1> USE DEF Link
<1>1. /\ rem' = [rem EXCEPT ![t] = Delay[t]]
      /\ rem' \in [Timer -> Nat] /\ rem'[t] = Delay[t] /\ rem \in [Timer -> Nat]
      /\ \A u \in Timer \ {t} : rem'[u] = rem[u]
      /\ Delay[t] \in Nat
      /\ active' = active \cup {t}
  BY DelayAssumption DEF timer_addToList, NewTick, TypeInv, TypeOK
<1>2. /\ succ["tail"] = NULL /\ Timer \subseteq Node
      /\ "head" \in Node /\ "tail" \in Node
      /\ t # "head" /\ t # "tail" /\ t # NULL
      /\ Stops("tail", t)
      /\ succ \in [Node -> Node \cup {NULL}] /\ pred \in [Node -> Node \cup {NULL}]
  BY DEF TypeInv, TypeOK, EndsKept, Stops, Node, Timer, NULL
<1>3. ASSUME NEW n \in Node, NEW p \in Node, Search(t) = n, Stops(n, t),
             Link(p, n), t # n, t # p
      PROVE  /\ pc' = "poll"
             /\ succ' = [succ EXCEPT ![t] = n, ![p] = t]
             /\ pred' = [pred EXCEPT ![t] = p, ![n] = t]
  <2>1. INSERT_BEFORE(t, n) /\ pc' = "poll"
    BY <1>3 DEF timer_addToList
  <2> QED
    BY <1>3, <2>1, Inserted
<1>4. ASSUME NEW u \in active
      PROVE  /\ u # t /\ u \in Timer /\ u # "head" /\ u # "tail" /\ u # NULL
             /\ succ[u] # NULL => (Stops(u, t) <=> rem[u] > Delay[t])
  BY DEF Stops, TypeInv, TypeOK, Timer, NULL
<1> DEFINE Unlisted ==
      \A u \in Timer \ active' : succ'[u] = NULL /\ pred'[u] = NULL
<1>5. \A u \in Timer \ active : succ[u] = NULL /\ pred[u] = NULL
  BY DEF Whole
<1>6. CASE None
  <2>1. Search(t) = "tail"
    BY <1>2, <1>6, SearchFinds DEF None
  <2>2. /\ pc' = "poll"
        /\ succ' = [succ EXCEPT ![t] = "tail", !["head"] = t]
        /\ pred' = [pred EXCEPT ![t] = "head", !["tail"] = t]
    BY <1>2, <1>3, <1>6, <2>1 DEF None
  <2>3. One(t)' /\ Unlisted
    BY <1>1, <1>2, <1>5, <1>6, <2>2 DEF None, One, Node, Timer
  <2> QED
    BY <2>2, <2>3 DEF Whole, Chain
<1>7. ASSUME NEW x \in Timer, One(x) PROVE Whole' /\ pc' = "poll"
  <2>1. /\ x \in active /\ x # t /\ x # "head" /\ x # "tail"
        /\ succ[x] # NULL /\ (Stops(x, t) <=> rem[x] > Delay[t])
    BY <1>4, <1>7 DEF One, NULL
  <2>2. CASE rem[x] > Delay[t]
    <3>1. Search(t) = x
      BY <1>2, <1>7, <2>1, <2>2, SearchFinds DEF One
    <3>2. /\ pc' = "poll"
          /\ succ' = [succ EXCEPT ![t] = x, !["head"] = t]
          /\ pred' = [pred EXCEPT ![t] = "head", ![x] = t]
      BY <1>2, <1>3, <1>7, <2>1, <2>2, <3>1 DEF One
    <3>3. Two(t, x)' /\ Unlisted
      BY <1>1, <1>2, <1>5, <1>7, <2>1, <2>2, <3>2 DEF One, Two, Node, Timer
    <3> QED
      BY <3>2, <3>3 DEF Whole, Chain
  <2>3. CASE ~(rem[x] > Delay[t])
    <3>1. Search(t) = "tail"
      BY <1>2, <1>7, <2>1, <2>3, SearchFinds DEF One
    <3>2. /\ pc' = "poll"
          /\ succ' = [succ EXCEPT ![t] = "tail", ![x] = t]
          /\ pred' = [pred EXCEPT ![t] = x, !["tail"] = t]
      BY <1>2, <1>3, <1>7, <2>1, <3>1 DEF One
    <3>3. rem[x] <= Delay[t]
      BY <1>1, <2>3
    <3>4. Two(x, t)' /\ Unlisted
      BY <1>1, <1>2, <1>5, <1>7, <2>1, <3>2, <3>3 DEF One, Two, Node, Timer
    <3> QED
      BY <3>2, <3>4 DEF Whole, Chain
  <2> QED
    BY <2>2, <2>3
<1>8. ASSUME NEW x \in Timer, NEW y \in Timer, Two(x, y)
      PROVE  Whole' /\ pc' = "poll"
  <2>1. /\ x \in active /\ x # t /\ x # "head" /\ x # "tail" /\ x # y
        /\ y \in active /\ y # t /\ y # "head" /\ y # "tail"
        /\ succ[x] # NULL /\ (Stops(x, t) <=> rem[x] > Delay[t])
        /\ succ[y] # NULL /\ (Stops(y, t) <=> rem[y] > Delay[t])
    BY <1>4, <1>8 DEF Two, NULL
  <2>2. CASE rem[x] > Delay[t]
    <3>1. Search(t) = x
      BY <1>2, <1>8, <2>1, <2>2, SearchFinds DEF Two
    <3>2. /\ pc' = "poll"
          /\ succ' = [succ EXCEPT ![t] = x, !["head"] = t]
          /\ pred' = [pred EXCEPT ![t] = "head", ![x] = t]
      BY <1>2, <1>3, <1>8, <2>1, <2>2, <3>1 DEF Two
    <3>3. Three(t, x, y)' /\ Unlisted
      BY <1>1, <1>2, <1>5, <1>8, <2>1, <2>2, <3>2 DEF Two, Three, Node, Timer
    <3> QED
      BY <3>2, <3>3 DEF Whole, Chain
  <2>3. CASE ~(rem[x] > Delay[t]) /\ rem[y] > Delay[t]
    <3>1. Search(t) = y
      BY <1>2, <1>8, <2>1, <2>3, SearchFinds DEF Two
    <3>2. /\ pc' = "poll"
          /\ succ' = [succ EXCEPT ![t] = y, ![x] = t]
          /\ pred' = [pred EXCEPT ![t] = x, ![y] = t]
      BY <1>2, <1>3, <1>8, <2>1, <2>3, <3>1 DEF Two
    <3>3. rem[x] <= Delay[t]
      BY <1>1, <2>3
    <3>4. Three(x, t, y)' /\ Unlisted
      BY <1>1, <1>2, <1>5, <1>8, <2>1, <2>3, <3>2, <3>3 DEF Two, Three, Node, Timer
    <3> QED
      BY <3>2, <3>4 DEF Whole, Chain
  <2>4. CASE ~(rem[x] > Delay[t]) /\ ~(rem[y] > Delay[t])
    <3>1. Search(t) = "tail"
      BY <1>2, <1>8, <2>1, <2>4, SearchFinds DEF Two
    <3>2. /\ pc' = "poll"
          /\ succ' = [succ EXCEPT ![t] = "tail", ![y] = t]
          /\ pred' = [pred EXCEPT ![t] = y, !["tail"] = t]
      BY <1>2, <1>3, <1>8, <2>1, <3>1 DEF Two
    <3>3. rem[y] <= Delay[t]
      BY <1>1, <2>4
    <3>4. Three(x, y, t)' /\ Unlisted
      BY <1>1, <1>2, <1>5, <1>8, <2>1, <3>2, <3>3 DEF Two, Three, Node, Timer
    <3> QED
      BY <3>2, <3>4 DEF Whole, Chain
  <2> QED
    BY <2>2, <2>3, <2>4
<1>9. ~\E x, y, z \in Timer : Three(x, y, z)
  BY DEF Three, Timer
<1> QED
  BY <1>6, <1>7, <1>8, <1>9 DEF Whole, Chain

\* A removed timer leaves the others linked; the links of one that is in no
\* list lead nowhere.
LEMMA RemoveWhole ==
  ASSUME TypeInv, Whole, NEW t \in Timer, timer_remove(t), rem' = rem
  PROVE  Whole'
<1> USE DEF Link
<1>1. /\ REMOVE(t) /\ active' = active \ {t}
      /\ Timer \subseteq Node /\ "head" \in Node /\ "tail" \in Node
      /\ t # "head" /\ t # "tail"
      /\ succ \in [Node -> Node \cup {NULL}] /\ pred \in [Node -> Node \cup {NULL}]
      /\ rem \in [Timer -> Nat]
  BY DEF timer_remove, TypeInv, TypeOK, Node, Timer
<1>2. \A u \in Timer \ active : succ[u] = NULL /\ pred[u] = NULL
  BY DEF Whole
<1>3. CASE t \notin active
  <2>1. UNCHANGED <<succ, pred, active>>
    BY <1>1, <1>2, <1>3, NotListed
  <2> QED
    BY <2>1 DEF Whole, Chain, None, One, Two, Three
<1> DEFINE Unlisted ==
      \A u \in Timer \ active' : succ'[u] = NULL /\ pred'[u] = NULL
<1>4. ASSUME NEW x \in Timer, One(x), t = x PROVE Whole'
  <2>1. /\ succ' = [succ EXCEPT !["head"] = "tail", ![t] = NULL]
        /\ pred' = [pred EXCEPT !["tail"] = "head", ![t] = NULL]
    BY <1>1, <1>4, Removed DEF One
  <2>2. None' /\ Unlisted
    BY <1>1, <1>2, <1>4, <2>1 DEF One, None, Node, Timer
  <2> QED
    BY <2>2 DEF Whole, Chain
<1>5. ASSUME NEW x \in Timer, NEW y \in Timer, Two(x, y), t \in {x, y}
      PROVE  Whole'
  <2>1. CASE t = x
    <3>1. /\ succ' = [succ EXCEPT !["head"] = y, ![t] = NULL]
          /\ pred' = [pred EXCEPT ![y] = "head", ![t] = NULL]
      BY <1>1, <1>5, <2>1, Removed DEF Two
    <3>2. One(y)' /\ Unlisted
      BY <1>1, <1>2, <1>5, <2>1, <3>1 DEF One, Two, Node, Timer
    <3> QED
      BY <3>2 DEF Whole, Chain
  <2>2. CASE t = y
    <3>1. /\ succ' = [succ EXCEPT ![x] = "tail", ![t] = NULL]
          /\ pred' = [pred EXCEPT !["tail"] = x, ![t] = NULL]
      BY <1>1, <1>5, <2>2, Removed DEF Two
    <3>2. One(x)' /\ Unlisted
      BY <1>1, <1>2, <1>5, <2>2, <3>1 DEF One, Two, Node, Timer
    <3> QED
      BY <3>2 DEF Whole, Chain
  <2> QED
    BY <1>5, <2>1, <2>2
<1>6. ASSUME NEW x \in Timer, NEW y \in Timer, NEW z \in Timer,
             Three(x, y, z), t \in {x, y, z}
      PROVE  Whole'
  <2>1. rem[x] <= rem[z]
    BY <1>1, <1>6 DEF Three
  <2>2. CASE t = x
    <3>1. /\ succ' = [succ EXCEPT !["head"] = y, ![t] = NULL]
          /\ pred' = [pred EXCEPT ![y] = "head", ![t] = NULL]
      BY <1>1, <1>6, <2>2, Removed DEF Three
    <3>2. Two(y, z)' /\ Unlisted
      BY <1>1, <1>2, <1>6, <2>2, <3>1 DEF Two, Three, Node, Timer
    <3> QED
      BY <3>2 DEF Whole, Chain
  <2>3. CASE t = y
    <3>1. /\ succ' = [succ EXCEPT ![x] = z, ![t] = NULL]
          /\ pred' = [pred EXCEPT ![z] = x, ![t] = NULL]
      BY <1>1, <1>6, <2>3, Removed DEF Three
    <3>2. Two(x, z)' /\ Unlisted
      BY <1>1, <1>2, <1>6, <2>1, <2>3, <3>1 DEF Two, Three, Node, Timer
    <3> QED
      BY <3>2 DEF Whole, Chain
  <2>4. CASE t = z
    <3>1. /\ succ' = [succ EXCEPT ![y] = "tail", ![t] = NULL]
          /\ pred' = [pred EXCEPT !["tail"] = y, ![t] = NULL]
      BY <1>1, <1>6, <2>4, Removed DEF Three
    <3>2. Two(x, y)' /\ Unlisted
      BY <1>1, <1>2, <1>6, <2>4, <3>1 DEF Two, Three, Node, Timer
    <3> QED
      BY <3>2 DEF Whole, Chain
  <2> QED
    BY <1>6, <2>2, <2>3, <2>4
<1>7. CASE t \in active
  BY <1>4, <1>5, <1>6, <1>7 DEF Whole, Chain, None, One, Two, Three
<1> QED
  BY <1>3, <1>7

-----------------------------------------------------------------------------
(***************************************************************************)
(* The inductive invariant, the soundness of the list, the refinement.     *)
(***************************************************************************)
\* A task runs only between its start and its end.
TaskKnown == IF pc = "task" THEN task \in Timer ELSE task = "none"

TimersInv == TypeInv /\ TaskKnown /\ (~misused => Whole)

\* Time passes alike for all the timers.
LEMMA SecondWhole ==
  ASSUME TypeInv, Whole, Second
  PROVE  Whole'
<1>1. /\ UNCHANGED <<succ, pred, active>>
      /\ \A t \in Timer : rem'[t] = IF rem[t] = 0 THEN 0 ELSE rem[t] - 1
      /\ \A t \in Timer : rem[t] \in Nat
  BY DEF Second, list, TypeInv, TypeOK
<1>2. ASSUME NEW x \in Timer, NEW y \in Timer, rem[x] <= rem[y]
      PROVE  rem'[x] <= rem'[y]
  BY <1>1, <1>2
<1>3. Chain'
  BY <1>1, <1>2 DEF Whole, Chain, None, One, Two, Three, Link
<1> QED
  BY <1>1, <1>3 DEF Whole

\* The other variables do not matter to the list.
LEMMA WholeKept ==
  ASSUME Whole, UNCHANGED list, rem' = rem
  PROVE  Whole'
BY DEF Whole, Chain, None, One, Two, Three, Link, list

\* Every step keeps the list whole until a timer is inserted twice.
LEMMA TimersStep == TimersInv /\ [Next]_vars => TimersInv'
<1> SUFFICES ASSUME TimersInv, [Next]_vars PROVE TimersInv'
  OBVIOUS
<1>1. TypeInv'
  BY TypeStep DEF TimersInv
<1>2. ASSUME NEW t \in Timer, timer_addToList(t), ~misused'
      PROVE  Whole' /\ pc' = "poll"
  <2>1. ~misused /\ t \notin active
    BY <1>2, Zenon DEF timer_addToList
  <2> QED
    BY <1>2, <2>1, InsertWhole DEF TimersInv
<1>3. ASSUME NEW t \in Timer, timer_addToList(t) PROVE pc' # "task"
  BY <1>3 DEF timer_addToList
<1>4. ASSUME NEW t \in Timer, timer_remove(t), rem' = rem
      PROVE  ~misused' => Whole'
  <2>1. misused' = misused
    BY <1>4 DEF timer_remove
  <2> QED
    BY <1>4, <2>1, RemoveWhole DEF TimersInv
<1>5. ASSUME UNCHANGED <<list, rem, misused>> PROVE ~misused' => Whole'
  BY <1>5, WholeKept DEF TimersInv
<1>6. CASE PollStarts
  <2>1. succ["head"] \in Timer
    BY <1>1, <1>6 DEF PollStarts, Expired, Load, TimersInv, TypeInv, TypeOK,
                      EndsKept, Node
  <2>2. /\ timer_remove(succ["head"]) /\ rem' = rem
        /\ task' = succ["head"] /\ pc' = "task"
    BY <1>6 DEF PollStarts
  <2> QED
    BY <1>1, <1>4, <2>1, <2>2 DEF TimersInv, TaskKnown
<1>7. CASE PollEnds \/ ButtonTaskEnds \/ CheckSignals \/ Edge
  <2>1. UNCHANGED <<list, rem, misused>> /\ TaskKnown'
    BY <1>7 DEF PollEnds, ButtonTaskEnds, CheckSignals, Edge, TimersInv,
                TaskKnown, TypeInv, TypeOK
  <2> QED
    BY <1>1, <1>5, <2>1 DEF TimersInv
<1>8. CASE PeriodicTaskEnds
  <2>1. task \in Timer /\ timer_addToList(task) /\ task' = "none"
    BY <1>8 DEF PeriodicTaskEnds, Reschedule, Periodic, Timer
  <2>2. pc' # "task" /\ (~misused' => Whole')
    BY <1>2, <1>3, <2>1
  <2> QED
    BY <1>1, <2>1, <2>2 DEF TimersInv, TaskKnown
<1>9. CASE ButtonTaskResets \/ WatchdogResets
  <2>1. controlSetup
    BY <1>9 DEF ButtonTaskResets, WatchdogResets
  <2>2. Whole' /\ TaskKnown'
    BY <2>1, BootWhole DEF controlSetup, TaskKnown
  <2> QED
    BY <1>1, <2>2 DEF TimersInv
<1>10. CASE ButtonPressed
  <2>1. "btn" \in Timer /\ timer_addToList("btn") /\ task' = task /\ pc = "button"
    BY <1>10 DEF ButtonPressed, Timer
  <2>2. pc' # "task" /\ (~misused' => Whole') /\ task = "none"
    BY <1>2, <1>3, <2>1 DEF TimersInv, TaskKnown
  <2> QED
    BY <1>1, <2>1, <2>2 DEF TimersInv, TaskKnown
<1>11. CASE ButtonReleased
  <2>1. "btn" \in Timer /\ timer_remove("btn") /\ rem' = rem /\ TaskKnown'
    BY <1>11 DEF ButtonReleased, Timer, TimersInv, TaskKnown
  <2> QED
    BY <1>1, <1>4, <2>1 DEF TimersInv
<1>12. CASE Second
  <2>1. TaskKnown' /\ misused' = misused
    BY <1>12 DEF Second, TimersInv, TaskKnown
  <2> QED
    BY <1>1, <1>12, <2>1, SecondWhole DEF TimersInv
<1>13. CASE UNCHANGED vars
  <2>1. UNCHANGED <<list, rem, misused>> /\ TaskKnown'
    BY <1>13 DEF vars, TimersInv, TaskKnown
  <2> QED
    BY <1>1, <1>5, <2>1 DEF TimersInv
<1> QED
  BY <1>6, <1>7, <1>8, <1>9, <1>10, <1>11, <1>12, <1>13 DEF Next, MainLoop

\* The invariant holds at boot.
LEMMA InitTimersInv == Init => TimersInv
<1> SUFFICES ASSUME Init PROVE TimersInv
  OBVIOUS
<1>1. TypeInv
  BY BootType DEF Init, TypeInv, TypeOK, EndsKept, Periodic, Timer
<1>2. /\ Two("cmd", "sms")
      /\ \A t \in Timer \ active : succ[t] = NULL /\ pred[t] = NULL
  BY DelayAssumption
  DEF Init, Two, Link, BootSucc, BootPred, BootRem, Node, Timer, Periodic, NULL
<1> QED
  BY <1>1, <1>2 DEF TimersInv, Whole, Chain, TaskKnown, Init, Timer

\* The inductive invariant of the timers, in every behaviour.
LEMMA InvHolds == Spec => []TimersInv
BY InitTimersInv, TimersStep, PTL DEF Spec

\* Until a timer is inserted twice the list is whole and sorted, whenever the
\* button is pressed and released and however long the delays are.
THEOREM ListIsSound == Spec => []ListSound
<1>1. TimersInv => ListSound
  BY WholeIsSound DEF TimersInv, ListSound
<1> QED
  BY <1>1, InvHolds, PTL

-----------------------------------------------------------------------------
(***************************************************************************)
(* No task is forgotten.                                                   *)
(***************************************************************************)
PeriodicKept == \A t \in Periodic : t \in active \/ task = t

\* A periodic task leaves the list to run, and its last statement puts it back;
\* the button moves no timer but its own.  On a broken list as well: a timer
\* that is unhooked stays active.
LEMMA KeptStep == PeriodicKept /\ TimersInv /\ [Next]_vars => PeriodicKept'
<1> SUFFICES ASSUME PeriodicKept, TimersInv, [Next]_vars PROVE PeriodicKept'
  OBVIOUS
<1>1. "btn" \notin Periodic /\ "none" \notin Periodic
  BY DEF Periodic
<1>2. CASE PollStarts
  <2>1. task = "none" /\ task' = succ["head"] /\ active' = active \ {succ["head"]}
    BY <1>2 DEF PollStarts, timer_remove, TimersInv, TaskKnown
  <2> QED
    BY <1>1, <2>1 DEF PeriodicKept
<1>3. CASE PeriodicTaskEnds
  <2>1. active' = active \cup {task}
    BY <1>3 DEF PeriodicTaskEnds, Reschedule, timer_addToList
  <2> QED
    BY <2>1 DEF PeriodicKept
<1>4. CASE ButtonTaskEnds
  BY <1>1, <1>4 DEF ButtonTaskEnds, PeriodicKept, list
<1>5. CASE ButtonTaskResets \/ WatchdogResets
  <2>1. active' = Periodic
    BY <1>5 DEF ButtonTaskResets, WatchdogResets, controlSetup
  <2> QED
    BY <2>1 DEF PeriodicKept
<1>6. CASE ButtonPressed
  <2>1. active' = active \cup {"btn"} /\ task' = task
    BY <1>6 DEF ButtonPressed, timer_addToList
  <2> QED
    BY <2>1 DEF PeriodicKept
<1>7. CASE ButtonReleased
  <2>1. active' = active \ {"btn"} /\ task' = task
    BY <1>7 DEF ButtonReleased, timer_remove
  <2> QED
    BY <1>1, <2>1 DEF PeriodicKept
<1>8. CASE PollEnds \/ CheckSignals \/ Edge \/ Second \/ UNCHANGED vars
  <2>1. active' = active /\ task' = task
    BY <1>8 DEF PollEnds, CheckSignals, Edge, Second, vars, list
  <2> QED
    BY <2>1 DEF PeriodicKept
<1> QED
  BY <1>2, <1>3, <1>4, <1>5, <1>6, <1>7, <1>8 DEF Next, MainLoop

\* The periodic tasks stay scheduled: a task the list has lost is lost to a
\* double insertion and to nothing else.
THEOREM TasksStayScheduled == Spec => []TasksScheduled
<1>1. Init => PeriodicKept
  BY DEF Init, PeriodicKept
<1>2. PeriodicKept /\ TimersInv => TasksScheduled
  BY WholeIsSound DEF PeriodicKept, TimersInv, TasksScheduled
<1> QED
  BY <1>1, <1>2, KeptStep, InvHolds, PTL DEF Spec

-----------------------------------------------------------------------------
\* A whole list holds the active timers.
LEMMA ListedIsActive ==
  /\ TimersInv /\ ~misused => Listed = active
  /\ TimersInv' /\ ~misused' => Listed' = active'
<1>1. TimersInv /\ ~misused => Listed = active
  BY WholeIsSound DEF TimersInv
<1>2. (TimersInv /\ ~misused => Listed = active)'
  BY <1>1, PTL
<1> QED
  BY <1>1, <1>2

\* What the list does is what the queue of scheduled timers does.
LEMMA QueueStep ==
  ASSUME TimersInv, TimersInv', [Next]_vars
  PROVE  [misused' \/ Queue!QueueNext]_(Queue!queueVars)
<1> USE DEF Queue!queueVars
<1> SUFFICES ASSUME ~misused'
             PROVE  Queue!QueueNext \/ UNCHANGED <<Listed, rem, task>>
  OBVIOUS
<1>1. Listed' = active'
  BY ListedIsActive
<1>2. ~misused => Listed = active
  BY ListedIsActive
<1>3. ASSUME UNCHANGED <<list, misused>> PROVE Listed' = Listed
  BY <1>1, <1>2, <1>3 DEF list
<1>4. ASSUME NEW t \in Timer, timer_addToList(t)
      PROVE  /\ t \notin Listed /\ Listed' = Listed \cup {t}
             /\ rem' = [rem EXCEPT ![t] = Delay[t]]
  <2>1. ~misused /\ t \notin active
    BY <1>4, Zenon DEF timer_addToList
  <2> QED
    BY <1>1, <1>2, <1>4, <2>1 DEF timer_addToList, NewTick
<1>5. ASSUME NEW t \in Timer, timer_remove(t)
      PROVE  Listed = active /\ Listed' = Listed \ {t}
  <2>1. ~misused
    BY <1>5 DEF timer_remove
  <2> QED
    BY <1>1, <1>2, <1>5, <2>1 DEF timer_remove
<1>6. CASE PollStarts
  <2> DEFINE t == succ["head"]
  <2>1. t \in Timer
    BY <1>6 DEF PollStarts, Expired, Load, TimersInv, TypeInv, TypeOK,
                EndsKept, Node
  <2>2. /\ timer_remove(t) /\ rem' = rem /\ task' = t /\ task = "none"
        /\ rem[t] = 0 /\ misused' = misused
    BY <1>6 DEF PollStarts, Expired, TimersInv, TaskKnown, timer_remove
  <2>3. t \in active
    <3>1. succ["head"] # "tail"
      BY <2>1 DEF Timer
    <3>2. Whole
      BY <2>2 DEF TimersInv
    <3> QED
      BY <3>1, <3>2 DEF Whole, Chain, None, One, Two, Three, Link
  <2>4. Queue!Start(t)
    BY <1>5, <2>1, <2>2, <2>3 DEF Queue!Start
  <2> QED
    BY <2>1, <2>4 DEF Queue!QueueNext
<1>7. CASE PollEnds \/ CheckSignals \/ Edge
  BY <1>3, <1>7 DEF PollEnds, CheckSignals, Edge, list
<1>8. CASE ButtonTaskEnds
  <2>1. UNCHANGED <<list, misused, rem>> /\ task = "btn" /\ task' = "none"
    BY <1>8 DEF ButtonTaskEnds
  <2>2. Queue!Finish
    BY <1>3, <2>1 DEF Queue!Finish
  <2> QED
    BY <2>2 DEF Queue!QueueNext
<1>9. CASE PeriodicTaskEnds
  <2>1. task \in Timer /\ timer_addToList(task) /\ task' = "none"
    BY <1>9 DEF PeriodicTaskEnds, Reschedule, Periodic, Timer
  <2>2. Queue!Schedule(task)
    BY <1>4, <2>1 DEF Queue!Schedule
  <2> QED
    BY <2>1, <2>2 DEF Queue!QueueNext
<1>10. CASE ButtonTaskResets \/ WatchdogResets
  <2>1. controlSetup
    BY <1>10 DEF ButtonTaskResets, WatchdogResets
  <2>2. Queue!Boot
    BY <1>1, <2>1 DEF controlSetup, BootRem, Queue!Boot
  <2> QED
    BY <2>2 DEF Queue!QueueNext
<1>11. CASE ButtonPressed
  <2>1. /\ "btn" \in Timer /\ timer_addToList("btn") /\ task' = task
        /\ task = "none"
    BY <1>11 DEF ButtonPressed, Timer, TimersInv, TaskKnown
  <2>2. Queue!Schedule("btn")
    BY <1>4, <2>1 DEF Queue!Schedule
  <2> QED
    BY <2>1, <2>2 DEF Queue!QueueNext
<1>12. CASE ButtonReleased
  <2>1. /\ "btn" \in Timer /\ timer_remove("btn") /\ rem' = rem
        /\ task' = task /\ task = "none"
    BY <1>12 DEF ButtonReleased, Timer, TimersInv, TaskKnown
  <2>2. "btn" \in Listed => Queue!Cancel("btn")
    BY <1>5, <2>1 DEF Queue!Cancel
  <2>3. "btn" \notin Listed => Listed' = Listed
    BY <1>5, <2>1
  <2> QED
    BY <2>1, <2>2, <2>3 DEF Queue!QueueNext
<1>13. CASE Second
  <2>1. Queue!Second
    BY <1>3, <1>13 DEF Second, Queue!Second, button
  <2> QED
    BY <2>1 DEF Queue!QueueNext
<1>14. CASE UNCHANGED vars
  BY <1>3, <1>14 DEF vars
<1> QED
  BY <1>6, <1>7, <1>8, <1>9, <1>10, <1>11, <1>12, <1>13, <1>14
  DEF Next, MainLoop

\* The list of timer.c implements the queue of scheduled timers for any delays,
\* until a timer is inserted twice and again after the reset that follows.
THEOREM ListImplementsQueue == Spec => TimersImplementQueue
<1>1. Init => Queue!QueueInit
  <2> SUFFICES ASSUME Init PROVE Queue!QueueInit
    OBVIOUS
  <2>1. Listed = Periodic
    BY InitTimersInv, ListedIsActive DEF Init
  <2> QED
    BY <2>1 DEF Init, BootRem, Queue!QueueInit
<1>2. TimersInv /\ TimersInv' /\ [Next]_vars
      => [misused' \/ Queue!QueueNext]_(Queue!queueVars)
  BY QueueStep
<1> QED
  BY <1>1, <1>2, InvHolds, PTL DEF Spec, TimersImplementQueue

-----------------------------------------------------------------------------
(***************************************************************************)
(* The broken list: what is left of the links when the button timer was    *)
(* inserted twice, and twice again.                                        *)
(***************************************************************************)
\* Every link is answered by the link back, but for the links to the button
\* timer: several may be left that it has forgotten.
LinksAnswered == \A n \in Node : succ[n] \in {NULL, "btn"} \/ pred[succ[n]] = n

\* The one it answers is there, and without one it leads nowhere.
ButtonLinked ==
  IF pred["btn"] = NULL THEN succ["btn"] = NULL ELSE succ[pred["btn"]] = "btn"

\* A timer that is not scheduled leads nowhere, and nobody knows the timer of
\* the periodic task that runs.
InactiveEnds == \A t \in Timer \ active : succ[t] = NULL
RunningUnlinked == task \in Periodic => succ[task] = NULL /\ pred[task] = NULL

Loose == LinksAnswered /\ ButtonLinked
BrokenInv == Loose /\ InactiveEnds /\ RunningUnlinked

\* Where a link leads to
Reached == {succ[n] : n \in Node}

\* The search ends at such a place, and never at the timer it is for, unless
\* that is the end of the list.
LEMMA SearchReached ==
  ASSUME TypeInv, NEW t \in Timer
  PROVE  /\ Search(t) \in Reached
         /\ Stops(Search(t), t) /\ Search(t) = t => succ[t] = NULL
<1>1. succ["head"] \in Reached
  BY DEF Reached, Node
<1>2. ASSUME NEW n \in Reached PROVE Step(t, n) \in Reached
  BY DEF Step, Stops, Reached, TypeInv, TypeOK
<1> DEFINE n1 == Step(t, succ["head"])
           n2 == Step(t, n1)
           n3 == Step(t, n2)
           n4 == Step(t, n3)
           n5 == Step(t, n4)
<1>3. n1 \in Reached
  BY <1>1, <1>2
<1>4. n2 \in Reached
  BY <1>2, <1>3
<1>5. n3 \in Reached
  BY <1>2, <1>4
<1>6. n4 \in Reached
  BY <1>2, <1>5
<1>7. n5 \in Reached
  BY <1>2, <1>6
<1>8. Search(t) \in Reached
  BY <1>7, Zenon DEF Search
<1>9. t # NULL
  BY DEF Timer, NULL
<1> QED
  BY <1>8, <1>9 DEF Stops

\* An insertion leaves no other link unanswered: not the second one of the
\* button timer either, which forgets the links the timer had.
LEMMA InsertLoose ==
  ASSUME TypeInv, Loose, NEW t \in Timer, NEW n \in Reached,
         n = t => succ[t] = NULL,
         t = "btn" \/ (succ[t] = NULL /\ pred[t] = NULL),
         INSERT_BEFORE(t, n)
  PROVE  /\ Loose'
         /\ \A u \in Node \ {t} : succ[u] = NULL => succ'[u] = NULL
<1> USE DEF Loose, LinksAnswered, ButtonLinked
<1>0. /\ t \in Node /\ t # NULL /\ "btn" \in Node /\ n \in Node \cup {NULL}
      /\ NULL \notin Node
      /\ succ \in [Node -> Node \cup {NULL}] /\ pred \in [Node -> Node \cup {NULL}]
  BY DEF TypeInv, TypeOK, Reached, Node, Timer, NULL
<1>1. n \notin {NULL, "btn"} => pred[n] \in Node /\ succ[pred[n]] = n
  BY <1>0 DEF Reached
<1>2. CASE n = NULL
  <2>1. /\ succ' = [succ EXCEPT ![t] = NULL] /\ pred' = [pred EXCEPT ![t] = NULL]
    BY <1>0, <1>2 DEF INSERT_BEFORE, Store, Load
  <2> QED
    BY <1>0, <2>1
<1>3. CASE n = t
  <2>1. t = "btn"
    BY <1>0, <1>1, <1>3
  <2>2. /\ succ' = [succ EXCEPT ![t] = t] /\ pred' = [pred EXCEPT ![t] = t]
    BY <1>0, <1>3, <2>1 DEF INSERT_BEFORE, Store, Load
  <2> QED
    BY <1>0, <2>1, <2>2
<1>4. CASE n # NULL /\ n # t /\ pred[n] = NULL
  <2>1. n = "btn"
    BY <1>0, <1>1, <1>4
  <2>2. /\ succ' = [succ EXCEPT ![t] = n] /\ pred' = [pred EXCEPT ![n] = t]
    BY <1>0, <1>4, <2>1 DEF INSERT_BEFORE, Store, Load
  <2> QED
    BY <1>0, <1>4, <2>1, <2>2
<1>5. CASE n # NULL /\ n # t /\ pred[n] # NULL
  <2>1. pred[n] \in Node /\ succ[pred[n]] = n
    BY <1>0, <1>1, <1>5
  <2>2. CASE pred[n] = t
    <3>1. t = "btn"
      BY <1>5, <2>1, <2>2
    <3>2. /\ succ' = [succ EXCEPT ![t] = t] /\ pred' = [pred EXCEPT ![t] = t]
      BY <1>0, <1>5, <2>2, <3>1 DEF INSERT_BEFORE, Store, Load
    <3> QED
      BY <1>0, <3>1, <3>2
  <2>3. CASE pred[n] # t
    <3>1. /\ succ' = [succ EXCEPT ![t] = n, ![pred[n]] = t]
          /\ pred' = [pred EXCEPT ![t] = pred[n], ![n] = t]
      BY <1>0, <1>5, <2>1, <2>3, Inserted DEF Link
    <3> QED
      BY <1>0, <1>5, <2>1, <2>3, <3>1
  <2> QED
    BY <2>2, <2>3
<1> QED
  BY <1>2, <1>3, <1>4, <1>5

\* So does a removal, of the button timer or of the first in the list.
LEMMA RemoveLoose ==
  ASSUME TypeInv, Loose, NEW t \in Timer,
         t = "btn" \/ succ["head"] = t,
         REMOVE(t)
  PROVE  /\ Loose' /\ succ'[t] = NULL /\ pred'[t] = NULL
         /\ \A u \in Node : succ[u] = NULL => succ'[u] = NULL
<1> USE DEF Loose, LinksAnswered, ButtonLinked
<1> DEFINE p == pred[t]
           n == succ[t]
<1>0. /\ t \in Node /\ t # NULL /\ t # "head" /\ "btn" \in Node /\ "head" \in Node
      /\ NULL \notin Node
      /\ succ \in [Node -> Node \cup {NULL}] /\ pred \in [Node -> Node \cup {NULL}]
  BY DEF TypeInv, TypeOK, Node, Timer, NULL
<1>1. IF p = NULL THEN t = "btn" /\ n = NULL ELSE p \in Node /\ succ[p] = t
  BY <1>0
<1>2. CASE p = NULL
  <2>1. UNCHANGED <<succ, pred>>
    BY <1>0, <1>1, <1>2 DEF REMOVE, Store
  <2> QED
    BY <1>1, <1>2, <2>1
<1>3. CASE p = t
  <2>1. /\ succ' = [succ EXCEPT ![t] = NULL] /\ pred' = [pred EXCEPT ![t] = NULL]
    BY <1>0, <1>1, <1>3 DEF REMOVE, Store
  <2> QED
    BY <1>0, <1>1, <1>3, <2>1
<1>4. CASE p # NULL /\ p # t /\ n = NULL
  <2>1. /\ succ' = [succ EXCEPT ![p] = NULL, ![t] = NULL]
        /\ pred' = [pred EXCEPT ![t] = NULL]
    BY <1>0, <1>1, <1>4 DEF REMOVE, Store
  <2> QED
    BY <1>0, <1>1, <1>4, <2>1
<1>5. CASE p # NULL /\ p # t /\ n # NULL
  <2>1. /\ succ' = [succ EXCEPT ![p] = n, ![t] = NULL]
        /\ pred' = [pred EXCEPT ![n] = p, ![t] = NULL]
    BY <1>0, <1>1, <1>5 DEF REMOVE, Store
  <2> QED
    BY <1>0, <1>1, <1>5, <2>1
<1> QED
  BY <1>2, <1>3, <1>4, <1>5

\* What a broken list keeps when a timer is inserted, wherever the search ends
\* and whether it ends or not
LEMMA AddBroken ==
  ASSUME TypeInv, BrokenInv, NEW t \in Timer,
         t = "btn" \/ (succ[t] = NULL /\ pred[t] = NULL),
         timer_addToList(t), task' = "none"
  PROVE  BrokenInv'
<1>1. active' = active \cup {t} /\ RunningUnlinked'
  BY DEF timer_addToList, RunningUnlinked, Periodic
<1>2. CASE Stops(Search(t), t)
  <2>1. INSERT_BEFORE(t, Search(t))
    BY <1>2 DEF timer_addToList
  <2>2. /\ Loose'
        /\ \A u \in Node \ {t} : succ[u] = NULL => succ'[u] = NULL
    BY <1>2, <2>1, SearchReached, InsertLoose DEF BrokenInv
  <2> QED
    BY <1>1, <2>2 DEF BrokenInv, InactiveEnds, Node
<1>3. CASE ~Stops(Search(t), t)
  <2>1. UNCHANGED <<succ, pred>>
    BY <1>3 DEF timer_addToList
  <2> QED
    BY <1>1, <2>1
    DEF BrokenInv, InactiveEnds, Loose, LinksAnswered, ButtonLinked
<1> QED
  BY <1>2, <1>3

\* ... and when one is removed
LEMMA RemoveBroken ==
  ASSUME TypeInv, BrokenInv, NEW t \in Timer,
         t = "btn" \/ succ["head"] = t,
         timer_remove(t), task' \in {t, "none"}
  PROVE  BrokenInv'
<1>1. REMOVE(t) /\ active' = active \ {t}
  BY DEF timer_remove
<1>2. /\ Loose' /\ succ'[t] = NULL /\ pred'[t] = NULL
      /\ \A u \in Node : succ[u] = NULL => succ'[u] = NULL
  BY <1>1, RemoveLoose DEF BrokenInv
<1>3. InactiveEnds'
  BY <1>1, <1>2 DEF BrokenInv, InactiveEnds, Node
<1>4. RunningUnlinked'
  BY <1>2 DEF RunningUnlinked, Periodic
<1> QED
  BY <1>2, <1>3, <1>4 DEF BrokenInv

\* The boot's list is answered, and no task runs.
LEMMA BootBroken ==
  /\ \A n \in Node : BootSucc[n] \in {NULL, "btn"} \/ BootPred[BootSucc[n]] = n
  /\ BootPred["btn"] = NULL /\ BootSucc["btn"] = NULL
  /\ Timer \ Periodic = {"btn"} /\ "none" \notin Periodic
BY DEF BootSucc, BootPred, Node, Timer, Periodic, NULL

\* Every step keeps what is left, on a list broken or whole.
LEMMA BrokenStep == TimersInv /\ BrokenInv /\ [Next]_vars => BrokenInv'
<1> SUFFICES ASSUME TimersInv, BrokenInv, [Next]_vars PROVE BrokenInv'
  OBVIOUS
<1>0. TypeInv /\ TaskKnown /\ "btn" \in Timer
  BY DEF TimersInv, Timer
<1>1. CASE PollStarts
  <2>1. succ["head"] \in Timer
    BY <1>0, <1>1 DEF PollStarts, Expired, Load, TypeInv, TypeOK, EndsKept, Node
  <2> QED
    BY <1>0, <1>1, <2>1, RemoveBroken DEF PollStarts
<1>2. CASE PeriodicTaskEnds
  <2>1. /\ task \in Timer /\ timer_addToList(task) /\ task' = "none"
        /\ succ[task] = NULL /\ pred[task] = NULL
    BY <1>2 DEF PeriodicTaskEnds, Reschedule, Periodic, Timer, BrokenInv,
                RunningUnlinked
  <2> QED
    BY <1>0, <2>1, AddBroken
<1>3. CASE ButtonPressed
  <2>1. timer_addToList("btn") /\ task' = "none"
    BY <1>0, <1>3 DEF ButtonPressed, TaskKnown
  <2> QED
    BY <1>0, <2>1, AddBroken
<1>4. CASE ButtonReleased
  <2>1. timer_remove("btn") /\ task' = "none"
    BY <1>0, <1>4 DEF ButtonReleased, TaskKnown
  <2> QED
    BY <1>0, <2>1, RemoveBroken
<1>5. CASE ButtonTaskResets \/ WatchdogResets
  <2>1. controlSetup
    BY <1>5 DEF ButtonTaskResets, WatchdogResets
  <2> QED
    BY <2>1, BootBroken
    DEF controlSetup, BrokenInv, Loose, LinksAnswered, ButtonLinked,
        InactiveEnds, RunningUnlinked
<1>6. CASE PollEnds \/ ButtonTaskEnds \/ CheckSignals \/ Edge \/ Second
           \/ UNCHANGED vars
  <2>1. UNCHANGED <<succ, pred, active>> /\ task' \in {task, "none"}
    BY <1>6 DEF PollEnds, ButtonTaskEnds, CheckSignals, Edge, Second, vars, list
  <2>2. RunningUnlinked'
    BY <2>1 DEF BrokenInv, RunningUnlinked, Periodic
  <2> QED
    BY <2>1, <2>2
    DEF BrokenInv, Loose, LinksAnswered, ButtonLinked, InactiveEnds
<1> QED
  BY <1>1, <1>2, <1>3, <1>4, <1>5, <1>6 DEF Next, MainLoop

\* However often the list was broken, no task starts that was not scheduled
\* since its last start or removal: an expired timer has a successor, and a
\* timer that is not scheduled has none.
THEOREM StartsAreScheduled == Spec => StartsOnlyScheduled
<1>1. Init => BrokenInv
  <2> SUFFICES ASSUME Init PROVE BrokenInv
    OBVIOUS
  <2> QED
    BY BootBroken
    DEF Init, BrokenInv, Loose, LinksAnswered, ButtonLinked, InactiveEnds,
        RunningUnlinked
<1>2. TimersInv /\ BrokenInv => (PollStarts => succ["head"] \in active)
  <2> SUFFICES ASSUME TimersInv, BrokenInv, PollStarts
               PROVE  succ["head"] \in active
    OBVIOUS
  <2>1. succ["head"] \in Timer /\ succ[succ["head"]] # NULL
    BY DEF PollStarts, Expired, Load, TimersInv, TypeInv, TypeOK, EndsKept, Node
  <2> QED
    BY <2>1 DEF BrokenInv, InactiveEnds
<1>3. TimersInv /\ BrokenInv /\ [Next]_vars
      => [PollStarts => succ["head"] \in active]_vars
  BY <1>2
<1> QED
  BY <1>1, <1>3, BrokenStep, InvHolds, PTL DEF Spec, StartsOnlyScheduled
=============================================================================
