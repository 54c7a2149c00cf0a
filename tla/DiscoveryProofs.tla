--------------------------- MODULE DiscoveryProofs ---------------------------
(***************************************************************************)
(* Proofs about Discovery, for every set of tasks, page size, room and     *)
(* number of events: what a reading hands on is one room (Coherent), and   *)
(* no page of it is left out (NothingMissed), whatever people do between   *)
(* two pages and whatever GitHub answers.                                  *)
(***************************************************************************)
EXTENDS Discovery, FiniteSetTheorems, WellFoundedInduction, TLAPS

-----------------------------------------------------------------------------
(* Two items of one task do not stand side by side.                        *)
OneItem == \A e, f \in got.item : e.task = f.task => e = f

(* Until a project of the name is taken a discovery has no items, and what *)
(* an export has collected has one item per task at every page.            *)
Collected ==
  /\ got = [c \in Connections |-> got[c]]
  /\ command \in {"discover", "export"}
  /\ command = "discover" => pc # "export"
  /\ command = "export" => matches = 0 /\ pc \in {"export", "done", "refused"}
  /\ command = "export" => OneItem
  /\ pc = "list" => got.item = {}
  /\ pc = "listed" => got.item = {}
  /\ Coherent

LEMMA CollectedInit == Init => Collected
BY DEF Init, Collected, Coherent, OneItem, NoNodes, Connections

(* What people do leaves the reader's own state alone.                     *)
LEMMA PeopleLeave ==
  ASSUME People
  PROVE  UNCHANGED <<command, pc, why, readVars>>
BY DEF People, NewProject, NewField, NewIssue, Retag, AddItem, RemoveItem, DeleteIssue,
       SetValue, Happens

LEMMA Kept ==
  ASSUME Collected, UNCHANGED <<command, pc, readVars>>
  PROVE  Collected'
BY DEF Collected, Coherent, OneItem, readVars, Clash, IssuesFound, Ids

LEMMA Refused ==
  ASSUME Collected, NEW reason, Refuse(reason)
  PROVE  Collected'
BY DEF Collected, Coherent, OneItem, Refuse, NoNodes, Connections, hubVars

(* A page of the projects and issues: no item comes before the project.    *)
LEMMA Listed ==
  ASSUME Collected, List
  PROVE  Collected'
<1>1. PICK p, i : Refuse("cycle") \/ (pc = "list" /\ Take(p, i))
  BY DEF List
<1>2. CASE pc = "list" /\ Take(p, i)
  <2>1. got'.item = {} /\ got' = [c \in Connections |-> got'[c]]
    BY <1>2 DEF Take, Collected, Connections
  <2>2. pc' \in {"list", "listed"} /\ command' = command
    BY <1>2 DEF Take, Goto, hubVars
  <2>3. command = "discover"
    BY <1>2 DEF Collected
  <2> QED BY <2>1, <2>2, <2>3 DEF Collected, Coherent
<1> QED BY <1>1, <1>2, Refused

(* The steps between the list and the end of a discovery.                  *)
Between ==
  \/ Match \/ RestOfValues \/ \E c \in Nested : Follow(c) \/ Complete(c)

LEMMA StaysBetween ==
  ASSUME Collected, Between
  PROVE  Collected'
<1>1. CASE \E reason : Refuse(reason)
  BY <1>1, Refused
<1>2. CASE ~\E reason : Refuse(reason)
  <2>1. pc \notin {"export", "done", "refused"}
    BY DEF Between, Match, RestOfValues, Follow, Complete, Nested
  <2>2. command = "discover"
    BY <2>1 DEF Collected
  <2>3. pc' \in {"field", "item", "value"} /\ command' = command
    BY <1>2 DEF Between, Match, RestOfValues, Follow, Complete, Nested, Behind, Goto, hubVars
  <2>4. got' = [c \in Connections |-> got'[c]]
    BY <1>2 DEF Between, Match, RestOfValues, Follow, Complete, readVars, Nested, Connections,
       Collected
  <2> QED BY <2>2, <2>3, <2>4 DEF Collected, Coherent
<1> QED BY <1>1, <1>2

(* A discovery without a project hands on the issues alone.                *)
LEMMA Alone ==
  ASSUME Collected, Standalone
  PROVE  Collected'
<1>1. CASE \E reason : Refuse(reason)
  BY <1>1, Refused
<1>2. CASE ~\E reason : Refuse(reason)
  <2>1. ~Clash(got.issue) /\ got.item = {} /\ matches = 0
    BY <1>2 DEF Standalone, Collected
  <2>2. UNCHANGED <<got, matches, command>> /\ pc' = "done"
    BY <1>2 DEF Standalone, Goto, readVars, hubVars
  <2>3. ~Clash(IssuesFound)
    <3>1. ASSUME NEW x \in IssuesFound
          PROVE  \E i \in got.issue : x = [id |-> i.id, task |-> i.task]
      BY <2>1 DEF IssuesFound
    <3> QED BY <2>1, <3>1 DEF Clash
  <2>4. command # "export"
    BY <1>2 DEF Standalone, Collected
  <2> QED BY <2>1, <2>2, <2>3, <2>4 DEF Collected, Coherent, Clash, IssuesFound
<1> QED BY <1>1, <1>2

(* What Unfit refuses is all that Coherent asks for.                       *)
LEMMA Parsed ==
  ASSUME Collected, Parse
  PROVE  Collected'
<1>1. CASE \E reason : Refuse(reason)
  BY <1>1, Refused
<1>2. CASE ~\E reason : Refuse(reason)
  <2>1. ~Unfit
    BY <1>2 DEF Parse
  <2>2. UNCHANGED <<got, matches, command>> /\ pc' = "done"
    BY <1>2 DEF Parse, Goto, readVars, hubVars
  <2>3. Coherent'
    BY <2>1, <2>2 DEF Unfit, Coherent, Clash, IssuesFound, Ids
  <2>4. command # "export"
    BY DEF Parse, Collected
  <2> QED BY <2>2, <2>3, <2>4 DEF Collected
<1> QED BY <1>1, <1>2

(* Each page of the board is compared with all that came before it.        *)
LEMMA Exported ==
  ASSUME Collected, Export
  PROVE  Collected'
<1>1. CASE \E reason : Refuse(reason)
  BY <1>1, Refused
<1>2. CASE ~\E reason : Refuse(reason)
  <2>1. PICK answer :
          /\ ~Spoilt(answer.nodes)
          /\ got' = [got EXCEPT !.item = @ \cup answer.nodes]
          /\ Goto(IF answer.more THEN "export" ELSE "done")
          /\ UNCHANGED <<again, matches, page>>
    BY <1>2 DEF Export
  <2>2. command = "export" /\ matches = 0 /\ OneItem
    BY DEF Export, Collected
  <2>3. got'.item = got.item \cup answer.nodes /\ got' = [c \in Connections |-> got'[c]]
    BY <2>1 DEF Collected, Connections
  <2>4. OneItem'
    BY <2>1, <2>2, <2>3 DEF Spoilt, OneItem
  <2>5. command' = command /\ matches' = matches /\ pc' \in {"export", "done"}
    BY <2>1 DEF Goto, hubVars
  <2> QED BY <2>2, <2>3, <2>4, <2>5 DEF Collected, Coherent, OneItem
<1> QED BY <1>1, <1>2

LEMMA CollectedStep ==
  ASSUME Collected, [Next]_vars
  PROVE  Collected'
<1>1. CASE UNCHANGED vars
  BY <1>1, Kept DEF vars, hubVars
<1>2. CASE People
  BY <1>2, PeopleLeave, Kept
<1>3. CASE Ambiguous \/ Fail
  BY <1>3, Refused DEF Ambiguous, Fail
<1> QED BY <1>1, <1>2, <1>3, Listed, StaysBetween, Alone, Parsed, Exported
    DEF Next, Reader, Between

(* What a reading hands on is one room although it was read in pieces, in  *)
(* every room and with every answer: one item per task and, in a           *)
(* discovery, one issue per task, no issue under two tasks and no value of *)
(* a field that was not read (github.py:1855-2156, models.py:805-878).     *)
THEOREM OneRoom == Spec => []Coherent
<1>1. Collected => Coherent
  BY DEF Collected
<1> QED BY <1>1, CollectedInit, CollectedStep, PTL DEF Spec

-----------------------------------------------------------------------------
(* The least of some natural numbers, and the greatest of finitely many:   *)
(* a set of them without a greatest one, with fewest elements, would have  *)
(* one when an element is taken away.                                      *)
LEMMA Least ==
  ASSUME NEW S \in SUBSET Nat, S # {}
  PROVE  \E x \in S : \A y \in S : x <= y
<1> DEFINE R == {ss \in Nat \X Nat : ss[1] < ss[2]}
<1>1. IsWellFoundedOn(R, Nat)
  BY NatLessThanWellFounded DEF OpToRel
<1> HIDE DEF R
<1>2. PICK x \in S : \A y \in S : ~(<<y, x>> \in R)
  BY <1>1, WFMin
<1>3. \A y \in S : ~(y < x)
  BY <1>2 DEF R
<1> QED BY <1>3

LEMMA Greatest ==
  ASSUME NEW S \in SUBSET Nat, S # {}, IsFiniteSet(S)
  PROVE  \E x \in S : \A y \in S : y <= x
<1> DEFINE Headless == {T \in SUBSET Nat : /\ T # {} /\ IsFiniteSet(T)
                                          /\ ~\E x \in T : \A y \in T : y <= x}
           Sizes == {Cardinality(T) : T \in Headless}
<1> SUFFICES ASSUME S \in Headless PROVE FALSE
  OBVIOUS
<1>1. Sizes \in SUBSET Nat /\ Sizes # {}
  BY FS_CardinalityType
<1>2. PICK n \in Sizes : \A m \in Sizes : n <= m
  BY <1>1, Least
<1>3. PICK T \in Headless : n = Cardinality(T)
  BY <1>2
<1>4. PICK x \in T : TRUE
  BY <1>3
<1> DEFINE U == T \ {x}
<1>5. IsFiniteSet(U) /\ Cardinality(U) = n - 1 /\ n \in Nat
  BY <1>1, <1>3, <1>4, FS_RemoveElement
<1>6. U \notin Headless
  <2>1. ASSUME U \in Headless PROVE FALSE
    <3>1. Cardinality(U) \in Sizes
      BY <2>1
    <3> HIDE DEF Sizes, Headless
    <3> QED BY <1>2, <1>5, <3>1
  <2> QED BY <2>1
<1>7. CASE U = {}
  <2>1. \A y \in T : y = x
    BY <1>7
  <2>2. \A y \in T : y <= x
    BY <1>3, <2>1
  <2> QED BY <1>3, <1>4, <2>2
<1>8. CASE U # {}
  <2>1. PICK m \in U : \A y \in U : y <= m
    BY <1>3, <1>5, <1>6, <1>8
  <2>2. x \in Nat /\ m \in Nat /\ T \subseteq Nat
    BY <1>3, <1>4
  <2>3. CASE x <= m
    <3>1. \A y \in T : y <= m
      BY <2>1, <2>3
    <3> QED BY <1>3, <3>1
  <2>4. CASE m <= x
    <3>1. \A y \in T : y <= x
      BY <2>1, <2>2, <2>4
    <3> QED BY <1>3, <1>4, <3>1
  <2> QED BY <2>2, <2>3, <2>4
<1> QED BY <1>7, <1>8

-----------------------------------------------------------------------------
(* GitHub: the nodes of a connection are finitely many and have the        *)
(* numbers below `next`, a new node a new one, and a project stays what it *)
(* was.                                                                    *)
Numbered(n) == n.id \in Nat /\ 0 < n.id /\ n.id < hub.next
HubOK ==
  /\ hub = [x \in Connections \cup {"next"} |-> hub[x]] /\ hub.next \in Nat \ {0}
  /\ \A c \in Connections : /\ IsFiniteSet(hub[c])
                            /\ \A n \in hub[c] : Numbered(n)
                            /\ \A n \in began[c] : Numbered(n)
  /\ \A n \in hub.project, p \in began.project : n.id = p.id => n = p

LEMMA HubInit == Init => HubOK
<1> SUFFICES ASSUME Init PROVE HubOK
  OBVIOUS
<1>1. PICK w \in SeqOf(BOOLEAN, MaxNodes), t \in SeqOf(Tasks, MaxNodes),
           b \in SeqOf(1..MaxNodes, MaxNodes) : hub = Room(w, t, b)
  BY DEF Init
<1>2. PICK j \in 0..MaxNodes, k \in 0..MaxNodes, l \in 0..MaxNodes :
        DOMAIN w = 1..j /\ DOMAIN t = 1..k /\ DOMAIN b = 1..l
  BY DEF SeqOf
<1>3. /\ hub = [x \in Connections \cup {"next"} |-> hub[x]] /\ hub.next = MaxNodes + 3
      /\ hub.project = {[id |-> x, wanted |-> w[x]] : x \in 1..j}
      /\ hub.issue = {[id |-> x, task |-> t[x]] : x \in 1..k}
      /\ hub.item = {[id |-> x, issue |-> b[x], values |-> <<1, 2>>] : x \in 1..l}
      /\ hub.field = {[id |-> 1], [id |-> 2]}
  BY <1>1, <1>2 DEF Connections, Room
<1>4. /\ IsFiniteSet(1..j) /\ IsFiniteSet(1..k) /\ IsFiniteSet(1..l) /\ IsFiniteSet(1..2)
      /\ MaxNodes \in Nat /\ began = hub
  <2>1. \A n \in Nat : IsFiniteSet(1..n)
    BY FS_Interval
  <2>2. MaxNodes \in Nat /\ began = hub
    BY PageAssumption DEF Init
  <2>3. j \in Nat /\ k \in Nat /\ l \in Nat /\ 2 \in Nat
    BY <2>2
  <2> QED BY <2>1, <2>2, <2>3
<1>5. \A c \in Connections : IsFiniteSet(hub[c])
  <2>1. IsFiniteSet(hub.project)
    <3>1. [x \in 1..j |-> [id |-> x, wanted |-> w[x]]] \in Surjection(1..j, hub.project)
      BY <1>3 DEF Surjection
    <3> QED BY <1>4, <3>1, FS_Surjection
  <2>2. IsFiniteSet(hub.issue)
    <3>1. [x \in 1..k |-> [id |-> x, task |-> t[x]]] \in Surjection(1..k, hub.issue)
      BY <1>3 DEF Surjection
    <3> QED BY <1>4, <3>1, FS_Surjection
  <2>3. IsFiniteSet(hub.item)
    <3>1. [x \in 1..l |-> [id |-> x, issue |-> b[x], values |-> <<1, 2>>]]
            \in Surjection(1..l, hub.item)
      BY <1>3 DEF Surjection
    <3> QED BY <1>4, <3>1, FS_Surjection
  <2>4. IsFiniteSet(hub.field)
    <3>1. \A x, y : IsFiniteSet({x} \cup {y})
      BY FS_Singleton, FS_AddElement
    <3>2. hub.field = {[id |-> 1]} \cup {[id |-> 2]}
      BY <1>3
    <3> QED BY <3>1, <3>2
  <2> QED BY <2>1, <2>2, <2>3, <2>4 DEF Connections
<1>6. \A c \in Connections : \A n \in hub[c] : Numbered(n)
  <2>1. ASSUME NEW n \in hub.project PROVE n.id \in 1..j
    <3>1. PICK x \in 1..j : n = [id |-> x, wanted |-> w[x]]
      BY <1>3
    <3> QED BY <3>1
  <2>2. ASSUME NEW n \in hub.issue PROVE n.id \in 1..k
    <3>1. PICK x \in 1..k : n = [id |-> x, task |-> t[x]]
      BY <1>3
    <3> QED BY <3>1
  <2>3. ASSUME NEW n \in hub.item PROVE n.id \in 1..l
    <3>1. PICK x \in 1..l : n = [id |-> x, issue |-> b[x], values |-> <<1, 2>>]
      BY <1>3
    <3> QED BY <3>1
  <2>4. ASSUME NEW n \in hub.field PROVE n.id \in 1..2
    <3>1. n = [id |-> 1] \/ n = [id |-> 2]
      BY <1>3
    <3> QED BY <3>1
  <2>5. ASSUME NEW c \in Connections, NEW n \in hub[c]
        PROVE  n.id \in Nat /\ 0 < n.id /\ n.id < MaxNodes + 3
    <3>1. n.id \in 1..j \/ n.id \in 1..k \/ n.id \in 1..l \/ n.id \in 1..2
      BY <2>1, <2>2, <2>3, <2>4 DEF Connections
    <3> QED BY <1>4, <3>1
  <2> QED BY <1>3, <2>5 DEF Numbered
<1>7. ASSUME NEW n \in hub.project, NEW p \in hub.project, n.id = p.id
      PROVE  n = p
  <2>1. PICK x \in 1..j : n = [id |-> x, wanted |-> w[x]]
    BY <1>3
  <2>2. PICK y \in 1..j : p = [id |-> y, wanted |-> w[y]]
    BY <1>3
  <2>3. x = y
    BY <1>7, <2>1, <2>2
  <2> QED BY <2>1, <2>2, <2>3
<1>8. hub = [x \in Connections \cup {"next"} |-> hub[x]] /\ hub.next \in Nat \ {0}
  BY <1>3, <1>4
<1>9. began = hub
  BY <1>4
<1> QED BY <1>5, <1>6, <1>7, <1>8, <1>9 DEF HubOK

(* Nothing comes back: what is there under an old number was there before. *)
Fresh(c) ==
  \A n \in hub'[c] : n.id = hub.next \/ \E m \in hub[c] : m.id = n.id

LEMMA PeopleWork ==
  ASSUME HubOK, People
  PROVE  HubOK' /\ \A c \in Connections : Fresh(c)
<1>0. /\ \A c \in Connections : IsFiniteSet(hub[c]) /\ \A n \in hub[c] : Numbered(n)
      /\ \A n \in hub.project, p \in began.project : n.id = p.id => n = p
      /\ hub.next \in Nat \ {0} /\ began' = began
      /\ \A c \in Connections : \A n \in began[c] : Numbered(n)
  BY PeopleLeave DEF HubOK, People, NewProject, NewField, NewIssue, Retag, AddItem, RemoveItem,
     DeleteIssue, SetValue, Happens
<1>1. ASSUME NEW c \in Connections, NEW node, node.id = hub.next, Happens(Made(c, node))
      PROVE  HubOK' /\ \A d \in Connections : Fresh(d)
  <2>1. hub' = [hub EXCEPT ![c] = @ \cup {node}, !.next = @ + 1]
    BY <1>1 DEF Happens, Made
  <2>2. /\ hub' = [x \in Connections \cup {"next"} |-> hub'[x]] /\ hub'.next = hub.next + 1
        /\ hub'[c] = hub[c] \cup {node} /\ \A d \in Connections \ {c} : hub'[d] = hub[d]
    BY <2>1 DEF HubOK, Connections
  <2>3. ASSUME NEW d \in Connections PROVE IsFiniteSet(hub'[d])
    <3>1. IsFiniteSet(hub[d]) /\ hub'[d] \in {hub[d], hub[d] \cup {node}}
      BY <1>0, <2>2
    <3>2. IsFiniteSet(hub[d] \cup {node})
      BY <3>1, FS_AddElement
    <3> QED BY <3>1, <3>2
  <2>4. ASSUME NEW d \in Connections, NEW n \in hub'[d]
        PROVE  n.id \in Nat /\ 0 < n.id /\ n.id < hub'.next
    <3>1. n \in hub[d] \/ n = node
      BY <2>2
    <3>2. CASE n \in hub[d]
      <4>1. n.id \in Nat /\ 0 < n.id /\ n.id < hub.next
        BY <1>0, <3>2 DEF Numbered
      <4> QED BY <1>0, <2>2, <4>1
    <3>3. CASE n = node
      <4>1. 0 < hub.next
        BY <1>0
      <4> QED BY <1>0, <1>1, <2>2, <3>3, <4>1
    <3> QED BY <3>1, <3>2, <3>3
  <2>5. \A d \in Connections : \A n \in began[d] : Numbered(n)'
    BY <1>0, <2>2 DEF Numbered
  <2>6. \A n \in hub'.project, p \in began.project : n.id = p.id => n = p
    <3>1. \A p \in began.project : p.id # hub.next
      BY <1>0 DEF Numbered, Connections
    <3> QED BY <1>0, <1>1, <2>2, <3>1 DEF Connections
  <2>7. \A d \in Connections : Fresh(d)
    BY <1>1, <2>2 DEF Fresh
  <2>8. \A d \in Connections : \A n \in hub'[d] : Numbered(n)'
    BY <2>4 DEF Numbered
  <2> QED BY <1>0, <2>2, <2>3, <2>5, <2>6, <2>7, <2>8 DEF HubOK
<1>2. ASSUME NEW c \in {"issue", "item"}, NEW old \in hub[c], NEW new, new.id = old.id,
             Happens(Changed(c, old, new))
      PROVE  HubOK' /\ \A d \in Connections : Fresh(d)
  <2>1. hub' = [hub EXCEPT ![c] = (@ \ {old}) \cup {new}]
    BY <1>2 DEF Happens, Changed
  <2>2. /\ hub' = [x \in Connections \cup {"next"} |-> hub'[x]] /\ hub'.next = hub.next
        /\ hub'[c] = (hub[c] \ {old}) \cup {new}
        /\ \A d \in Connections \ {c} : hub'[d] = hub[d]
    BY <2>1 DEF HubOK, Connections
  <2>3. ASSUME NEW d \in Connections PROVE IsFiniteSet(hub'[d])
    <3>1. IsFiniteSet(hub[d]) /\ hub'[d] \in {hub[d], (hub[d] \ {old}) \cup {new}}
      BY <1>0, <2>2
    <3>2. IsFiniteSet(hub[d] \ {old})
      BY <3>1, FS_Subset
    <3>3. IsFiniteSet((hub[d] \ {old}) \cup {new})
      BY <3>2, FS_AddElement
    <3> QED BY <3>1, <3>3
  <2>4. \A d \in Connections : \A n \in hub'[d] : Numbered(n)'
    BY <1>0, <1>2, <2>2 DEF Numbered, Connections
  <2>5. \A d \in Connections : \A n \in began[d] : Numbered(n)'
    BY <1>0, <2>2 DEF Numbered
  <2>6. hub'.project = hub.project
    BY <2>2 DEF Connections
  <2>7. \A d \in Connections : Fresh(d)
    BY <1>2, <2>2 DEF Fresh
  <2> QED BY <1>0, <2>2, <2>3, <2>4, <2>5, <2>6, <2>7 DEF HubOK
<1>3. ASSUME RemoveItem \/ DeleteIssue
      PROVE  HubOK' /\ \A d \in Connections : Fresh(d)
  <2>1. /\ hub' = [x \in Connections \cup {"next"} |-> hub'[x]] /\ hub'.next = hub.next
        /\ hub'.project = hub.project /\ \A d \in Connections : hub'[d] \subseteq hub[d]
    BY <1>3 DEF RemoveItem, DeleteIssue, Happens, HubOK, Connections
  <2>2. \A d \in Connections : IsFiniteSet(hub'[d])
    BY <1>0, <2>1, FS_Subset
  <2> QED BY <1>0, <2>1, <2>2 DEF HubOK, Numbered, Fresh
<1>4. CASE NewProject \/ NewField \/ NewIssue \/ AddItem
  <2>1. \E c \in Connections : \E node : node.id = hub.next /\ Happens(Made(c, node))
    BY <1>4 DEF NewProject, NewField, NewIssue, AddItem, Connections
  <2> QED BY <1>1, <2>1
<1>5. CASE Retag \/ SetValue
  <2>1. \E c \in {"issue", "item"} : \E old \in hub[c] : \E new :
          new.id = old.id /\ Happens(Changed(c, old, new))
    <3>1. CASE Retag
      BY <3>1 DEF Retag
    <3>2. CASE SetValue
      BY <3>2 DEF SetValue
    <3> QED BY <1>5, <3>1, <3>2
  <2> QED BY <1>2, <2>1
<1> QED BY <1>3, <1>4, <1>5 DEF People

-----------------------------------------------------------------------------
(* Pages.  One brings every node behind its cursor up to its end, and all  *)
(* of them if no more are announced.                                       *)
LEMMA PageHolds ==
  ASSUME HubOK, NEW c \in Connections, NEW cursor \in Nat
  PROVE  /\ Page(c, cursor).end \in Nat
         /\ \A n \in hub[c] :
              n.id > cursor /\ (~Page(c, cursor).more \/ n.id <= Page(c, cursor).end)
                => AsRead(c, n) \in Page(c, cursor).nodes
<1> DEFINE rest == Following(c, cursor)
           here == Leading(rest)
           end == IF here = {} THEN cursor ELSE Max(Ids(here))
<1>1. /\ Page(c, cursor).nodes = {AsRead(c, n) : n \in here}
      /\ Page(c, cursor).more = (here # rest) /\ Page(c, cursor).end = end
  BY DEF Page
<1>2. /\ IsFiniteSet(rest) /\ here \subseteq rest
      /\ \A n \in rest : n \in hub[c] /\ n.id \in Nat /\ n.id > cursor
  <2>1. rest \subseteq hub[c]
    BY DEF Following
  <2>2. IsFiniteSet(rest)
    BY <2>1, FS_Subset DEF HubOK
  <2> QED BY <2>1, <2>2 DEF Following, Leading, HubOK, Numbered
<1> HIDE DEF rest
<1>3. end \in Nat /\ (here # {} => \E h \in here : h.id = end)
  <2>1. CASE here = {}
    BY <2>1
  <2>2. CASE here # {}
    <3> DEFINE ids == Ids(here)
    <3>1. ids \in SUBSET Nat /\ ids # {}
      BY <1>2, <2>2 DEF Ids
    <3>2. IsFiniteSet(ids)
      <4>1. IsFiniteSet(here)
        BY <1>2, FS_Subset
      <4>2. [n \in here |-> n.id] \in Surjection(here, ids)
        BY DEF Surjection, Ids
      <4> QED BY <4>1, <4>2, FS_Surjection
    <3> HIDE DEF ids
    <3>3. \E x \in ids : \A y \in ids : y <= x
      BY <3>1, <3>2, Greatest
    <3>4. \E x \in ids : \A y \in ids : x >= y
      BY <3>1, <3>3
    <3>5. Max(ids) \in ids
      BY <3>4 DEF Max
    <3> QED BY <2>2, <3>1, <3>5 DEF ids, Ids
  <2> QED BY <2>1, <2>2
<1>4. ASSUME NEW n \in rest, n.id <= end
      PROVE  n \in here
  <2>1. here # {}
    BY <1>2, <1>4
  <2>2. PICK h \in here : h.id = end
    BY <1>3, <2>1
  <2> DEFINE low(m) == {o \in rest : o.id <= m.id}
  <2>3. low(n) \subseteq low(h)
    BY <1>2, <1>4, <2>2
  <2>4. IsFiniteSet(low(h)) /\ IsFiniteSet(low(n))
    BY <1>2, FS_Subset
  <2>5. Cardinality(low(n)) <= Cardinality(low(h))
    BY <2>3, <2>4, FS_Subset
  <2>6. Cardinality(low(h)) <= PageSize
    BY <2>2 DEF Leading
  <2>7. Cardinality(low(n)) \in Nat /\ Cardinality(low(h)) \in Nat /\ PageSize \in Nat
    BY <2>4, FS_CardinalityType, PageAssumption
  <2>8. Cardinality(low(n)) <= PageSize
    BY <2>5, <2>6, <2>7
  <2> QED BY <2>8 DEF Leading
<1>5. ASSUME NEW n \in here PROVE AsRead(c, n) \in Page(c, cursor).nodes
  BY <1>1, <1>5
<1>6. ASSUME NEW n \in hub[c], n.id > cursor, here = rest \/ n.id <= end
      PROVE  n \in here
  <2>1. n \in rest
    BY <1>6 DEF rest, Following
  <2> QED BY <1>4, <1>6, <2>1
<1> HIDE DEF here, end
<1> QED BY <1>1, <1>3, <1>5, <1>6

LEMMA PageOf ==
  ASSUME HubOK, NEW c \in Connections, NEW cursor \in Nat
  PROVE  /\ Page(c, cursor).end \in Nat
         /\ \A n \in hub[c] :
              n.id > cursor /\ (~Page(c, cursor).more \/ n.id <= Page(c, cursor).end)
                => n.id \in Ids(Page(c, cursor).nodes)
<1>1. ASSUME NEW n, AsRead(c, n) \in Page(c, cursor).nodes
      PROVE  n.id \in Ids(Page(c, cursor).nodes)
  <2>1. AsRead(c, n).id = n.id
    BY DEF AsRead
  <2> QED BY <1>1, <2>1 DEF Ids
<1> QED BY <1>1, PageHolds

(* An answer is the page, or one that points back.                         *)
LEMMA AnswerIs ==
  ASSUME NEW c \in Connections, NEW cursor, NEW a \in Answers(c, cursor)
  PROVE  \/ a = Page(c, cursor)
         \/ /\ a.nodes = Page(c, cursor).nodes /\ a.more
            /\ a.end \in (cursors[c] \cup {cursor}) \ {0}
<1>1. CASE a = Page(c, cursor)
  BY <1>1
<1>2. ASSUME NEW e \in (cursors[c] \cup {cursor}) \ {0},
             a = [Page(c, cursor) EXCEPT !.more = TRUE, !.end = e]
      PROVE  a.nodes = Page(c, cursor).nodes /\ a.more /\ a.end = e
  BY <1>2 DEF Page
<1> QED BY <1>1, <1>2 DEF Answers

(* A page of the board is a page of items with all their values.           *)
LEMMA BoardRecord ==
  ASSUME NEW c \in Connections, NEW cursor, NEW a \in Answers(c, cursor), NEW new
  PROVE  LET b == [a EXCEPT !.nodes = new]
         IN  b.more = a.more /\ b.end = a.end /\ b.nodes = new
BY DEF Answers, Page

(* What was read up to a cursor, and a page from there.                    *)
Reached(c, k, ids) == \A n \in Lasting(c) : n <= k => n \in ids

LEMMA PageReaches ==
  ASSUME HubOK, NEW c \in Connections, NEW cursor \in Nat, NEW ids, Reached(c, cursor, ids)
  PROVE  \A n \in Lasting(c) :
           ~Page(c, cursor).more \/ n <= Page(c, cursor).end
             => n \in ids \cup Ids(Page(c, cursor).nodes)
<1> SUFFICES ASSUME NEW n \in Lasting(c), ~Page(c, cursor).more \/ n <= Page(c, cursor).end
             PROVE  n \in ids \cup Ids(Page(c, cursor).nodes)
  OBVIOUS
<1>1. PICK m \in hub[c] : m.id = n
  BY DEF Lasting, Seen
<1>2. n \in Nat
  BY <1>1 DEF HubOK, Numbered
<1>3. CASE n <= cursor
  BY <1>3 DEF Reached
<1>4. CASE n > cursor
  BY <1>1, <1>4, PageOf
<1> QED BY <1>2, <1>3, <1>4

-----------------------------------------------------------------------------
(* Type correctness.  Cursors are numbers, a page is only kept of the      *)
(* project that was found, and an export keeps only items with all their   *)
(* values.                                                                 *)
CursorsOK ==
  /\ after = [c \in Connections |-> after[c]] /\ cursors = [c \in Connections |-> cursors[c]]
  /\ \A c \in Connections : cursors[c] \subseteq Nat /\ after[c] \in cursors[c] \cup {0}
PagesOK ==
  /\ page = [c \in Nested |-> page[c]]
  /\ \A c \in Nested : page[c].end \in Nat
  /\ matches \in 0..2
  /\ matches = 0 => page = NoPages
ValuesOK == command = "export" \/ pc = "done" => \A e \in got.item : ~e.more
ProgressOK ==
  /\ pc \in {"list", "listed", "field", "item", "value", "export", "done", "refused"}
  /\ again \in BOOLEAN /\ events \in 0..MaxEvents
  /\ (pc = "refused") = (why # "")
ReaderOK == CursorsOK /\ PagesOK /\ ValuesOK /\ ProgressOK

LEMMA ReaderTypes == ReaderOK => DiscoveryTypeOK
BY DEF ReaderOK, CursorsOK, PagesOK, ValuesOK, ProgressOK, DiscoveryTypeOK

(* Nothing read: the start, and a refusal.                                 *)
Empty == after = AtStart /\ cursors = NoNodes /\ got = NoNodes /\ matches = 0 /\ page = NoPages

LEMMA EmptyOK == Empty => CursorsOK /\ PagesOK /\ ValuesOK
<1> SUFFICES ASSUME Empty PROVE CursorsOK /\ PagesOK /\ ValuesOK
  OBVIOUS
<1>1. CursorsOK
  BY DEF Empty, CursorsOK, AtStart, NoNodes
<1>2. PagesOK
  BY DEF Empty, PagesOK, NoPages, NoPage
<1>3. ValuesOK
  BY DEF Empty, ValuesOK, NoNodes, Connections
<1> QED BY <1>1, <1>2, <1>3

LEMMA ReaderInit == Init => ReaderOK
<1> SUFFICES ASSUME Init PROVE ReaderOK
  OBVIOUS
<1>1. Empty
  BY DEF Init, Empty
<1>2. /\ pc \in {"list", "export"} /\ why = "" /\ again = FALSE /\ events = 0
  BY DEF Init
<1>3. 0 \in 0..MaxEvents
  BY PageAssumption
<1>4. ProgressOK
  BY <1>2, <1>3 DEF ProgressOK
<1> QED BY <1>1, <1>4, EmptyOK DEF ReaderOK

LEMMA RefusedTypes ==
  ASSUME ReaderOK, NEW reason, reason # "", Refuse(reason)
  PROVE  ReaderOK'
<1>1. Empty'
  BY DEF Refuse, Empty
<1>2. CursorsOK' /\ PagesOK' /\ ValuesOK'
  BY <1>1, EmptyOK, PTL
<1>3. pc' = "refused" /\ why' = reason /\ again' = FALSE /\ events' = events
  BY DEF Refuse, hubVars
<1>4. ProgressOK'
  BY <1>3 DEF ProgressOK, ReaderOK
<1> QED BY <1>2, <1>4 DEF ReaderOK

LEMMA AnswerEnd ==
  ASSUME HubOK, CursorsOK, NEW c \in Connections, NEW cursor \in Nat, NEW a \in Answers(c, cursor)
  PROVE  a.end \in Nat
<1>1. cursors[c] \subseteq Nat
  BY DEF CursorsOK
<1>2. Page(c, cursor).end \in Nat
  BY PageOf
<1>3. a.end = Page(c, cursor).end \/ a.end \in (cursors[c] \cup {cursor}) \ {0}
  BY AnswerIs
<1> QED BY <1>1, <1>2, <1>3

(* The connection that was asked has its new cursor, and remembers it.     *)
LEMMA Moved ==
  ASSUME HubOK, CursorsOK, NEW c \in Connections, NEW a \in Answers(c, after[c])
  PROVE  /\ NextCursor(c, a) \in Spent(c, a) \cup {0} /\ Spent(c, a) \subseteq Nat
         /\ cursors[c] \subseteq Spent(c, a)
<1>1. after[c] \in cursors[c] \cup {0} /\ cursors[c] \subseteq Nat /\ after[c] \in Nat
  BY DEF CursorsOK
<1>2. a.end \in Nat
  BY <1>1, AnswerEnd
<1> QED BY <1>1, <1>2 DEF NextCursor, Spent

LEMMA ListTypes ==
  ASSUME HubOK, ReaderOK, List
  PROVE  ReaderOK'
<1>1. PICK p \in Answers("project", after.project), i \in Answers("issue", after.issue) :
        Refuse("cycle") \/ (pc = "list" /\ Take(p, i))
  BY DEF List
<1>2. CASE pc = "list" /\ Take(p, i)
  <2>1. CursorsOK'
    <3>1. /\ NextCursor("project", p) \in Spent("project", p) \cup {0}
          /\ Spent("project", p) \subseteq Nat
          /\ NextCursor("issue", i) \in Spent("issue", i) \cup {0}
          /\ Spent("issue", i) \subseteq Nat
      BY <1>1, Moved DEF Connections, ReaderOK
    <3>2. /\ after' = [after EXCEPT !.project = NextCursor("project", p),
                                    !.issue = NextCursor("issue", i)]
          /\ cursors' = [cursors EXCEPT !.project = Spent("project", p),
                                        !.issue = Spent("issue", i)]
      BY <1>2 DEF Take
    <3> QED BY <3>1, <3>2 DEF ReaderOK, CursorsOK, Connections
  <2>2. PagesOK'
    <3>1. TakeMatch(p)
      BY <1>2 DEF Take
    <3>2. CASE matches' = matches /\ page' = page
      BY <3>2 DEF ReaderOK, PagesOK
    <3>3. CASE matches' = 2 /\ page' = page
      BY <3>3 DEF ReaderOK, PagesOK
    <3>4. CASE matches' \in {1, 2} /\ page' = [c \in Nested |-> Page(c, 0)]
      <4>1. \A c \in Nested : page'[c].end \in Nat
        BY <3>4, PageOf DEF Nested, Connections
      <4> QED BY <3>4, <4>1 DEF PagesOK
    <3> QED BY <3>1, <3>2, <3>3, <3>4 DEF TakeMatch
  <2>3. /\ pc' \in {"list", "listed"} /\ why' = why /\ events' = events /\ command' = command
        /\ again' \in BOOLEAN
    BY <1>2 DEF Take, Goto, hubVars
  <2>4. ProgressOK'
    BY <1>2, <2>3 DEF ReaderOK, ProgressOK
  <2>5. got'.item = got.item
    BY <1>2 DEF Take
  <2>6. ValuesOK'
    BY <2>3, <2>5 DEF ReaderOK, ValuesOK
  <2> QED BY <2>1, <2>2, <2>4, <2>6 DEF ReaderOK
<1> QED BY <1>1, <1>2, RefusedTypes

LEMMA FollowTypes ==
  ASSUME HubOK, Collected, ReaderOK, NEW c \in Nested, Follow(c)
  PROVE  ReaderOK'
<1>1. PICK answer \in Answers(c, page[c].end) :
        \/ Refuse("cycle") \/ Refuse("duplicate")
        \/ /\ cursors' = [cursors EXCEPT ![c] = @ \cup {page[c].end}]
           /\ page' = [page EXCEPT ![c] = answer]
           /\ Goto(c)
           /\ UNCHANGED <<after, again, matches>>
  <2>1. Page(c, page[c].end) \in Answers(c, page[c].end)
    BY DEF Answers
  <2> QED BY <2>1 DEF Follow
<1>2. CASE /\ cursors' = [cursors EXCEPT ![c] = @ \cup {page[c].end}]
           /\ page' = [page EXCEPT ![c] = answer]
           /\ Goto(c)
           /\ UNCHANGED <<after, again, matches>>
  <2>1. c \in Connections /\ page[c].end \in Nat /\ pc \in Nested
    BY DEF Nested, Connections, ReaderOK, PagesOK, Follow
  <2>2. CursorsOK'
    BY <1>2, <2>1 DEF ReaderOK, CursorsOK
  <2>3. matches # 0
    <3>1. CASE page = NoPages
      <4>1. ~page[c].more
        BY <3>1 DEF NoPages, NoPage
      <4> QED BY <4>1 DEF Follow
    <3> QED BY <3>1 DEF ReaderOK, PagesOK
  <2>4. answer.end \in Nat
    BY <2>1, AnswerEnd DEF ReaderOK
  <2>5. PagesOK'
    BY <1>2, <2>3, <2>4 DEF ReaderOK, PagesOK
  <2>6. /\ pc' = pc /\ why' = why /\ events' = events /\ command' = command /\ again' = again
    BY <1>2 DEF Follow, Goto, hubVars
  <2>7. ProgressOK' /\ ValuesOK'
    BY <2>1, <2>6 DEF ReaderOK, ProgressOK, ValuesOK, Collected, Nested
  <2> QED BY <2>2, <2>5, <2>7 DEF ReaderOK
<1> QED BY <1>1, <1>2, RefusedTypes

(* The other steps ask for no new cursor and keep no new page.             *)
LEMMA OtherTypes ==
  ASSUME Collected, ReaderOK,
         Ambiguous \/ Match \/ Standalone \/ Parse \/ Fail \/ \E c \in Nested : Complete(c)
  PROVE  ReaderOK'
<1>1. CASE \E reason : reason # "" /\ Refuse(reason)
  BY <1>1, RefusedTypes
<1>2. CASE Match
  <2>1. CursorsOK' /\ PagesOK'
    BY <1>2 DEF Match, ReaderOK, CursorsOK, PagesOK
  <2>2. /\ pc' = "field" /\ why' = why /\ again' = again /\ events' = events
        /\ command' = command /\ pc = "listed"
    BY <1>2 DEF Match, Goto, hubVars
  <2>3. ProgressOK' /\ ValuesOK'
    BY <2>2 DEF ReaderOK, ProgressOK, ValuesOK, Collected
  <2> QED BY <2>1, <2>3 DEF ReaderOK
<1>3. ASSUME NEW label \in {"item", "value", "done"}, Goto(label), UNCHANGED readVars,
             pc # "refused", label = "done" => \A e \in got.item : ~e.more
      PROVE  ReaderOK'
  <2>1. CursorsOK' /\ PagesOK'
    BY <1>3 DEF readVars, ReaderOK, CursorsOK, PagesOK
  <2>2. /\ pc' = label /\ why' = why /\ again' = again /\ events' = events
        /\ command' = command /\ got' = got
    BY <1>3 DEF Goto, hubVars, readVars
  <2>3. ProgressOK'
    BY <1>3, <2>2 DEF ReaderOK, ProgressOK
  <2>4. ValuesOK'
    BY <1>3, <2>2 DEF ReaderOK, ValuesOK
  <2> QED BY <2>1, <2>3, <2>4 DEF ReaderOK
<1>4. CASE Standalone
  BY <1>1, <1>3, <1>4 DEF Standalone, Collected
<1>5. CASE Parse
  BY <1>1, <1>3, <1>5 DEF Parse
<1>6. ASSUME NEW c \in Nested, Complete(c) PROVE ReaderOK'
  <2>1. Behind[c] \in {"item", "value", "done"} /\ Behind[c] # "done" /\ pc # "refused"
    BY <1>6 DEF Complete, Behind, Nested
  <2> QED BY <1>3, <1>6, <2>1 DEF Complete
<1>7. CASE Ambiguous \/ Fail
  BY <1>1, <1>7 DEF Ambiguous, Fail
<1> QED BY <1>2, <1>4, <1>5, <1>6, <1>7

LEMMA RestTypes ==
  ASSUME Collected, ReaderOK, RestOfValues
  PROVE  ReaderOK'
<1>1. CASE Refuse("malformed")
  BY <1>1, RefusedTypes
<1>2. CASE Goto("value") /\ UNCHANGED <<after, cursors, again, matches, page>>
  <2>1. CursorsOK' /\ PagesOK'
    BY <1>2 DEF ReaderOK, CursorsOK, PagesOK
  <2>2. /\ pc' = "value" /\ pc = "value" /\ why' = why /\ again' = again
        /\ events' = events /\ command' = command
    BY <1>2 DEF RestOfValues, Goto, hubVars
  <2>3. ProgressOK' /\ ValuesOK'
    BY <2>2 DEF ReaderOK, ProgressOK, ValuesOK, Collected
  <2> QED BY <2>1, <2>3 DEF ReaderOK
<1> QED BY <1>1, <1>2 DEF RestOfValues

LEMMA ExportTypes ==
  ASSUME HubOK, Collected, ReaderOK, Export
  PROVE  ReaderOK'
<1>1. PICK answer \in BoardPages(after.item) :
        \/ Refuse("unfit")
        \/ /\ got' = [got EXCEPT !.item = @ \cup answer.nodes]
           /\ after' = [after EXCEPT !.item = NextCursor("item", answer)]
           /\ cursors' = [cursors EXCEPT !.item = Spent("item", answer)]
           /\ Goto(IF answer.more THEN "export" ELSE "done")
           /\ UNCHANGED <<again, matches, page>>
  BY DEF Export
<1>2. CASE /\ got' = [got EXCEPT !.item = @ \cup answer.nodes]
           /\ after' = [after EXCEPT !.item = NextCursor("item", answer)]
           /\ cursors' = [cursors EXCEPT !.item = Spent("item", answer)]
           /\ Goto(IF answer.more THEN "export" ELSE "done")
           /\ UNCHANGED <<again, matches, page>>
  <2>1. PICK a \in Answers("item", after.item) :
          answer = [a EXCEPT !.nodes = {RestOf(e) : e \in @}]
    BY DEF BoardPages
  <2>2. /\ answer.more = a.more /\ answer.end = a.end
        /\ answer.nodes = {RestOf(e) : e \in a.nodes}
    BY <2>1, BoardRecord
  <2>3. NextCursor("item", answer) = NextCursor("item", a)
        /\ Spent("item", answer) = Spent("item", a)
    BY <2>2 DEF NextCursor, Spent
  <2>4. CursorsOK'
    BY <1>2, <2>3, Moved DEF ReaderOK, CursorsOK, Connections
  <2>5. PagesOK'
    BY <1>2 DEF ReaderOK, PagesOK
  <2>6. /\ pc = "export" /\ pc' \in {"export", "done"} /\ why' = why /\ again' = again
        /\ events' = events /\ command' = command
    BY <1>2 DEF Export, Goto, hubVars
  <2>7. ProgressOK'
    BY <2>6 DEF ReaderOK, ProgressOK
  <2>8. \A e \in got'.item : ~e.more
    <3>1. \A e \in answer.nodes : ~e.more
      BY <2>2 DEF RestOf
    <3>2. \A e \in got.item : ~e.more
      BY <2>6 DEF Collected, ReaderOK, ValuesOK
    <3>3. got'.item = got.item \cup answer.nodes
      BY <1>2 DEF Collected, Connections
    <3> QED BY <3>1, <3>2, <3>3
  <2>9. ValuesOK'
    BY <2>8 DEF ValuesOK
  <2> QED BY <2>4, <2>5, <2>7, <2>9 DEF ReaderOK
<1> QED BY <1>1, <1>2, RefusedTypes

LEMMA PeopleTypes ==
  ASSUME ReaderOK, People
  PROVE  ReaderOK'
<1>1. UNCHANGED <<command, pc, why, readVars>>
  BY PeopleLeave
<1>2. events' = events + 1 /\ events < MaxEvents
  BY DEF People, NewProject, NewField, NewIssue, Retag, AddItem, RemoveItem, DeleteIssue,
     SetValue, Happens
<1>3. events' \in 0..MaxEvents
  <2>1. events \in 0..MaxEvents
    BY DEF ReaderOK, ProgressOK
  <2>2. MaxEvents \in Nat
    BY PageAssumption
  <2> QED BY <1>2, <2>1, <2>2
<1>4. CursorsOK' /\ PagesOK' /\ ValuesOK'
  BY <1>1 DEF readVars, ReaderOK, CursorsOK, PagesOK, ValuesOK
<1>5. ProgressOK'
  BY <1>1, <1>3 DEF readVars, ReaderOK, ProgressOK
<1> QED BY <1>4, <1>5 DEF ReaderOK

LEMMA ReaderStep ==
  ASSUME HubOK, Collected, ReaderOK, [Next]_vars
  PROVE  HubOK' /\ ReaderOK'
<1>1. CASE UNCHANGED vars
  <2>1. HubOK'
    BY <1>1 DEF vars, hubVars, HubOK, Numbered
  <2>2. ReaderOK'
    BY <1>1 DEF vars, hubVars, readVars, ReaderOK, CursorsOK, PagesOK, ValuesOK, ProgressOK
  <2> QED BY <2>1, <2>2
<1>2. CASE People
  BY <1>2, PeopleWork, PeopleTypes
<1>3. CASE Reader
  <2>1. UNCHANGED hubVars
    BY <1>3 DEF Reader, List, Take, Ambiguous, Match, Standalone, Follow, Complete,
       RestOfValues, Parse, Export, Fail, Goto, Refuse
  <2>2. HubOK'
    BY <2>1 DEF hubVars, HubOK, Numbered
  <2>3. ReaderOK'
    BY <1>3, ListTypes, FollowTypes, OtherTypes, RestTypes, ExportTypes DEF Reader
  <2> QED BY <2>2, <2>3
<1> QED BY <1>1, <1>2, <1>3 DEF Next

(* Type correctness, for every room, page size, answer and event.          *)
THEOREM TypeCorrect == Spec => []DiscoveryTypeOK
<1>1. Init => HubOK /\ Collected /\ ReaderOK
  BY HubInit, CollectedInit, ReaderInit
<1>2. HubOK /\ Collected /\ ReaderOK /\ [Next]_vars => (HubOK /\ Collected /\ ReaderOK)'
  BY CollectedStep, ReaderStep
<1> QED BY <1>1, <1>2, ReaderTypes, PTL DEF Spec

-----------------------------------------------------------------------------
(* Nothing is missed.  Whatever cursor a connection was asked from, all    *)
(* that lasts up to there has been read, or, of the projects, does not     *)
(* have the name.                                                          *)
Gone(k) == \A p \in Wanted(began.project) : p.id <= k => ~Seen("project", p.id)
NoneThere == \A p \in Wanted(began.project) : ~Seen("project", p.id)
Asked ==
  /\ \A c \in Connections \ {"project"} : \A k \in cursors[c] : Reached(c, k, Ids(got[c]))
  /\ matches = 0 => \A k \in cursors.project : Gone(k)

(* The lists are done when both are; a nested connection is followed from  *)
(* the first page that came with its project, and done when no page is     *)
(* announced.                                                              *)
Covers(c, ids) == \A n \in Lasting(c) : ~page[c].more \/ n <= page[c].end => n \in ids
Listing ==
  pc \in {"listed", "field", "item", "value"} =>
    /\ Lasting("issue") \subseteq Ids(got.issue)
    /\ matches = 0 => NoneThere
Opened ==
  pc \in {"list", "listed"} =>
    \A c \in Nested : /\ cursors[c] = {}
                      /\ matches # 0 => Covers(c, Ids(page[c].nodes))
Nesting ==
  /\ pc \in {"field", "item", "value"} => /\ matches = 1
                                         /\ \A c \in Nested : Covers(c, Ids(got[c]))
  /\ pc \in {"item", "value"} => ~page.field.more
  /\ pc = "value" => ~page.item.more
Reading == Asked /\ Listing /\ Opened /\ Nesting /\ NothingMissed

LEMMA ReadingInit == Init => Reading
<1> SUFFICES ASSUME Init PROVE Reading
  OBVIOUS
<1>1. /\ pc \in {"list", "export"} /\ matches = 0
      /\ \A c \in Connections : cursors[c] = {}
      /\ \A c \in Nested : c \in Connections
  BY DEF Init, NoNodes, Connections, Nested
<1>2. Asked /\ Opened
  BY <1>1 DEF Asked, Opened, Connections
<1>3. Listing /\ Nesting /\ NothingMissed
  BY <1>1 DEF Listing, Nesting, NothingMissed
<1> QED BY <1>2, <1>3 DEF Reading

LEMMA RefusedReading ==
  ASSUME NEW reason, Refuse(reason)
  PROVE  Reading'
<1>1. /\ pc' = "refused" /\ \A c \in Connections : cursors'[c] = {}
  BY DEF Refuse, NoNodes
<1>2. Asked'
  BY <1>1 DEF Asked, Connections
<1>3. (Listing /\ Opened /\ Nesting /\ NothingMissed)'
  BY <1>1 DEF Listing, Opened, Nesting, NothingMissed
<1> QED BY <1>2, <1>3 DEF Reading

(* People can take away what lasts, and add nothing to it.                 *)
LEMMA LastingShrinks ==
  ASSUME HubOK, People, NEW c \in Connections
  PROVE  Lasting(c)' \subseteq Lasting(c)
<1>1. Fresh(c) /\ began' = began
  BY PeopleWork DEF People, NewProject, NewField, NewIssue, Retag, AddItem, RemoveItem,
     DeleteIssue, SetValue, Happens
<1>2. \A n \in began[c] : n.id # hub.next
  BY DEF HubOK, Numbered
<1>3. ASSUME NEW n \in began[c], Seen(c, n.id)' PROVE Seen(c, n.id)
  BY <1>1, <1>2, <1>3 DEF Fresh, Seen
<1> QED BY <1>1, <1>3 DEF Lasting, Ids

LEMMA PeopleReading ==
  ASSUME HubOK, Reading, People
  PROVE  Reading'
<1>1. UNCHANGED <<command, pc, why, readVars>> /\ began' = began
  BY PeopleLeave DEF People, NewProject, NewField, NewIssue, Retag, AddItem, RemoveItem,
     DeleteIssue, SetValue, Happens
<1>2. pc # "done"
  BY DEF People, NewProject, NewField, NewIssue, Retag, AddItem, RemoveItem, DeleteIssue,
     SetValue, Happens
<1>3. \A c \in Connections : Lasting(c)' \subseteq Lasting(c)
  BY LastingShrinks
<1>4. \A p \in Wanted(began.project) : Seen("project", p.id)' => Seen("project", p.id)
  <2>1. SUFFICES ASSUME NEW p \in began.project, Seen("project", p.id)' PROVE Seen("project", p.id)
    BY DEF Wanted
  <2>2. p.id \in Lasting("project")'
    BY <1>1, <2>1 DEF Lasting, Ids
  <2>3. p.id \in Lasting("project")
    BY <1>3, <2>2 DEF Connections
  <2> QED BY <2>3 DEF Lasting
<1>5. /\ \A k : Gone(k) => Gone(k)'
      /\ NoneThere => NoneThere'
  BY <1>1, <1>4 DEF Gone, NoneThere, Wanted
<1>6. ASSUME NEW c \in Connections, NEW k, NEW ids, Reached(c, k, ids) PROVE Reached(c, k, ids)'
  BY <1>3, <1>6 DEF Reached
<1>7. ASSUME NEW c \in Nested, NEW ids, Covers(c, ids) PROVE Covers(c, ids)'
  <2>1. c \in Connections /\ page' = page
    BY <1>1 DEF Nested, Connections, readVars
  <2> QED BY <1>3, <1>7, <2>1 DEF Covers
<1>8. Asked'
  BY <1>1, <1>5, <1>6 DEF Asked, Reading, readVars, Ids
<1>9. Listing'
  BY <1>1, <1>3, <1>5 DEF Listing, Reading, readVars, Ids, Connections
<1>10. Opened'
  BY <1>1, <1>7 DEF Opened, Reading, readVars, Ids
<1>11. Nesting' /\ NothingMissed'
  BY <1>1, <1>2, <1>7 DEF Nesting, NothingMissed, Reading, readVars, Ids
<1> QED BY <1>8, <1>9, <1>10, <1>11 DEF Reading

(* The start is before every node, so what a connection is asked from has  *)
(* always been reached.                                                    *)
LEMMA FromHere ==
  ASSUME HubOK, CursorsOK, Asked, NEW c \in Connections
  PROVE  /\ after[c] \in Nat
         /\ c # "project" => Reached(c, after[c], Ids(got[c]))
         /\ c = "project" /\ matches = 0 => Gone(after[c])
<1>1. after[c] \in cursors[c] \cup {0} /\ cursors[c] \subseteq Nat
  BY DEF CursorsOK
<1>2. \A n \in began[c] : ~(n.id <= 0)
  BY DEF HubOK, Numbered
<1>3. Reached(c, 0, Ids(got[c]))
  BY <1>2 DEF Reached, Lasting, Ids
<1>4. c = "project" => Gone(0)
  BY <1>2 DEF Gone, Wanted
<1> QED BY <1>1, <1>3, <1>4 DEF Asked

(* A list is only read on from answers that point to a new cursor, which   *)
(* are GitHub's pages.                                                     *)
LEMMA Honest ==
  ASSUME CursorsOK, NEW c \in Connections, NEW a \in Answers(c, after[c]), ~Used(c, a)
  PROVE  a = Page(c, after[c])
<1>1. after[c] \in cursors[c] \cup {0}
  BY DEF CursorsOK
<1> QED BY <1>1, AnswerIs DEF Used

LEMMA Joined ==
  ASSUME NEW S, NEW T
  PROVE  Ids(S \cup T) = Ids(S) \cup Ids(T)
BY DEF Ids

(* One page of the issues, or of the items of the board: what was reached  *)
(* before, and what is behind the cursors that were asked.                 *)
LEMMA PageOn ==
  ASSUME HubOK, CursorsOK, Asked, NEW c \in Connections \ {"project"}, NEW ids,
         Ids(got[c]) \cup Ids(Page(c, after[c]).nodes) \subseteq ids
  PROVE  /\ \A k \in Spent(c, Page(c, after[c])) : Reached(c, k, ids)
         /\ ~Page(c, after[c]).more => Lasting(c) \subseteq ids
<1>1. after[c] \in Nat /\ Reached(c, after[c], Ids(got[c]))
  BY FromHere
<1>2. \A n \in Lasting(c) : ~Page(c, after[c]).more \/ n <= Page(c, after[c]).end => n \in ids
  BY <1>1, PageReaches
<1>3. \A k \in cursors[c] : Reached(c, k, ids)
  BY DEF Asked, Reached
<1>4. Page(c, after[c]).more => Reached(c, Page(c, after[c]).end, ids)
  BY <1>2 DEF Reached
<1> QED BY <1>2, <1>3, <1>4 DEF Spent

(* One page of the projects, with none of the name.                        *)
LEMMA NoneOn ==
  ASSUME HubOK, CursorsOK, Asked, matches = 0,
         Wanted(Page("project", after.project).nodes) = {}
  PROVE  /\ \A k \in Spent("project", Page("project", after.project)) : Gone(k)
         /\ ~Page("project", after.project).more => NoneThere
<1> DEFINE p == Page("project", after.project)
<1>1. after.project \in Nat /\ Gone(after.project)
  BY FromHere DEF Connections
<1>2. ASSUME NEW w \in Wanted(began.project), Seen("project", w.id), ~p.more \/ w.id <= p.end
      PROVE  FALSE
  <2>1. PICK n \in hub.project : n.id = w.id
    BY <1>2 DEF Seen
  <2>2. w.id \in Nat /\ n = w /\ n.wanted
    BY <2>1 DEF HubOK, Numbered, Connections, Wanted
  <2>3. CASE w.id <= after.project
    BY <1>1, <1>2, <2>3 DEF Gone
  <2>4. CASE w.id > after.project
    <3>1. n \in p.nodes
      <4>1. n.id > after.project
        BY <2>1, <2>4
      <4>2. AsRead("project", n) \in p.nodes
        BY <1>1, <1>2, <2>1, <4>1, PageHolds DEF Connections
      <4> QED BY <4>2 DEF AsRead
    <3> QED BY <2>2, <3>1 DEF Wanted
  <2> QED BY <1>1, <2>2, <2>3, <2>4
<1>3. ~p.more => NoneThere
  BY <1>2 DEF NoneThere
<1>4. Gone(p.end)
  BY <1>2 DEF Gone
<1> QED BY <1>3, <1>4 DEF Spent, Asked

LEMMA ListReading ==
  ASSUME HubOK, Collected, ReaderOK, Reading, List
  PROVE  Reading'
<1>1. PICK p \in Answers("project", after.project), i \in Answers("issue", after.issue) :
        Refuse("cycle") \/ (~Used("project", p) /\ ~Used("issue", i) /\ Take(p, i))
  BY DEF List
<1>2. CASE ~Used("project", p) /\ ~Used("issue", i) /\ Take(p, i)
  <2>1. CursorsOK /\ Asked /\ Listing /\ Opened
    BY DEF ReaderOK, Reading
  <2>2. p = Page("project", after.project) /\ i = Page("issue", after.issue)
    BY <1>1, <1>2, <2>1, Honest DEF Connections
  <2>3. /\ got' = [got EXCEPT !.project = @ \cup p.nodes, !.issue = @ \cup i.nodes]
        /\ cursors' = [cursors EXCEPT !.project = Spent("project", p), !.issue = Spent("issue", i)]
        /\ TakeMatch(p) /\ UNCHANGED hubVars
        /\ pc' = IF BothRead(p, i) THEN "listed" ELSE "list"
    BY <1>2 DEF Take, Goto
  <2>4. /\ Ids(got'.issue) = Ids(got.issue) \cup Ids(i.nodes) /\ got'.item = got.item
        /\ got'.field = got.field
        /\ cursors'.project = Spent("project", p) /\ cursors'.issue = Spent("issue", i)
        /\ cursors'.field = cursors.field /\ cursors'.item = cursors.item
    BY <2>1, <2>3, Joined DEF Collected, CursorsOK, Connections
  <2>5. /\ \A k \in cursors'.issue : Reached("issue", k, Ids(got'.issue))
        /\ ~i.more => Lasting("issue") \subseteq Ids(got'.issue)
    BY <2>1, <2>2, <2>4, PageOn DEF Connections
  <2>6. cursors.field = {} /\ cursors.item = {}
    BY <2>1 DEF Opened, List, Nested
  <2>7. matches' = 0 => matches = 0 /\ Wanted(p.nodes) = {}
    BY <2>3 DEF TakeMatch
  <2>8. /\ matches' = 0 => \A k \in cursors'.project : Gone(k)
        /\ matches' = 0 /\ ~p.more => NoneThere
    BY <2>1, <2>2, <2>4, <2>7, NoneOn
  <2>9. /\ \A c, k, ids : Reached(c, k, Ids(got[c]))' <=> Reached(c, k, Ids(got'[c]))
        /\ \A k : Gone(k)' <=> Gone(k)
        /\ NoneThere' <=> NoneThere
        /\ \A c : Lasting(c)' = Lasting(c)
    BY <2>3 DEF hubVars, Reached, Gone, NoneThere, Lasting, Seen, Ids
  <2>10. Asked'
    BY <2>4, <2>5, <2>6, <2>8, <2>9 DEF Asked, Connections
  <2>11. Listing'
    BY <2>3, <2>5, <2>8, <2>9 DEF Listing, BothRead
  <2>12. Opened'
    <3>1. ASSUME NEW c \in Nested, matches' # 0
          PROVE  \A n \in Lasting(c) :
                   ~page'[c].more \/ n <= page'[c].end => n \in Ids(page'[c].nodes)
      <4>1. CASE matches = 0
        <5>1. page'[c] = Page(c, 0)
          BY <2>3, <3>1, <4>1 DEF TakeMatch
        <5>2. c \in Connections /\ Reached(c, 0, {})
          BY DEF Nested, Connections, Reached, Lasting, Ids, HubOK, Numbered
        <5> QED BY <5>1, <5>2, PageReaches
      <4>2. CASE matches # 0
        <5>1. page' = page /\ Covers(c, Ids(page[c].nodes))
          BY <2>1, <2>3, <4>2 DEF TakeMatch, Opened, List
        <5> QED BY <5>1 DEF Covers
      <4> QED BY <4>1, <4>2
    <3>2. \A c \in Nested : matches' # 0 => Covers(c, Ids(page[c].nodes))'
      BY <2>9, <3>1 DEF Covers
    <3> QED BY <2>4, <2>6, <3>2 DEF Opened, Nested
  <2>13. Nesting' /\ NothingMissed'
    BY <2>3 DEF Nesting, NothingMissed
  <2> QED BY <2>10, <2>11, <2>12, <2>13 DEF Reading
<1> QED BY <1>1, <1>2, RefusedReading

(* The first pages are what is read of the project that was found.         *)
LEMMA MatchReading ==
  ASSUME Collected, Reading, Match
  PROVE  Reading'
<1>1. /\ pc = "listed" /\ matches = 1 /\ pc' = "field"
      /\ got' = [got EXCEPT !.field = page.field.nodes, !.item = page.item.nodes]
      /\ UNCHANGED <<hubVars, cursors, matches, page>>
  BY DEF Match, Goto
<1>2. /\ got'.field = page.field.nodes /\ got'.item = page.item.nodes
      /\ got'.issue = got.issue
  BY <1>1 DEF Collected, Connections
<1>3. ASSUME NEW c \in Nested PROVE cursors[c] = {} /\ Covers(c, Ids(got'[c]))
  <2>1. got'[c] = page[c].nodes
    BY <1>2 DEF Nested
  <2> QED BY <1>1, <2>1 DEF Reading, Opened
<1>4. /\ \A c : Lasting(c)' = Lasting(c)
      /\ \A c, k : Reached(c, k, Ids(got[c]))' <=> Reached(c, k, Ids(got'[c]))
      /\ \A c : Covers(c, Ids(got[c]))' <=> Covers(c, Ids(got'[c]))
  BY <1>1 DEF hubVars, Reached, Covers, Lasting, Seen, Ids
<1>5. Asked'
  <2>1. ASSUME NEW c \in Connections \ {"project"}, NEW k \in cursors[c]
        PROVE  Reached(c, k, Ids(got'[c]))
    <3>1. c = "issue"
      BY <1>3, <2>1 DEF Connections, Nested
    <3> QED BY <1>2, <2>1, <3>1 DEF Reading, Asked
  <2> QED BY <1>1, <1>4, <2>1 DEF Asked
<1>6. Listing'
  BY <1>1, <1>2, <1>4 DEF Reading, Listing
<1>7. (Opened /\ Nesting /\ NothingMissed)'
  BY <1>1, <1>3, <1>4 DEF Opened, Nesting, NothingMissed
<1> QED BY <1>5, <1>6, <1>7 DEF Reading

(* Another page of a nested connection, even one that points back.         *)
LEMMA FollowReading ==
  ASSUME HubOK, Collected, ReaderOK, Reading, NEW c \in Nested, Follow(c)
  PROVE  Reading'
<1>1. PICK answer \in Answers(c, page[c].end) :
        \/ Refuse("cycle") \/ Refuse("duplicate")
        \/ /\ cursors' = [cursors EXCEPT ![c] = @ \cup {page[c].end}]
           /\ page' = [page EXCEPT ![c] = answer]
           /\ got' = [got EXCEPT ![c] = @ \cup answer.nodes]
           /\ Goto(c)
           /\ UNCHANGED <<after, again, matches>>
  <2>1. Page(c, page[c].end) \in Answers(c, page[c].end)
    BY DEF Answers
  <2> QED BY <2>1 DEF Follow
<1>2. CASE /\ cursors' = [cursors EXCEPT ![c] = @ \cup {page[c].end}]
           /\ page' = [page EXCEPT ![c] = answer]
           /\ got' = [got EXCEPT ![c] = @ \cup answer.nodes]
           /\ Goto(c)
           /\ UNCHANGED <<after, again, matches>>
  <2> DEFINE cursor == page[c].end
             ids == Ids(got[c]) \cup Ids(answer.nodes)
  <2>1. /\ c \in Connections \ {"project", "issue"} /\ cursor \in Nat /\ pc = c /\ pc' = c
        /\ page[c].more /\ UNCHANGED hubVars /\ matches' = matches
    BY <1>2 DEF Nested, Connections, ReaderOK, PagesOK, Follow, Goto
  <2>2. /\ matches = 1 /\ Covers(c, Ids(got[c])) /\ \A d \in Nested : Covers(d, Ids(got[d]))
        /\ Asked /\ Listing /\ (pc = "item" => ~page.field.more)
    BY <2>1 DEF Reading, Nesting, Nested
  <2>3. /\ Ids(got'[c]) = ids /\ page'[c] = answer /\ cursors'[c] = cursors[c] \cup {cursor}
        /\ \A d \in Connections \ {c} : got'[d] = got[d] /\ cursors'[d] = cursors[d]
        /\ \A d \in Nested \ {c} : page'[d] = page[d]
    BY <1>2, <2>1, Joined DEF Collected, ReaderOK, CursorsOK, PagesOK
  <2>4. Reached(c, cursor, Ids(got[c]))
    BY <2>2 DEF Covers, Reached
  <2>5. \A k \in cursors'[c] : Reached(c, k, Ids(got[c]))
    BY <2>1, <2>2, <2>3, <2>4 DEF Asked
  <2>6. \A k \in cursors'[c] : Reached(c, k, ids)
    BY <2>5 DEF Reached
  <2>7. \A n \in Lasting(c) : ~answer.more \/ n <= answer.end => n \in ids
    <3>1. answer.nodes = Page(c, cursor).nodes
      BY <2>1, AnswerIs
    <3>2. CASE answer = Page(c, cursor)
      BY <2>1, <2>4, <3>2, PageReaches
    <3>3. CASE answer.more /\ answer.end \in cursors[c] \cup {cursor}
      BY <2>3, <2>6, <3>3 DEF Reached
    <3> QED BY <2>1, <3>2, <3>3, AnswerIs
  <2>8. /\ \A d : Lasting(d)' = Lasting(d)
        /\ \A d, k : Reached(d, k, Ids(got[d]))' <=> Reached(d, k, Ids(got'[d]))
    BY <2>1 DEF hubVars, Reached, Lasting, Seen, Ids
  <2>9. Asked'
    <3>1. ASSUME NEW d \in Connections \ {"project"}, NEW k \in cursors'[d]
          PROVE  Reached(d, k, Ids(got'[d]))
      <4>1. CASE d = c
        BY <2>3, <2>6, <3>1, <4>1
      <4>2. CASE d # c
        BY <2>2, <2>3, <3>1, <4>2 DEF Asked
      <4> QED BY <4>1, <4>2
    <3>2. matches' # 0
      BY <2>1, <2>2
    <3> QED BY <2>8, <3>1, <3>2 DEF Asked
  <2>10. Listing'
    <3>1. Ids(got.issue)' = Ids(got.issue)
      BY <2>1, <2>3 DEF Ids, Connections
    <3>2. Lasting("issue") \subseteq Ids(got.issue)
      BY <2>1, <2>2 DEF Listing, Nested
    <3>3. matches' # 0
      BY <2>1, <2>2
    <3> QED BY <2>8, <3>1, <3>2, <3>3 DEF Listing
  <2>11. ASSUME NEW d \in Nested PROVE Covers(d, Ids(got[d]))'
    <3>1. CASE d = c
      BY <2>3, <2>7, <2>8, <3>1 DEF Covers
    <3>2. CASE d # c
      <4>1. got'[d] = got[d] /\ page'[d] = page[d] /\ Covers(d, Ids(got[d]))
        BY <2>2, <2>3, <3>2 DEF Nested, Connections
      <4>2. Ids(got[d])' = Ids(got[d])
        BY <4>1 DEF Ids
      <4> QED BY <2>8, <4>1, <4>2 DEF Covers
    <3> QED BY <3>1, <3>2
  <2>12. Nesting'
    <3>1. pc' = "item" => ~page'.field.more
      BY <2>1, <2>2, <2>3 DEF Nested
    <3>2. pc' # "value" /\ matches' = 1
      BY <2>1, <2>2 DEF Nested
    <3> QED BY <2>11, <3>1, <3>2 DEF Nesting
  <2>13. Opened' /\ NothingMissed'
    BY <2>1 DEF Opened, NothingMissed, Nested
  <2> QED BY <2>9, <2>10, <2>12, <2>13 DEF Reading
<1> QED BY <1>1, <1>2, RefusedReading

(* What a step that reads no page leaves as it was.                        *)
LEMMA ReadingOn ==
  ASSUME Asked, UNCHANGED <<hubVars, cursors, matches>>,
         \A c \in Connections \ {"project"} : Ids(got'[c]) = Ids(got[c])
  PROVE  /\ Asked' /\ (NoneThere <=> NoneThere')
         /\ \A c \in Connections : Lasting(c)' = Lasting(c)
<1>1. /\ \A c : Lasting(c)' = Lasting(c)
      /\ \A c, k : Reached(c, k, Ids(got[c]))' <=> Reached(c, k, Ids(got'[c]))
  BY DEF hubVars, Reached, Lasting, Seen, Ids
<1>2. NoneThere <=> NoneThere'
  BY DEF hubVars, NoneThere, Seen, Wanted
<1>3. \A k : Gone(k) <=> Gone(k)'
  BY DEF hubVars, Gone, Seen, Wanted
<1>4. Asked'
  BY <1>1, <1>3 DEF Asked
<1> QED BY <1>1, <1>2, <1>4

LEMMA CompleteReading ==
  ASSUME Reading, NEW c \in Nested, Complete(c)
  PROVE  Reading'
<1>1. /\ pc = c /\ pc' = Behind[c] /\ ~page[c].more /\ UNCHANGED <<hubVars, readVars>>
  BY DEF Complete, Goto
<1>2. (pc = "field" /\ pc' = "item") \/ (pc = "item" /\ pc' = "value")
  BY <1>1 DEF Behind, Nested
<1>3. Asked' /\ (NoneThere <=> NoneThere') /\ \A d \in Connections : Lasting(d)' = Lasting(d)
  BY <1>1, ReadingOn DEF Reading, readVars
<1>4. \A d \in Nested : Covers(d, Ids(got[d]))'
  BY <1>1, <1>2, <1>3 DEF Reading, Nesting, Covers, readVars, Ids, Nested, Connections
<1>5. Nesting'
  BY <1>1, <1>2, <1>4 DEF Reading, Nesting, readVars
<1>6. Listing'
  BY <1>1, <1>2, <1>3 DEF Reading, Listing, readVars, Ids, Connections
<1>7. Opened' /\ NothingMissed'
  BY <1>2 DEF Opened, NothingMissed
<1> QED BY <1>3, <1>5, <1>6, <1>7 DEF Reading

(* An item with the rest of its values is the same item.                   *)
LEMMA RestReading ==
  ASSUME Collected, Reading, RestOfValues
  PROVE  Reading'
<1>1. CASE Refuse("malformed")
  BY <1>1, RefusedReading
<1>2. CASE ~Refuse("malformed")
  <2>1. PICK e \in got.item : got' = [got EXCEPT !.item = (@ \ {e}) \cup {RestOf(e)}]
    BY <1>2 DEF RestOfValues
  <2>2. /\ pc = "value" /\ pc' = "value" /\ UNCHANGED <<hubVars, cursors, matches, page>>
    BY <1>2 DEF RestOfValues, Goto
  <2>3. /\ got'.item = (got.item \ {e}) \cup {RestOf(e)} /\ got'.issue = got.issue
        /\ got'.field = got.field
    BY <2>1 DEF Collected, Connections
  <2>4. RestOf(e).id = e.id
    BY DEF RestOf
  <2>5. Ids(got'.item) = Ids(got.item)
    BY <2>1, <2>3, <2>4 DEF Ids
  <2>6. \A c \in Connections \ {"project"} : Ids(got'[c]) = Ids(got[c])
    BY <2>3, <2>5 DEF Connections
  <2>7. Asked' /\ (NoneThere <=> NoneThere') /\ \A d \in Connections : Lasting(d)' = Lasting(d)
    BY <2>2, <2>6, ReadingOn DEF Reading
  <2>8. \A d \in Connections \ {"project"} : Ids(got[d])' = Ids(got[d])
    BY <2>6 DEF Ids
  <2>9. ASSUME NEW d \in Nested PROVE Covers(d, Ids(got[d]))'
    <3>1. d \in Connections \ {"project"} /\ Covers(d, Ids(got[d]))
      BY <2>2 DEF Nested, Connections, Reading, Nesting
    <3> QED BY <2>2, <2>7, <2>8, <3>1 DEF Covers
  <2>10. Nesting'
    BY <2>2, <2>9 DEF Reading, Nesting
  <2>11. Listing'
    BY <2>2, <2>7, <2>8 DEF Reading, Listing, Connections
  <2>12. Opened' /\ NothingMissed'
    BY <2>2 DEF Opened, NothingMissed
  <2> QED BY <2>7, <2>10, <2>11, <2>12 DEF Reading
<1> QED BY <1>1, <1>2

(* The ends of a discovery.                                                *)
LEMMA DoneReading ==
  ASSUME Collected, Reading, Standalone \/ Parse
  PROVE  Reading'
<1>1. CASE \E reason : Refuse(reason)
  BY <1>1, RefusedReading
<1>2. CASE ~\E reason : Refuse(reason)
  <2>1. /\ (pc = "listed" /\ matches = 0) \/ pc = "value"
        /\ pc' = "done" /\ UNCHANGED <<hubVars, readVars>>
    BY <1>2 DEF Standalone, Parse, Goto
  <2>2. Asked' /\ (NoneThere <=> NoneThere') /\ \A d \in Connections : Lasting(d)' = Lasting(d)
    BY <2>1, ReadingOn DEF Reading, readVars
  <2>3. Lasting("issue") \subseteq Ids(got.issue) /\ (matches = 0 => NoneThere)
    BY <2>1 DEF Reading, Listing
  <2>4. ASSUME matches = 1, NEW d \in Nested PROVE Lasting(d) \subseteq Ids(got[d])
    <3>1. ~page[d].more /\ Covers(d, Ids(got[d]))
      BY <2>1, <2>4 DEF Reading, Nesting, Nested
    <3> QED BY <3>1 DEF Covers
  <2>5. command # "export"
    BY <2>1 DEF Collected
  <2>6. Ids(got.issue)' = Ids(got.issue) /\ Ids(got.field)' = Ids(got.field)
        /\ Ids(got.item)' = Ids(got.item)
    BY <2>1 DEF readVars, Ids
  <2>7. command' = command /\ matches' = matches
    BY <2>1 DEF hubVars, readVars
  <2>8. NoneThere' <=> \A p \in Wanted(began.project)' : ~Seen("project", p.id)'
    BY DEF NoneThere
  <2>9. NothingMissed'
    BY <2>2, <2>3, <2>4, <2>5, <2>6, <2>7, <2>8 DEF NothingMissed, Nested, Connections
  <2>10. Listing' /\ Opened' /\ Nesting'
    BY <2>1 DEF Listing, Opened, Nesting
  <2> QED BY <2>2, <2>9, <2>10 DEF Reading
<1> QED BY <1>1, <1>2

LEMMA ExportReading ==
  ASSUME HubOK, Collected, ReaderOK, Reading, Export
  PROVE  Reading'
<1>1. PICK answer \in BoardPages(after.item) :
        \/ Refuse("unfit")
        \/ /\ ~Used("item", answer)
           /\ got' = [got EXCEPT !.item = @ \cup answer.nodes]
           /\ cursors' = [cursors EXCEPT !.item = Spent("item", answer)]
           /\ Goto(IF answer.more THEN "export" ELSE "done")
           /\ UNCHANGED <<again, matches, page>>
  BY DEF Export
<1>2. CASE /\ ~Used("item", answer)
           /\ got' = [got EXCEPT !.item = @ \cup answer.nodes]
           /\ cursors' = [cursors EXCEPT !.item = Spent("item", answer)]
           /\ Goto(IF answer.more THEN "export" ELSE "done")
           /\ UNCHANGED <<again, matches, page>>
  <2>1. PICK a \in Answers("item", after.item) :
          answer = [a EXCEPT !.nodes = {RestOf(e) : e \in @}]
    BY DEF BoardPages
  <2>2. /\ answer.more = a.more /\ answer.end = a.end
        /\ answer.nodes = {RestOf(e) : e \in a.nodes}
    BY <2>1, BoardRecord
  <2>3. CursorsOK /\ Asked /\ command = "export" /\ matches = 0 /\ pc = "export"
    BY DEF Export, ReaderOK, Reading, Collected
  <2>4. a = Page("item", after.item)
    BY <1>2, <2>1, <2>2, <2>3, Honest DEF Used, Connections
  <2>5. Spent("item", answer) = Spent("item", a)
    BY <2>2 DEF Spent
  <2>6. Ids(answer.nodes) = Ids(a.nodes)
    <3>1. \A e : RestOf(e).id = e.id
      BY DEF RestOf
    <3> QED BY <2>2, <3>1 DEF Ids
  <2>7. /\ Ids(got'.item) = Ids(got.item) \cup Ids(a.nodes)
        /\ cursors'.item = Spent("item", a)
        /\ \A c \in Connections \ {"item"} : got'[c] = got[c] /\ cursors'[c] = cursors[c]
        /\ UNCHANGED hubVars /\ matches' = 0
    BY <1>2, <2>3, <2>5, <2>6, Joined DEF Collected, CursorsOK, Connections, Goto
  <2>8. /\ \A k \in cursors'.item : Reached("item", k, Ids(got'.item))
        /\ ~a.more => Lasting("item") \subseteq Ids(got'.item)
    BY <2>3, <2>4, <2>7, PageOn DEF Connections
  <2>9. /\ \A d : Lasting(d)' = Lasting(d)
        /\ \A d, k : Reached(d, k, Ids(got[d]))' <=> Reached(d, k, Ids(got'[d]))
        /\ \A k : Gone(k) => Gone(k)'
    BY <2>7 DEF hubVars, Reached, Lasting, Seen, Ids, Gone, Wanted
  <2>10. Asked'
    <3>1. ASSUME NEW d \in Connections \ {"project"}, NEW k \in cursors'[d]
          PROVE  Reached(d, k, Ids(got'[d]))
      <4>1. CASE d = "item"
        BY <2>8, <3>1, <4>1
      <4>2. CASE d # "item"
        BY <2>3, <2>7, <3>1, <4>2 DEF Asked
      <4> QED BY <4>1, <4>2
    <3>2. \A k \in cursors'.project : Gone(k)'
      BY <2>3, <2>7, <2>9 DEF Asked, Connections
    <3> QED BY <2>9, <3>1, <3>2 DEF Asked
  <2>11. pc' = (IF a.more THEN "export" ELSE "done") /\ command' = "export"
    BY <1>2, <2>2, <2>3 DEF Goto, hubVars
  <2>12. Listing' /\ Opened' /\ Nesting'
    BY <2>11 DEF Listing, Opened, Nesting
  <2>13. NothingMissed'
    <3>1. Ids(got.item)' = Ids(got'.item)
      BY DEF Ids
    <3> QED BY <2>7, <2>8, <2>9, <2>11, <3>1 DEF NothingMissed
  <2> QED BY <2>10, <2>12, <2>13 DEF Reading
<1> QED BY <1>1, <1>2, RefusedReading

LEMMA ReadingStep ==
  ASSUME HubOK, Collected, ReaderOK, Reading, [Next]_vars
  PROVE  Reading'
<1>1. CASE UNCHANGED vars
  BY <1>1 DEF vars, hubVars, readVars, Reading, Asked, Listing, Opened, Nesting, NothingMissed,
     Reached, Gone, NoneThere, Covers, Lasting, Seen, Wanted, Ids
<1>2. CASE People
  BY <1>2, PeopleReading
<1>3. CASE Ambiguous \/ Fail
  BY <1>3, RefusedReading DEF Ambiguous, Fail
<1> QED BY <1>1, <1>2, <1>3, ListReading, MatchReading, FollowReading, CompleteReading,
    RestReading, DoneReading, ExportReading DEF Next, Reader

(* No page is left out, for every page size, room and order of events:     *)
(* what was there when the reading began and is there when it ends has     *)
(* been read, and a project of the name that was there all the time was    *)
(* found (github.py:2291-2352, 2176-2225, 2452-2538).                      *)
THEOREM PagesComplete == Spec => []NothingMissed
<1>1. Init => HubOK /\ Collected /\ ReaderOK /\ Reading
  BY HubInit, CollectedInit, ReaderInit, ReadingInit
<1>2. HubOK /\ Collected /\ ReaderOK /\ Reading /\ [Next]_vars
        => (HubOK /\ Collected /\ ReaderOK /\ Reading)'
  BY CollectedStep, ReaderStep, ReadingStep
<1>3. Reading => NothingMissed
  BY DEF Reading
<1> QED BY <1>1, <1>2, <1>3, PTL DEF Spec
=============================================================================
