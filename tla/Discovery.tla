----------------------------- MODULE Discovery ------------------------------
(***************************************************************************)
(* How a command reads the project room kept on GitHub                     *)
(* (src/app/project_control/github.py): discover_state, with which every   *)
(* provisioning starts, and export_project, with which the board is        *)
(* written.  Both read several paginated connections, one request after    *)
(* the other, while people go on working there.                            *)
(*                                                                         *)
(* GitHub is an external component: each connection is a set of nodes with *)
(* the numbers they got when they were made, a node's number is also its   *)
(* cursor, and a page is what follows a cursor at the moment of the        *)
(* request.  A faulty answer points to a cursor that was already used.     *)
(***************************************************************************)
EXTENDS Naturals, Sequences, FiniteSets, SequencesExt, Functions

CONSTANTS
  Tasks,      \* the stable task IDs
  NoTask,     \* the text of an issue that names none
  PageSize,   \* nodes of a page (100 in the queries, 1 for a first nested page)
  MaxNodes,   \* nodes of a connection when the reading begins
  MaxEvents   \* what people do meanwhile

ASSUME PageAssumption ==
  PageSize \in Nat \ {0} /\ NoTask \notin Tasks /\ MaxNodes \in Nat /\ MaxEvents \in Nat

VARIABLES
  command,  \* discover, for the provisioning, or export, for the board
  hub,      \* what GitHub holds: a set of nodes per connection
  began,    \* what it held when the reading began
  events,   \* what people have done
  pc,       \* what the reader does next
  after,    \* the cursor each connection is asked from, 0 for the start
  cursors,  \* the cursors each connection was asked from
  got,      \* the nodes read of each connection
  again,    \* an issue was given twice by the list of issues
  matches,  \* projects of the name that were given: none, one, several (2)
  page,     \* the last pageInfo of each nested connection
  why       \* why the reading was refused

hubVars == <<command, hub, began, events>>
readVars == <<after, cursors, got, again, matches, page>>
vars == <<hubVars, pc, why, readVars>>

Connections == {"project", "issue", "field", "item"}
Nested == {"field", "item"}
Seen(c, node) == \E n \in hub[c] : n.id = node
Ids(nodes) == {n.id : n \in nodes}

-----------------------------------------------------------------------------
(* A page of a connection.  An item comes with the text of its issue and   *)
(* with the first of its field values.                                     *)
TextOf(issue) == (CHOOSE n \in hub.issue : n.id = issue).task
FirstOf(s) == SubSeq(s, 1, Min({PageSize, Len(s)}))
AsRead(c, n) ==
  IF c = "item"
  THEN [id |-> n.id, issue |-> n.issue, task |-> TextOf(n.issue),
        values |-> Range(FirstOf(n.values)),
        more |-> Len(n.values) > PageSize]
  ELSE n
Following(c, cursor) == {n \in hub[c] : n.id > cursor}
Leading(nodes) == {n \in nodes : Cardinality({m \in nodes : m.id <= n.id}) <= PageSize}
Page(c, cursor) ==
  LET here == Leading(Following(c, cursor))
  IN [nodes |-> {AsRead(c, n) : n \in here},
      more |-> here # Following(c, cursor),
      end |-> IF here = {} THEN cursor ELSE Max(Ids(here))]
Answers(c, cursor) ==
  {Page(c, cursor)}
    \cup {[Page(c, cursor) EXCEPT !.more = TRUE, !.end = e] :
            e \in (cursors[c] \cup {cursor}) \ {0}}

Wanted(nodes) == {n \in nodes : n.wanted}
NoPage == [nodes |-> {}, more |-> FALSE, end |-> 0]

(* The rooms a reading can begin with.  An issue without a task ID, which  *)
(* ends every reading, comes with an event.  An export names its project   *)
(* by number, so the list of the projects does not matter to it.           *)
Room(names, texts, board) ==
  [project |-> {[id |-> k, wanted |-> names[k]] : k \in DOMAIN names},
   issue |-> {[id |-> k, task |-> texts[k]] : k \in DOMAIN texts},
   item |-> {[id |-> k, issue |-> board[k], values |-> <<1, 2>>] : k \in DOMAIN board},
   field |-> {[id |-> 1], [id |-> 2]}, next |-> MaxNodes + 3]

NoNodes == [c \in Connections |-> {}]
AtStart == [c \in Connections |-> 0]
NoPages == [c \in Nested |-> NoPage]
Init ==
  /\ events = 0
  /\ command \in {"discover", "export"}
  /\ \E names \in SeqOf(BOOLEAN, MaxNodes), texts \in SeqOf(Tasks, MaxNodes),
        board \in SeqOf(1..MaxNodes, MaxNodes) :
       /\ \A j, k \in DOMAIN board : j < k => board[j] < board[k]
       /\ Range(board) \subseteq DOMAIN texts
       /\ command = "export" => names = <<>>
       /\ hub = Room(names, texts, board)
  /\ began = hub
  /\ pc = IF command = "discover" THEN "list" ELSE "export"
  /\ why = ""
  /\ after = AtStart /\ cursors = NoNodes /\ got = NoNodes
  /\ again = FALSE /\ matches = 0 /\ page = NoPages
-----------------------------------------------------------------------------
(* The reader.  A refusal ends the command with an exception, and what it  *)
(* has read is gone.                                                       *)

Goto(label) == pc' = label /\ UNCHANGED <<hubVars, why>>
Refuse(reason) ==
  /\ pc' = "refused" /\ why' = reason
  /\ after' = AtStart /\ cursors' = NoNodes /\ got' = NoNodes
  /\ again' = FALSE /\ matches' = 0 /\ page' = NoPages
  /\ UNCHANGED hubVars

(* One answer of discover_state's query brings a page of the projects and  *)
(* one of the issues; a project of the name comes with the first page of   *)
(* its fields and its items.  A connection that has more is asked from its *)
(* new cursor, the other one from the cursor it had.                       *)
NextCursor(c, answer) == IF answer.more THEN answer.end ELSE after[c]
NeverUsed(c, answer) == FALSE
Used(c, answer) == answer.more /\ answer.end \in cursors[c]
NotSpent(c, answer) == cursors[c]
Spent(c, answer) == IF answer.more THEN cursors[c] \cup {answer.end} ELSE cursors[c]
EitherRead(p, i) == ~p.more \/ ~i.more
BothRead(p, i) == ~p.more /\ ~i.more
One(S) == \A n, m \in S : n = m
TakeMatch(p) ==
  IF Wanted(p.nodes) = {} THEN UNCHANGED <<matches, page>>
  ELSE /\ matches' = IF matches = 0 /\ One(Wanted(p.nodes)) THEN 1 ELSE 2
       /\ page' = IF matches = 0 THEN [c \in Nested |-> Page(c, 0)] ELSE page
Take(p, i) ==
  /\ TakeMatch(p)
  /\ got' = [got EXCEPT !.project = @ \cup p.nodes, !.issue = @ \cup i.nodes]
  /\ again' = (again \/ Ids(i.nodes) \cap Ids(got.issue) # {})
  /\ after' = [after EXCEPT !.project = NextCursor("project", p),
                            !.issue = NextCursor("issue", i)]
  /\ cursors' = [cursors EXCEPT !.project = Spent("project", p),
                                !.issue = Spent("issue", i)]
  /\ Goto(IF BothRead(p, i) THEN "listed" ELSE "list")
List ==
  /\ pc = "list"
  /\ \E p \in Answers("project", after.project), i \in Answers("issue", after.issue) :
       IF Used("project", p) \/ Used("issue", i) THEN Refuse("cycle") ELSE Take(p, i)

(* The issues of a room must be one per task and one per node.             *)
Clash(issues) ==
  \/ \E i \in issues : i.task = NoTask
  \/ \E i, j \in issues : i # j /\ (i.task = j.task \/ i.id = j.id)

Ambiguous == pc = "listed" /\ matches = 2 /\ Refuse("ambiguous")
Match ==
  /\ pc = "listed" /\ matches = 1
  /\ got' = [got EXCEPT !.field = page.field.nodes, !.item = page.item.nodes]
  /\ Goto("field")
  /\ UNCHANGED <<after, cursors, again, matches, page>>
Standalone ==
  /\ pc = "listed" /\ matches = 0
  /\ IF again \/ Clash(got.issue) THEN Refuse("issues")
     ELSE Goto("done") /\ UNCHANGED readVars

(* _connection_pages: the pages of a nested connection after the first.    *)
Follow(c) ==
  /\ pc = c
  /\ page[c].more
  /\ IF page[c].end \in cursors[c] THEN Refuse("cycle")
     ELSE \E answer \in Answers(c, page[c].end) :
            IF Ids(answer.nodes) \cap Ids(got[c]) # {} THEN Refuse("duplicate")
            ELSE /\ cursors' = [cursors EXCEPT ![c] = @ \cup {page[c].end}]
                 /\ page' = [page EXCEPT ![c] = answer]
                 /\ got' = [got EXCEPT ![c] = @ \cup answer.nodes]
                 /\ Goto(c)
                 /\ UNCHANGED <<after, again, matches>>
Behind == [field |-> "item", item |-> "value"]
Complete(c) ==
  /\ pc = c
  /\ ~page[c].more
  /\ Goto(Behind[c])
  /\ UNCHANGED readVars

(* The rest of an item's field values is a connection of its own.          *)
RestOf(e) ==
  LET now == CHOOSE n \in hub.item : n.id = e.id
  IN [id |-> e.id, issue |-> e.issue, task |-> e.task,
      values |-> e.values \cup Range(now.values), more |-> FALSE]
RestOfValues ==
  /\ pc = "value"
  /\ \E e \in got.item :
       /\ e.more
       /\ IF ~Seen("item", e.id) THEN Refuse("malformed")
          ELSE /\ got' = [got EXCEPT !.item = (@ \ {e}) \cup {RestOf(e)}]
               /\ Goto("value")
               /\ UNCHANGED <<after, cursors, again, matches, page>>

(* _parse_discovered_project, and the checks of RemoteGitHubState.         *)
IssuesFound ==
  {[id |-> e.issue, task |-> e.task] : e \in got.item}
    \cup {[id |-> i.id, task |-> i.task] : i \in got.issue}
UnfitButValues ==
  Clash(IssuesFound) \/ \E e, f \in got.item : e # f /\ e.task = f.task
Unfit ==
  \/ Clash(IssuesFound)
  \/ \E e, f \in got.item : e # f /\ e.task = f.task
  \/ \E e \in got.item : ~(e.values \subseteq Ids(got.field))
Parse ==
  /\ pc = "value"
  /\ \A e \in got.item : ~e.more
  /\ IF Unfit THEN Refuse("unfit") ELSE Goto("done") /\ UNCHANGED readVars

(* export_project: pages of items, each with all the fields of the project *)
(* and all the values of its items.                                        *)
BoardPages(cursor) ==
  {[a EXCEPT !.nodes = {RestOf(e) : e \in @}] : a \in Answers("item", cursor)}
UnknownField(n) == ~(n.values \subseteq Ids(hub.field))
Spoilt(nodes) ==
  \/ Ids(nodes) \cap Ids(got.item) # {}
  \/ \E n \in nodes : UnknownField(n)
  \/ \E n \in nodes : \/ n.task = NoTask
                      \/ \E e \in (nodes \cup got.item) \ {n} : e.task = n.task
Export ==
  /\ pc = "export"
  /\ \E answer \in BoardPages(after.item) :
       IF Spoilt(answer.nodes) \/ Used("item", answer) THEN Refuse("unfit")
       ELSE /\ got' = [got EXCEPT !.item = @ \cup answer.nodes]
            /\ after' = [after EXCEPT !.item = NextCursor("item", answer)]
            /\ cursors' = [cursors EXCEPT !.item = Spent("item", answer)]
            /\ Goto(IF answer.more THEN "export" ELSE "done")
            /\ UNCHANGED <<again, matches, page>>

(* gh fails, or answers with something that is not JSON.                   *)
Fail == pc \in {"list", "field", "item", "value", "export"} /\ Refuse("unavailable")

Reader ==
  \/ List \/ Ambiguous \/ Match \/ Standalone
  \/ \E c \in Nested : Follow(c) \/ Complete(c)
  \/ RestOfValues \/ Parse \/ Export \/ Fail

-----------------------------------------------------------------------------
(* What people do on GitHub while the command reads.                       *)
Happens(h) ==
  /\ pc \notin {"done", "refused"}
  /\ events < MaxEvents
  /\ events' = events + 1
  /\ hub' = h
  /\ UNCHANGED <<command, began, pc, why, readVars>>
Made(c, node) == [hub EXCEPT ![c] = @ \cup {node}, !.next = @ + 1]
Changed(c, node, into) == [hub EXCEPT ![c] = (@ \ {node}) \cup {into}]

NewProject ==
  /\ command = "discover"
  /\ \E w \in BOOLEAN : Happens(Made("project", [id |-> hub.next, wanted |-> w]))
NewField == Happens(Made("field", [id |-> hub.next]))
NewIssue ==
  \E t \in Tasks \cup {NoTask} : Happens(Made("issue", [id |-> hub.next, task |-> t]))
Retag ==
  \E i \in hub.issue, t \in Tasks \cup {NoTask} :
    i.task # t /\ Happens(Changed("issue", i, [id |-> i.id, task |-> t]))
AddItem ==
  \E i \in hub.issue :
    /\ \A t \in hub.item : t.issue # i.id
    /\ Happens(Made("item", [id |-> hub.next, issue |-> i.id, values |-> <<>>]))
RemoveItem == \E t \in hub.item : Happens([hub EXCEPT !.item = @ \ {t}])
DeleteIssue ==
  \E i \in hub.issue :
    Happens([hub EXCEPT !.issue = @ \ {i}, !.item = {n \in @ : n.issue # i.id}])
SetValue ==
  \E t \in hub.item, f \in Ids(hub.field) :
    /\ f \notin Range(t.values)
    /\ Happens(Changed("item", t, [id |-> t.id, issue |-> t.issue, values |-> Append(t.values, f)]))
People ==
  \/ NewProject \/ NewField \/ NewIssue \/ Retag \/ AddItem \/ RemoveItem
  \/ DeleteIssue \/ SetValue

Next == Reader \/ People

Spec == Init /\ [][Next]_vars

(* A command that is not killed goes on: each request is answered or fails. *)
FairSpec == Spec /\ WF_vars(Reader)

-----------------------------------------------------------------------------
(* Properties.                                                             *)

(* Every value has its shape.  A page is only kept of the project that was *)
(* found, a reading that was not refused has no reason, and values are     *)
(* complete when a reading is done.                                        *)
DiscoveryTypeOK ==
  /\ pc \in {"list", "listed", "field", "item", "value", "export", "done", "refused"}
  /\ matches \in 0..2 /\ again \in BOOLEAN /\ events \in 0..MaxEvents
  /\ matches = 0 => page = NoPages
  /\ (pc = "refused") = (why # "")
  /\ \A c \in Connections : after[c] \in cursors[c] \cup {0}
  /\ pc = "done" => \A e \in got.item : ~e.more

Lasting(c) == {n \in Ids(began[c]) : Seen(c, n)}

(* What was there when the reading began and is still there when it ends   *)
(* is in what was read: no page of a connection is left out, whatever      *)
(* people add and remove between two pages.  A project of the name that    *)
(* was there all the time is found, so provisioning never makes a second   *)
(* one (github.py:2291-2352, 2176-2225, 2452-2538).                        *)
NothingMissed ==
  pc = "done" =>
    /\ command = "discover" => Lasting("issue") \subseteq Ids(got.issue)
    /\ command = "discover" /\ matches = 0 =>
         \A p \in Wanted(began.project) : ~Seen("project", p.id)
    /\ matches = 1 => Lasting("field") \subseteq Ids(got.field)
    /\ matches = 1 \/ command = "export" => Lasting("item") \subseteq Ids(got.item)

(* What is handed on is one room although it was read in pieces: one item  *)
(* per task, in a discovery one issue per task and no issue under two      *)
(* tasks, and no value of a field that the fields, read earlier, do not    *)
(* have (1855-2156, 805-878).                                              *)
Coherent ==
  pc = "done" =>
    /\ command = "discover" => ~Clash(IssuesFound)
    /\ \A e, f \in got.item : e.task = f.task => e = f
    /\ matches = 1 => \A e \in got.item : e.values \subseteq Ids(got.field)

(* Every reading ends, even when GitHub goes round in circles: a cursor    *)
(* that was used is refused (2200-2204, 2343-2352, 2537-2539).             *)
Ends == <>(pc \in {"done", "refused"})

(* discover_state says that it discovers a named project with strict,      *)
(* paginated requests (2276); a name is ambiguous (2353) only where two    *)
(* projects have had it.  The code violates it.                            *)
OneProjectIsFound ==
  why = "ambiguous" =>
    Cardinality(Wanted(hub.project \cup began.project)) > 1

=============================================================================
