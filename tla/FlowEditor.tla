---------------------------- MODULE FlowEditor ----------------------------
(***************************************************************************)
(* The call flow of a configuration as an operator edits it, and as the    *)
(* runtime runs it.  The page (ui/src/components/FnGraph.tsx, FnEditor,    *)
(* ActionEditor, SIPConnectionsEditor) changes a draft; lib/fn-graph.ts    *)
(* draws it; lib/sip-validation.ts decides whether it may be saved;        *)
(* lib/toml-render.ts writes it down; lib/toml-parse.ts reads it back into *)
(* the page, and core/functions decodes, prepares and validates it.        *)
(*                                                                         *)
(* A name is a number: n is "fn<n>" (or "queue<n>"), 0 the empty string    *)
(* and Choose a placeholder such as "(choose menu)" that nothing bears.    *)
(* An action keeps the fields that route a call, its key, one field        *)
(* (`plays`) that stands for those of the kinds that only play something,  *)
(* of which a JSON request has a `then`, and its live feed.  Of a SIP      *)
(* connection the model keeps what ties it to the flow.  A field that      *)
(* holds blanks only, which the writer drops like an empty one, is left    *)
(* out, and so are the checks of a connection's own fields, the check box  *)
(* `clear` and the gotos that the page reads out of a script's text.       *)
(***************************************************************************)
EXTENDS Naturals, FiniteSets, Sequences, FiniteSetsExt, SequencesExt

CONSTANTS
  MaxFns, MaxActions, MaxQueues, MaxConnections, MaxRoutes,
  MaxEdits   \* bounds the operator's clicks

ASSUME FlowEditorAssumption ==
  {MaxFns, MaxActions, MaxQueues, MaxConnections, MaxEdits} \subseteq Nat /\ MaxRoutes \in Nat \ {0}

\* Of every menu and queue that is added, and of no one.
MaxName == MaxFns + MaxQueues
Choose == MaxName + 1
Name == 0..Choose
ActionKey == 0..MaxActions

VARIABLES fns, queues, sip, selection, edits

flowVars == <<fns, queues, sip, selection, edits>>

-----------------------------------------------------------------------------
(* The document.                                                           *)

Ref == [fn : Name, key : ActionKey]
Feed == {"null", "default", "named"}   \* livefeed: absent, {"", 0}, anything else
FlowAction == [num : ActionKey, dst : Name, reuse : Ref, dispatcher : Name, plays : BOOLEAN,
           livefeed : Feed, then : Name]
Number == {"", "46", "+46"}
Route == [number : Number, entrypoint : Name, catchAll : BOOLEAN]

emptyAction == [num |-> 0, dst |-> 0, reuse |-> [fn |-> 0, key |-> 0], dispatcher |-> 0,
                plays |-> FALSE, livefeed |-> "null", then |-> 0]
emptyFn(name) == [name |-> name, actions |-> <<>>]
emptyQueue(name) == [name |-> name, end |-> emptyAction]
emptySIPRoute(entrypoint) == [number |-> "", entrypoint |-> entrypoint, catchAll |-> FALSE]
emptySIPConnection(entrypoint) ==
  [kind |-> "endpoint", entrypoint |-> entrypoint, route |-> <<>>]

Names(s) == {s[i].name : i \in DOMAIN s} \ {0}
\* names[0] ?? "" of the menus that have one
FirstName == LET named == {i \in DOMAIN fns : fns[i].name # 0} IN
             IF named = {} THEN 0 ELSE fns[Min(named)].name

actionKind(a) ==
  IF a.reuse.fn # 0 THEN "reuse" ELSE IF a.dst # 0 THEN "dst" ELSE IF a.plays THEN "plays"
  ELSE IF a.dispatcher # 0 THEN "dispatcher"
  ELSE IF a.livefeed # "null" THEN "livefeed" ELSE "none"

\* The places of actions: <<i, j>> in a menu, <<k, 0>> at the end of a queue.
FnPlaces(f) == {p \in (DOMAIN f) \X (1..MaxActions) : p[2] \in DOMAIN f[p[1]].actions}
EndPlaces(q) == (DOMAIN q) \X {0}
At(f, q, p) == IF p[2] = 0 THEN q[p[1]].end ELSE f[p[1]].actions[p[2]]
Places(f, q) == FnPlaces(f) \cup EndPlaces(q)

-----------------------------------------------------------------------------
(* The graph: buildNodesAndEdges.                                          *)

MutKeyOf(f, j) == j

\* The key an action is drawn with, and found by.
KeyOf(f, j) == IF f.actions[j].num # 0 THEN f.actions[j].num ELSE j

After(p, o) == p[1] > o[1] \/ (p[1] = o[1] /\ p[2] > o[2])
LastOf(P) == IF P = {} THEN {} ELSE {CHOOSE p \in P : \A o \in P \ {p} : After(p, o)}

\* reusableActionTargets: a later action takes the key of an earlier one.
ReuseTargets(f, ref) ==
  LastOf({p \in FnPlaces(f) : f[p[1]].name = ref.fn /\ KeyOf(f[p[1]], p[2]) = ref.key})

\* The edges that leave an action: what they are, where they end, whether they
\* are drawn broken.  A reference that finds no action has no edge.
Link(kind, to, broken) == [kind |-> kind, to |-> to, broken |-> broken]
Edges(f, q, a) ==
  UNION {
    {Link("reuse", p, FALSE) : p \in IF a.reuse.fn # 0 THEN ReuseTargets(f, a.reuse) ELSE {}},
    {Link("dst", n, n \notin Names(f)) : n \in {a.dst} \ {0}},
    {Link("dispatcher", n, n \notin Names(q)) : n \in IF a.dst = 0 THEN {a.dispatcher} \ {0} ELSE {}},
    {Link("then", n, n \notin Names(f)) : n \in {a.then} \ {0}}}

\* The actions that are drawn: those of menus and queues that have a name.
Drawn(f, q) ==
  {p \in FnPlaces(f) : f[p[1]].name # 0} \cup {p \in EndPlaces(q) : q[p[1]].name # 0}

Graph(f, q) == [p \in Drawn(f, q) |-> Edges(f, q, At(f, q, p))]

-----------------------------------------------------------------------------
(* Writing a document down, and reading it.                                *)

\* isEmpty and prune: what is left of a record's fields.
Dropped(field, v) == v = emptyAction[field] \/ (field = "livefeed" /\ v = "default")
prune(a) == [field \in {x \in DOMAIN a : ~Dropped(x, a[x])} |-> a[field]]

MutRenderFn(f) ==
  [name |-> f.name, actions |-> SelectSeq([j \in DOMAIN f.actions |-> prune(f.actions[j])],
                                          LAMBDA t : DOMAIN t # {})]

renderFn(f) == [name |-> f.name, actions |-> [j \in DOMAIN f.actions |-> prune(f.actions[j])]]
renderQueue(q) == [name |-> q.name, end |-> prune(q.end)]

\* Every field that the text does not give takes its empty value, in the page
\* and in the runtime.
normalizeAction(t) == [x \in DOMAIN emptyAction |-> IF x \in DOMAIN t THEN t[x] ELSE emptyAction[x]]
ReadFns(f) ==
  [i \in DOMAIN f |-> LET t == renderFn(f[i]) IN
     [name |-> t.name, actions |-> [j \in DOMAIN t.actions |-> normalizeAction(t.actions[j])]]]
ReadQueues(q) ==
  [k \in DOMAIN q |-> LET t == renderQueue(q[k]) IN [name |-> t.name, end |-> normalizeAction(t.end)]]

-----------------------------------------------------------------------------
(* The runtime, on what it has read.                                       *)

\* Prepare and IndexActions; of two menus with one name the later is found.
Num(f, j) == IF f.actions[j].num = 0 THEN j ELSE f.actions[j].num
FnNamed(f, name) == LET I == {i \in DOMAIN f : f[i].name = name} IN IF I = {} THEN {} ELSE {Max(I)}

\* ResolveActionReference, as the set of the place it finds.
Resolved(f, ref) ==
  UNION {LET J == {j \in DOMAIN f[i].actions : Num(f[i], j) = ref.key} IN
         IF J = {} THEN {} ELSE {<<i, Max(J)>>} : i \in FnNamed(f, ref.fn)}

\* Where a call goes that comes to an action: its Type decides, and only an
\* action that plays goes on to its `then`.
Reaches(f, q, a) ==
  CASE actionKind(a) = "reuse" -> {Link("reuse", p, FALSE) : p \in Resolved(f, a.reuse)}
    [] actionKind(a) = "dst" -> {Link("dst", a.dst, FnNamed(f, a.dst) = {})}
    [] actionKind(a) = "dispatcher" ->
         {Link("dispatcher", a.dispatcher, \A k \in DOMAIN q : q[k].name # a.dispatcher)}
    [] actionKind(a) = "plays" /\ a.then # 0 -> {Link("then", a.then, FnNamed(f, a.then) = {})}
    [] OTHER -> {}

\* validateActionReferences: every chain of references ends at an action, and
\* none names the key it starts from.
Chain(f, p) ==
  LET next == [o \in FnPlaces(f) |-> Resolved(f, f[o[1]].actions[o[2]].reuse)]
      step(S) == UNION {next[o] : o \in {x \in S : f[x[1]].actions[x[2]].reuse.fn # 0}}
      reached[n \in 0..(MaxFns * MaxActions)] == IF n = 0 THEN p ELSE step(reached[n - 1])
  IN  reached
ReferencesValid(f, q) ==
  \A o \in {x \in Places(f, q) : At(f, q, x).reuse.fn # 0} :
    LET ref == At(f, q, o).reuse
        chain == Chain(f, Resolved(f, ref))
        refs == {ref} \cup {f[p[1]].actions[p[2]].reuse : p \in UNION Range(chain)} IN
    /\ \E n \in DOMAIN chain : \E p \in chain[n] : f[p[1]].actions[p[2]].reuse.fn = 0
    /\ \A r \in refs : r.fn # 0 /\ o[2] # 0 =>
         r # [fn |-> f[o[1]].name, key |-> Num(f[o[1]], o[2])]

\* Normalised as NormalizeCalledNumber and the page's check both do.
Normalized(number) == IF number = "+46" THEN "46" ELSE number

\* Validate, for the part of a connection that is modelled.
Accepts(f, c) ==
  LET exact == {j \in DOMAIN c.route : ~c.route[j].catchAll} IN
  \/ c.kind = "endpoint" /\ FnNamed(f, c.entrypoint) # {} /\ c.route = <<>>
  \/ /\ c.kind = "trunk" /\ c.entrypoint = 0 /\ c.route # <<>>
     /\ \A j \in DOMAIN c.route :
          /\ FnNamed(f, c.route[j].entrypoint) # {}
          /\ IF j \in exact THEN c.route[j].number # "" ELSE c.route[j].number = ""
     /\ \A i, j \in exact : Normalized(c.route[i].number) = Normalized(c.route[j].number) => i = j
     /\ Cardinality(DOMAIN c.route \ exact) <= 1

Validate(f, q, s) ==
  /\ s # <<>> /\ \A n \in DOMAIN s : Accepts(f, s[n])
  /\ ReferencesValid(f, q)

-----------------------------------------------------------------------------
(* validateSIPDefinition: what the page and the worker ask of a save.      *)

Saveable ==
  /\ sip # <<>>
  /\ \A n \in DOMAIN sip :
       LET c == sip[n]
           exact == {j \in DOMAIN c.route : ~c.route[j].catchAll} IN
       IF c.kind = "endpoint" THEN c.entrypoint \in Names(fns) /\ c.route = <<>>
       ELSE /\ c.route # <<>>
            /\ \A j \in DOMAIN c.route :
                 /\ c.route[j].entrypoint \in Names(fns)
                 /\ IF j \in exact THEN c.route[j].number # "" ELSE c.route[j].number = ""
            /\ \A i, j \in exact :
                 Normalized(c.route[i].number) = Normalized(c.route[j].number) => i = j
            /\ Cardinality(DOMAIN c.route \ exact) <= 1

-----------------------------------------------------------------------------
(* The page.                                                               *)

NoSelection == [kind |-> "none", name |-> 0, at |-> 0]
Selected(kind, name, at) == [kind |-> kind, name |-> name, at |-> at]

FlowInit ==
  /\ fns = <<>> /\ queues = <<>> /\ sip = <<>>
  /\ selection = NoSelection /\ edits = 0

Edits == edits < MaxEdits /\ edits' = edits + 1

\* findIndex by name
FirstNamed(s, name) == LET I == {i \in DOMAIN s : s[i].name = name} IN
                       IF I = {} THEN {} ELSE {Min(I)}

\* A node is clicked, or the way back from an action to its parent.
Selects ==
  /\ \/ \E n \in Names(fns) : selection' = Selected("fn", n, 0)
     \/ \E n \in Names(queues) : \E kind \in {"queue", "end"} : selection' = Selected(kind, n, 0)
     \/ \E p \in FnPlaces(fns) : selection' = Selected("action", fns[p[1]].name, p[2])
  /\ UNCHANGED <<fns, queues, sip, edits>>

\* addFn and addQueue: the name counts what is there.
AddFn ==
  /\ Edits /\ Len(fns) < MaxFns
  /\ LET name == Len(fns) + 1 IN
     fns' = Append(fns, emptyFn(name)) /\ selection' = Selected("fn", name, 0)
  /\ UNCHANGED <<queues, sip>>

AddQueue ==
  /\ Edits /\ Len(queues) < MaxQueues
  /\ LET name == Len(queues) + 1 IN
     queues' = Append(queues, emptyQueue(name)) /\ selection' = Selected("queue", name, 0)
  /\ UNCHANGED <<fns, sip>>

\* One menu of the name is taken out.
MutWithout(s, name) == LET I == FirstNamed(s, name) IN
                       IF I = {} THEN s ELSE RemoveAt(s, Min(I))

\* The others, in their order.
InOrder(K) == CHOOSE o \in [1..Cardinality(K) -> K] : \A i, j \in DOMAIN o : i < j => o[i] < o[j]
Without(s, name) == LET o == InOrder({i \in DOMAIN s : s[i].name # name}) IN [i \in DOMAIN o |-> s[o[i]]]

\* removeSelected
RemoveSelected ==
  /\ Edits /\ selection' = NoSelection
  /\ \/ selection.kind = "fn" /\ fns' = Without(fns, selection.name) /\ UNCHANGED queues
     \/ selection.kind = "queue" /\ queues' = Without(queues, selection.name) /\ UNCHANGED fns
  /\ UNCHANGED sip

\* updateFnByName and updateQueueByName: the selection follows a rename.
UpdateFn(f) ==
  /\ \E i \in FirstNamed(fns, selection.name) : fns' = [fns EXCEPT ![i] = f]
  /\ UNCHANGED <<queues, sip>>
UpdateQueue(q) ==
  /\ \E k \in FirstNamed(queues, selection.name) : queues' = [queues EXCEPT ![k] = q]
  /\ UNCHANGED <<fns, sip>>

\* The panel of a menu: its name, an action more, an action less.
EditFn ==
  /\ Edits /\ selection.kind = "fn"
  /\ \E i \in FirstNamed(fns, selection.name) :
       \/ \E n \in 0..MaxName : /\ UpdateFn([fns[i] EXCEPT !.name = n])
                                /\ selection' = [selection EXCEPT !.name = n]
       \/ /\ Len(fns[i].actions) < MaxActions
          /\ UpdateFn([fns[i] EXCEPT !.actions = Append(@, emptyAction)])
          /\ selection' = Selected("action", fns[i].name, Len(fns[i].actions) + 1)
       \/ /\ \E j \in DOMAIN fns[i].actions :
               UpdateFn([fns[i] EXCEPT !.actions = RemoveAt(@, j)])
          /\ UNCHANGED selection

EditQueue ==
  /\ Edits /\ selection.kind = "queue"
  /\ \E k \in FirstNamed(queues, selection.name) : \E n \in 0..MaxName :
       UpdateQueue([queues[k] EXCEPT !.name = n]) /\ selection' = [selection EXCEPT !.name = n]

\* The actions a reference may be made to: reusableActions.
Reusable(self) ==
  {[fn |-> fns[p[1]].name, key |-> KeyOf(fns[p[1]], p[2])] :
     p \in {o \in FnPlaces(fns) : /\ actionKind(At(fns, queues, o)) \notin {"reuse", "none"}
                                  /\ self # Selected("action", fns[o[1]].name, o[2])}}

\* switchKind: every field of a kind is reset, those of the new one are given.
Switched(a) ==
  LET reset == [emptyAction EXCEPT !.num = a.num] IN
  {[reset EXCEPT !.dst = Choose], [reset EXCEPT !.dispatcher = Choose],
   [reset EXCEPT !.plays = TRUE], [reset EXCEPT !.livefeed = "default"]}
  \cup {[reset EXCEPT !.reuse = r] :
          r \in IF Reusable(selection) # {} THEN Reusable(selection) ELSE {[fn |-> Choose, key |-> 0]}}

\* What the panel of an action makes of it.  An action of no kind is shown the
\* panel of dst, and one whose own field (a url, a path) is emptied keeps its `then`.
Edited(a) ==
  Switched(a)
  \cup {[a EXCEPT !.num = n] : n \in ActionKey}
  \cup (CASE actionKind(a) \in {"dst", "none"} ->
                 {[a EXCEPT !.dst = n] : n \in Names(fns) \cup {0}}
          [] actionKind(a) = "dispatcher" -> {[a EXCEPT !.dispatcher = n] : n \in 0..MaxName}
          [] actionKind(a) = "livefeed" -> {[a EXCEPT !.livefeed = l] : l \in Feed \ {"null"}}
          [] actionKind(a) = "plays" -> {[a EXCEPT !.then = n] : n \in Names(fns) \cup {0}}
                                           \cup {[a EXCEPT !.plays = FALSE]}
          [] OTHER -> {})

EditAction ==
  /\ Edits
  /\ \/ /\ selection.kind = "action"
        /\ \E i \in FirstNamed(fns, selection.name) :
             /\ selection.at \in DOMAIN fns[i].actions
             /\ \/ /\ \E a \in Edited(fns[i].actions[selection.at]) :
                        UpdateFn([fns[i] EXCEPT !.actions[selection.at] = a])
                   /\ UNCHANGED selection
                \/ /\ UpdateFn([fns[i] EXCEPT !.actions = RemoveAt(@, selection.at)])
                   /\ selection' = Selected("fn", selection.name, 0)
     \/ /\ selection.kind = "end" /\ UNCHANGED selection
        /\ \E k \in FirstNamed(queues, selection.name) :
             \E a \in Edited(queues[k].end) \cup {emptyAction} :
               UpdateQueue([queues[k] EXCEPT !.end = a])

\* switchKind of a connection.
MutSwitchedKind(c, kind) ==
  IF kind = "trunk"
  THEN [c EXCEPT !.kind = kind, !.route = IF @ # <<>> THEN @ ELSE <<emptySIPRoute(FirstName)>>]
  ELSE [c EXCEPT !.kind = kind, !.route = <<>>]

SwitchedKind(c, kind) ==
  IF kind = "trunk"
  THEN [kind |-> kind, entrypoint |-> 0,
        route |-> IF c.route # <<>> THEN c.route ELSE <<emptySIPRoute(FirstName)>>]
  ELSE [kind |-> kind, route |-> <<>>,
        entrypoint |-> IF c.entrypoint # 0 THEN c.entrypoint ELSE FirstName]

\* RouteEditor: ticking catch-all empties the number, which may be typed after.
EditedRoute(r) ==
  {[r EXCEPT !.number = x] : x \in Number}
  \cup {[r EXCEPT !.entrypoint = n] : n \in Names(fns) \cup {0}}
  \cup {[r EXCEPT !.catchAll = b, !.number = IF b THEN "" ELSE @] : b \in BOOLEAN}

EditedConnection(c) ==
  {SwitchedKind(c, kind) : kind \in {"endpoint", "trunk"}}
  \cup (IF c.kind = "endpoint"
        THEN {[c EXCEPT !.entrypoint = n] : n \in Names(fns) \cup {0}}
        ELSE {[c EXCEPT !.route = RemoveAt(@, j)] : j \in DOMAIN c.route}
             \cup {[c EXCEPT !.route = Append(@, emptySIPRoute(FirstName))] :
                     x \in IF Len(c.route) < MaxRoutes THEN {0} ELSE {}}
             \cup UNION {{[c EXCEPT !.route[j] = r] : r \in EditedRoute(c.route[j])} :
                           j \in DOMAIN c.route})

\* The SIP tab: add, edit, remove, reorder.
EditSIP ==
  /\ Edits
  /\ \/ Len(sip) < MaxConnections /\ sip' = Append(sip, emptySIPConnection(FirstName))
     \/ \E n \in DOMAIN sip : \E c \in EditedConnection(sip[n]) : sip' = [sip EXCEPT ![n] = c]
     \/ \E n \in DOMAIN sip : sip' = RemoveAt(sip, n)
     \/ \E n \in DOMAIN sip : n + 1 \in DOMAIN sip /\ sip' = [sip EXCEPT ![n] = sip[n + 1], ![n + 1] = sip[n]]
  /\ UNCHANGED <<fns, queues, selection>>

\* The draft is saved, and the page loaded again.
SaveAndLoad ==
  /\ Saveable
  /\ fns' = ReadFns(fns) /\ queues' = ReadQueues(queues)
  /\ UNCHANGED <<sip, selection, edits>>

FlowNext ==
  \/ Selects \/ AddFn \/ AddQueue \/ RemoveSelected
  \/ EditFn \/ EditQueue \/ EditAction \/ EditSIP \/ SaveAndLoad

FlowSpec == FlowInit /\ [][FlowNext]_flowVars

-----------------------------------------------------------------------------
(* What must hold.                                                         *)

FlowTypeOK ==
  /\ fns \in Seq([name : Name, actions : Seq(FlowAction)]) /\ Len(fns) <= MaxFns
  /\ \A i \in DOMAIN fns : Len(fns[i].actions) <= MaxActions
  /\ queues \in Seq([name : Name, end : FlowAction]) /\ Len(queues) <= MaxQueues
  /\ sip \in Seq([kind : {"endpoint", "trunk"}, entrypoint : Name, route : Seq(Route)])
  /\ Len(sip) <= MaxConnections /\ \A n \in DOMAIN sip : Len(sip[n].route) <= MaxRoutes
  /\ selection \in [kind : {"none", "fn", "queue", "action", "end"}, name : Name, at : ActionKey]
  /\ edits \in 0..MaxEdits

\* No two menus and no two queues bear the same name, which their panels ask of
\* the operator and nothing enforces.
NamesDistinct ==
  /\ \A i, j \in DOMAIN fns : fns[i].name = fns[j].name => i = j
  /\ \A i, j \in DOMAIN queues : queues[i].name = queues[j].name => i = j

\* The `then` of an action that no longer plays, which nothing but a change of its
\* kind takes back.
LeftOver(f, a) ==
  {Link("then", n, FnNamed(f, n) = {}) : n \in IF a.plays THEN {} ELSE {a.then} \ {0}}

\* The graph is the call flow: of a document whose names are distinct, every
\* edge the page draws from an action is where the runtime, having read what
\* the page would save, takes a call from there, and it is drawn broken exactly
\* when the runtime finds nothing.  The one kind of edge that no call takes is a
\* `then` left over from a request whose url was emptied: the page draws it
\* (appendActionTargetEdge), the runtime goes by the action's Type.
GraphShowsRuntime ==
  NamesDistinct =>
    LET f == ReadFns(fns)  q == ReadQueues(queues) IN
    Graph(fns, queues) =
      [p \in Drawn(f, q) |-> Reaches(f, q, At(f, q, p)) \cup LeftOver(f, At(f, q, p))]

\* A draft that may be saved is a configuration the runtime takes, as far as
\* its references go: these the page does not check.
SavedIsAccepted ==
  Saveable /\ ReferencesValid(ReadFns(fns), ReadQueues(queues)) =>
    Validate(ReadFns(fns), ReadQueues(queues), sip)

\* "Inbound references will become broken": after a removal nothing leads to
\* the name that has gone, for the runtime.
RemovalBreaksInbound ==
  [][RemoveSelected /\ selection.kind = "fn" =>
       LET f == ReadFns(fns')  q == ReadQueues(queues') IN
       /\ FnNamed(f, selection.name) = {}
       /\ \A p \in Places(f, q) : \A l \in Reaches(f, q, At(f, q, p)) :
            l.kind \in {"dst", "then"} /\ l.to = selection.name => l.broken]_flowVars

\* Saving and loading leaves the flow as it was drawn.
GraphSurvivesSave == Graph(ReadFns(fns), ReadQueues(queues)) = Graph(fns, queues)

\* "Strict roundtrip" (lib/toml-render.ts): what the runtime reads has the
\* actions the page shows.
KindsSurviveSave ==
  \A p \in Places(fns, queues) :
    actionKind(At(ReadFns(fns), ReadQueues(queues), p)) = actionKind(At(fns, queues, p))
=============================================================================
