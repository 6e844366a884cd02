------------------------------- MODULE Display -------------------------------
\* render.js and the frame script's commit() and event listeners (frame.js): how
\* one committed tree replaces another in a document that the user is typing in,
\* and what of the user's actions reaches the host.
\*
\* A node of a tree is a text or an element with a map of validated attributes.
\* A node of the document has besides the commit that created it and the state
\* of a control.  What the DOM does on its own (a control that follows its
\* attributes until it is changed, focus that a removed node loses, a cancelled
\* click that undoes the change of a checkbox) is modelled as the code relies
\* on it.
EXTENDS Naturals, Sequences, SequencesExt, FiniteSetsExt

CONSTANTS
  Typed,      \* what a user may type
  MaxMoves,   \* bound on pointer moves
  MaxCommits, \* bound on commits
  Nothing,    \* no tree
  Malformed   \* a message that is not tree-shaped

VARIABLES
  dom,        \* childNodes of the mount
  current,    \* last committed tree, or Nothing
  commits,    \* calls of commit() so far
  ack,        \* what the last one returned
  focus,      \* path of the focused element, <<>> if none
  pending,    \* pendingPointer: the number of the move, 0 if none
  frames,     \* animation frames asked for
  moves,      \* moves over an element that asked for them
  reported,   \* the newest move posted to the parent
  posted      \* last event posted for another reason

renderVars == <<dom, current, commits, ack>>
pointerVars == <<pending, frames, moves, reported>>
displayVars == <<renderVars, focus, pointerVars, posted>>

NoEvent == [type |-> "none"]

Text(s) == [kind |-> "text", text |-> s]
El(tag, attrs, children) == [kind |-> "el", tag |-> tag, attrs |-> attrs, children |-> children]
NoAttrs == [n \in {} |-> ""]
Has(node, name) == name \in DOMAIN node.attrs
Attr(node, name) == IF Has(node, name) THEN node.attrs[name] ELSE "undefined"

\* The elements whose state a user changes.  The type of an input is part of
\* its tag here: a commit that changes it in place is left out.
Field == {"input", "textarea"}
Control == Field \cup {"checkbox"}

Kids(node) == IF node.kind = "el" THEN node.children ELSE <<>>
RECURSIVE Paths(_)
Paths(forest) ==
  UNION {{<<i>>} \cup {<<i>> \o p : p \in Paths(Kids(forest[i]))} : i \in DOMAIN forest}
RECURSIVE At(_, _)
At(forest, path) ==
  IF Len(path) = 1 THEN forest[path[1]] ELSE At(Kids(forest[path[1]]), Tail(path))
There(forest, path) == path \in Paths(forest)

\* ensureElementAllowed and ensureAttrAllowed throw for a node no policy lets pass.
Refused(tree) ==
  \E p \in Paths(tree) : At(tree, p).kind = "el" /\ At(tree, p).tag = "refused"

DisplayInit ==
  /\ dom = <<>> /\ current = Nothing /\ commits = 0 /\ ack = "none"
  /\ focus = <<>>
  /\ pending = 0 /\ frames = 0 /\ moves = 0 /\ reported = 0
  /\ posted = NoEvent

-----------------------------------------------------------------------------
\* What a field shows while the user has not changed it.
OwnValue(node) ==
  IF node.tag = "textarea" THEN (IF node.children = <<>> THEN "" ELSE node.children[1].text)
  ELSE IF Has(node, "value") THEN node.attrs["value"] ELSE ""

\* createNode; a new control has the state its attributes give it.
RECURSIVE Create(_, _)
Create(node, born) ==
  IF node.kind = "text" THEN node @@ [born |-> born]
  ELSE [node EXCEPT !.children = [i \in DOMAIN node.children |-> Create(node.children[i], born)]]
       @@ [born |-> born, value |-> OwnValue(node), dirty |-> FALSE,
           checked |-> Has(node, "checked")]

\* Seeded bug: the value property is set at every commit.
Bug_AlwaysSync(old, new) == Has(new, "value")

\* syncControlState sets the value when the view intends a new one.
IntendsValue(old, new) == Has(new, "value") /\ Attr(new, "value") # Attr(old, "value")

\* patchAttrs, then syncControlState: node is the element of the document, its
\* children patched already.
Synced(node, old, new) ==
  LET followed == IF node.dirty THEN node.value ELSE OwnValue(node)
      intended == new.tag = "input" /\ IntendsValue(old, new) /\ followed # new.attrs["value"]
  IN [node EXCEPT
        !.value = IF intended THEN new.attrs["value"] ELSE followed,
        !.dirty = node.dirty \/ intended,
        !.checked = IF Has(old, "checked") = Has(new, "checked") THEN @ ELSE Has(new, "checked")]

\* Seeded bug: an element is taken for the same whatever its tag.
Bug_SameKind(old, new) == old.kind = new.kind

SameNode(old, new) == old.kind = new.kind /\ (new.kind = "el" => old.tag = new.tag)

PatchedAttrs(node, old, new) ==
  [n \in DOMAIN new.attrs |-> IF Attr(old, n) # new.attrs[n] THEN new.attrs[n] ELSE node.attrs[n]]

\* patchNode and patchChildren: by position.
RECURSIVE PatchNode(_, _, _, _), PatchChildren(_, _, _, _)
PatchNode(node, old, new, born) ==
  IF ~SameNode(old, new) THEN Create(new, born)
  ELSE IF new.kind = "text" THEN [node EXCEPT !.text = new.text]
  ELSE Synced([node EXCEPT !.attrs = PatchedAttrs(node, old, new),
                           !.children = PatchChildren(@, old.children, new.children, born)],
              old, new)
PatchChildren(nodes, old, new, born) ==
  [i \in DOMAIN new |-> IF i <= Len(old) THEN PatchNode(nodes[i], old[i], new[i], born)
                        ELSE Create(new[i], born)]

\* restoreFocus: an element of the same tag at the same path gets the focus; a
\* node that was removed has lost it.
Focused(before, after) ==
  IF focus # <<>> /\ There(after, focus) /\ At(after, focus).kind = "el"
     /\ At(after, focus).tag = At(before, focus).tag
  THEN focus ELSE <<>>

\* commit(): what is no tree changes nothing; a renderer that throws shows nothing.
Commit(tree) ==
  LET nodes == IF current = Nothing THEN PatchChildren(<<>>, <<>>, tree, commits + 1)
               ELSE PatchChildren(dom, current, tree, commits + 1)
  IN /\ commits < MaxCommits /\ commits' = commits + 1
     /\ IF tree = Malformed
        THEN ack' = "failed" /\ UNCHANGED <<dom, current, focus>>
        ELSE IF Refused(tree)
        THEN dom' = <<>> /\ current' = Nothing /\ ack' = "failed" /\ focus' = <<>>
        ELSE dom' = nodes /\ current' = tree /\ ack' = "ok" /\ focus' = Focused(dom, nodes)
     /\ UNCHANGED <<pointerVars, posted>>

-----------------------------------------------------------------------------
(***************************************************************************
 The user, and the listeners on the mount.
 ***************************************************************************)
\* actionTarget: the nearest element at or above path that names an action.
Above(path) == {SubSeq(path, 1, n) : n \in 1..Len(path)}
Named(path) ==
  {p \in Above(path) : At(dom, p).kind = "el" /\ Has(At(dom, p), "data-action")}
Target(path) == CHOOSE p \in Named(path) : \A q \in Named(path) : Len(q) <= Len(p)
InAction(path) == Named(path) # {}

\* baseEvent and controlFields of a node.
Event(type, path, node) ==
  [type |-> type, action |-> Attr(At(dom, Target(path)), "data-action"), tag |-> node.tag]
  @@ IF node.tag \in Field THEN [value |-> node.value]
     ELSE IF node.tag = "checkbox" THEN [checked |-> node.checked] ELSE NoAttrs

RECURSIVE Put(_, _, _)
Put(forest, path, node) ==
  IF Len(path) = 1 THEN [forest EXCEPT ![path[1]] = node]
  ELSE [forest EXCEPT ![path[1]].children = Put(@, Tail(path), node)]

ControlAt(path, tags) == At(dom, path).kind = "el" /\ At(dom, path).tag \in tags

Focus(path) ==
  /\ ControlAt(path, Control) /\ focus # path /\ focus' = path
  /\ UNCHANGED <<renderVars, pointerVars, posted>>

\* The input listener.
Type(path, s) ==
  LET typed == [At(dom, path) EXCEPT !.value = s, !.dirty = TRUE]
  IN /\ ControlAt(path, Field) /\ focus = path
     /\ typed.value # At(dom, path).value
     /\ dom' = Put(dom, path, typed)
     /\ posted' = IF InAction(path) THEN Event("input", path, typed) ELSE posted
     /\ UNCHANGED <<current, commits, ack, focus, pointerVars>>

\* The click listener reports the fields of the element that has the action, and
\* prevents the click: the browser takes the change back once it returned.
Click(path) ==
  LET toggled == [At(dom, path) EXCEPT !.checked = ~@]
      target == Target(path)
  IN /\ ControlAt(path, {"checkbox"})
     /\ dom' = IF InAction(path) THEN dom ELSE Put(dom, path, toggled)
     /\ posted' = IF InAction(path)
                  THEN Event("click", path, IF target = path THEN toggled ELSE At(dom, target))
                  ELSE posted
     /\ UNCHANGED <<current, commits, ack, focus, pointerVars>>

\* Seeded bug: a flush does not forget what it posted.
Bug_KeepPending == pending

AfterFlush == 0

Hovers(path) == InAction(path) /\ Has(At(dom, Target(path)), "data-hover")

\* The pointermove listener: the newest move waits for one animation frame.
Move(path) ==
  /\ Hovers(path) /\ moves < MaxMoves
  /\ moves' = moves + 1 /\ pending' = moves + 1
  /\ frames' = IF pending = 0 THEN frames + 1 ELSE frames
  /\ UNCHANGED <<renderVars, focus, reported, posted>>

FlushPointer ==
  /\ frames > 0 /\ frames' = frames - 1
  /\ reported' = IF pending # 0 THEN pending ELSE reported
  /\ pending' = AfterFlush
  /\ UNCHANGED <<renderVars, focus, moves, posted>>

\* A step, where the port may deliver any of trees.
DisplayNext(trees) ==
  \/ \E tree \in trees : Commit(tree)
  \/ \E path \in Paths(dom) :
       Focus(path) \/ Click(path) \/ Move(path) \/ \E s \in Typed : Type(path, s)
  \/ FlushPointer
-----------------------------------------------------------------------------
(***************************************************************************
 Properties.
 ***************************************************************************)
\* What of a document is validated.
RECURSIVE Validated(_)
Validated(forest) ==
  [i \in DOMAIN forest |->
     IF forest[i].kind = "text" THEN Text(forest[i].text)
     ELSE El(forest[i].tag, forest[i].attrs, Validated(forest[i].children))]

\* However many commits patched it, also after one that threw half way, the
\* document is the last committed tree and nothing else: as if built from it.
DisplayIsTree ==
  /\ IF current = Nothing THEN dom = <<>> ELSE Validated(dom) = current
  /\ ack = "ok" => current # Nothing
  /\ focus # <<>> => There(dom, focus)

\* An element at path and all above it are the same in both trees.
Persists(path, old, new) ==
  \A p \in Above(path) : There(old, p) /\ There(new, p) /\ SameNode(At(old, p), At(new, p))

\* "Focus, selection and in-progress control values survive updates when the
\* element persists": what was typed or toggled is left alone unless the view
\* intends a new value, which then shows in an input; and focus stays where it
\* is.  A textarea is not held to show a new text.
UserStateSurvives ==
  [][current # Nothing /\ current' # Nothing /\ commits' # commits =>
       \A p \in Paths(dom) :
         Persists(p, current, current') /\ ControlAt(p, Control) =>
           LET was == At(current, p)  is == At(current', p)
               before == At(dom, p)   after == At(dom', p)
           IN /\ after.born = before.born
              /\ focus = p => focus' = p
              /\ is = was => after = before
              /\ is.tag = "input" /\ Has(is, "value") =>
                   after.value = IF Attr(was, "value") = is.attrs["value"]
                                 THEN before.value ELSE is.attrs["value"]
              /\ is.tag = "checkbox" =>
                   after.checked = IF Has(was, "checked") = Has(is, "checked")
                                   THEN before.checked ELSE Has(is, "checked")]_displayVars

\* Moves are coalesced, never lost: whatever commits happen meanwhile, the host
\* hears of the newest, and of no older one after it.
NewestMoveReported ==
  /\ \A m \in 1..MaxMoves : moves = m ~> reported >= m
  /\ [][reported' >= reported]_displayVars
=============================================================================
