----------------------------- MODULE Normalizer -----------------------------
\* policy.js normalizeTree(): the iterative walk that turns a raw tree into a
\* proposal, and records what it removed.  A reason ends the proposal; the walk
\* then only empties its stack.
EXTENDS PolicyTrees

\* One child list on the stack.  An unwrapped element's list writes to the
\* output of the list it stands in; an element's list becomes its children.
Frame(list, parentNs, depth, sdepth, path, textOnly, out, element) ==
  [list |-> list, parentNs |-> parentNs, depth |-> depth, sdepth |-> sdepth, path |-> path,
   textOnly |-> textOnly, out |-> out, index |-> 0, element |-> element]

Unwrapped == OtherNode("unwrapped")

NormalizeStart(raw) ==
  [stack |-> <<Frame(raw, "html", 0, 0, <<>>, FALSE, <<>>, Unwrapped)>>,
   tree |-> <<>>, changes |-> <<>>, reasons |-> <<>>, nodes |-> 0, totalText |-> 0]

Reject(st, code) == [st EXCEPT !.reasons = Append(@, code)]
Diagnose(st, change) == [st EXCEPT !.changes = Append(@, change)]
Emit(st, node) == [st EXCEPT !.stack[Len(st.stack)].out = Append(@, node)]

\* The list is done: emit the element it belongs to, or hand the output on.
NormalizePop(st) ==
  LET done == Last(st.stack)
      below == [st EXCEPT !.stack = Front(@)]
  IN IF below.stack = <<>> THEN [below EXCEPT !.tree = done.out]
     ELSE IF done.element = Unwrapped THEN [below EXCEPT !.stack[Len(below.stack)].out = done.out]
     ELSE Emit(below, [done.element EXCEPT !.children = done.out])

Descend(st, frame, list, parentNs, depth, here, textOnly, out, element) ==
  IF frame.sdepth + 1 > MaxTraversalDepth THEN Reject(st, "traversal-depth")
  ELSE [st EXCEPT !.stack =
          Append(@, Frame(list, parentNs, depth, frame.sdepth + 1, here, textOnly, out, element))]

-----------------------------------------------------------------------------
\* checkAttrs: the loop keeps the first value of a name.
Kept(seen, name, value) ==
  IF \E i \in DOMAIN seen : seen[i][1] = name THEN seen ELSE Append(seen, <<name, value>>)

\* Why an attribute is removed: its place, its name, its length or its value.
AttrRefusal(name, d, value, canonical, count) ==
  IF count > MaxAttrs THEN "too-many"
  ELSE IF name \in NeverAllowed \/ d = NoDescriptor THEN "name"
  ELSE IF Len(value) > LongFactor * MaxAttrValueLength THEN "too-long"
  ELSE IF canonical = Null THEN "value"
  ELSE ""

\* The loop's accumulator after an attribute of that name, descriptor and value.
CheckedAttr(acc, here, name, d, value, canonical) ==
  LET count == acc.count + 1
      why == AttrRefusal(name, d, value, canonical, count)
      removed == <<Change("removed-attribute", name, here, why)>>
      rewrote == IF canonical = value THEN <<>>
                 ELSE <<Change("rewrote-attribute", name, here, "")>>
  IN IF why # "" THEN [acc EXCEPT !.count = count, !.changes = @ \o removed]
     ELSE [count |-> count, seen |-> Kept(acc.seen, name, canonical),
           changes |-> acc.changes \o rewrote]

CheckAttr(ns, tag, here, acc, pair) ==
  LET name == CanonicalName(ns, pair[1])
      d == Descriptor(ns, tag, name)
  IN CheckedAttr(acc, here, name, d, pair[2], JsValidator(d, pair[2]))

\* Seeded bug: a forced attribute is added whether it is there or not.
Bug_ForcedTwice(ns, tag, seen) ==
  IF ns = "html" /\ tag \in DOMAIN HtmlForced THEN seen \o HtmlForced[tag] ELSE seen

\* The forced attributes, and the type an input has by default.
Forced(ns, tag, seen) ==
  LET pairs == IF ns = "html" /\ tag \in DOMAIN HtmlForced THEN HtmlForced[tag] ELSE <<>>
      forced == FoldLeft(LAMBDA acc, p : Kept(acc, p[1], p[2]), seen, pairs)
  IN IF ns = "html" /\ tag = "input" THEN Kept(forced, "type", <<"text">>) ELSE forced

SortedAttrs(attrs) == SortSeq(attrs, LAMBDA a, b : Before(a[1], b[1]))

CheckedAttrs(ns, tag, loop) ==
  [attrs |-> SortedAttrs(Forced(ns, tag, loop.seen)), changes |-> loop.changes]
CheckAttrs(attrs, ns, tag, here) ==
  CheckedAttrs(ns, tag,
    FoldLeft(LAMBDA acc, pair : CheckAttr(ns, tag, here, acc, pair),
             [count |-> 0, seen |-> <<>>, changes |-> <<>>], attrs))

-----------------------------------------------------------------------------
\* The three kinds of a child of the list on top of the stack.
NormalizeText(st, raw) ==
  LET s == CleanText(raw.text)
      total == st.totalText + Len(s)
      reason == FirstExceeded(<<<<Len(s) > MaxTextLength, "text-too-long">>,
                                <<total > MaxTotalText, "total-text-too-long">>,
                                <<st.nodes + 1 > MaxNodes, "too-many-nodes">>>>)
  IN IF s = <<>> THEN st
     ELSE IF reason # "" THEN Reject(st, reason)
     ELSE Emit([st EXCEPT !.totalText = total, !.nodes = @ + 1], TextNode(s))

\* How the position and the tables dispose of an element that is not too deep.
Disposition(ns, parentNs, tag) ==
  CASE ns = "html" /\ parentNs = "html" ->
         IF tag \in DOMAIN HtmlElements THEN "keep"
         ELSE IF tag \in HtmlUnwrap THEN "unwrap" ELSE "drop"
    [] ns = "svg" /\ (tag = "svg" \/ parentNs = "svg") ->
         IF tag \in DOMAIN SvgElements THEN "keep" ELSE "drop"
    [] OTHER -> "namespace"

\* An element that stays, with its attributes checked.
KeepElement(st, frame, raw, tag, here, attrs) ==
  IF st.nodes + 1 > MaxNodes THEN Reject(st, "too-many-nodes")
  ELSE Descend([st EXCEPT !.nodes = @ + 1, !.changes = @ \o attrs.changes], frame,
               raw.children, raw.ns, frame.depth + 1, here,
               raw.ns = "svg" /\ tag \in SvgTextOnly, <<>>,
               Element(raw.ns, tag, attrs.attrs, <<>>))

NormalizeElement(st, frame, raw, here) ==
  LET tag == Lower(raw.tag)
      gone(name, why) == Diagnose(st, Change("removed-element", name, here, why))
      disposition == Disposition(raw.ns, frame.parentNs, tag)
  IN CASE frame.textOnly -> gone(raw.tag, "text-only-context")
       [] ~frame.textOnly /\ frame.depth + 1 > MaxDepth -> Reject(st, "too-deep")
       [] OTHER ->
            CASE disposition = "namespace" -> gone(tag, "namespace")
              [] disposition = "drop" -> gone(tag, "")
              [] disposition = "unwrap" ->
                   Descend(Diagnose(st, Change("unwrapped-element", tag, here, "")), frame,
                           raw.children, frame.parentNs, frame.depth, here, FALSE,
                           frame.out, Unwrapped)
              [] OTHER -> KeepElement(st, frame, raw, tag, here,
                                      CheckAttrs(raw.attrs, raw.ns, tag, here))

\* One turn of the loop of checkChildren().
NormalizeStep(st) ==
  LET frame == Last(st.stack)
      raw == frame.list[frame.index + 1]
      here == Append(frame.path, frame.index + 1)
      next == [st EXCEPT !.stack[Len(st.stack)].index = @ + 1]
  IN CASE frame.index >= Len(frame.list) -> NormalizePop(st)
       [] frame.index < Len(frame.list) /\ st.reasons # <<>> -> next
       [] OTHER ->
            CASE raw.kind = "text" -> NormalizeText(next, raw)
              [] raw.kind = "el" -> NormalizeElement(next, frame, raw, here)
              [] OTHER -> Diagnose(next, Change("removed-node", raw.kind, here, ""))

RECURSIVE NormalizeFrom(_)
NormalizeFrom(st) == IF st.stack = <<>> THEN st ELSE NormalizeFrom(NormalizeStep(st))

\* buildCandidate
Proposes(st) ==
  IF st.reasons # <<>> THEN [status |-> "rejected", reasons |-> st.reasons]
  ELSE [status |-> "proposed", tree |-> st.tree, changes |-> st.changes]
BuildCandidate(raw) == Proposes(NormalizeFrom(NormalizeStart(raw)))
=============================================================================
