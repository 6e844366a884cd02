---------------------------- MODULE LeanAuthority ----------------------------
\* lean/Guard/Policy: the executable specification of the normaliser (Check),
\* and the predicate that decides what may be rendered (Accept, Candidate).
EXTENDS PolicyTrees

LeanStart == [out |-> <<>>, nodes |-> 0, totalText |-> 0, changes |-> <<>>, reasons |-> <<>>]
LeanReject(st, code) == [st EXCEPT !.reasons = Append(@, code)]
LeanChange(st, change) == [st EXCEPT !.changes = Append(@, change)]
Lookup(attrs, name) == SelectSeq(attrs, LAMBDA a : a[1] = name)

\* checkAttrStep, and the attributes forced on an element.
LeanAttr(path, st, name, d, value, canonical) ==
  LET drop(why) == LeanChange(st, Change("removed-attribute", name, path, why))
      kept == IF Lookup(st.seen, name) # <<>> THEN st
              ELSE [st EXCEPT !.seen = Append(@, <<name, canonical>>)]
  IN IF st.count > MaxAttrs THEN drop("too-many")
     ELSE IF name \in NeverAllowed \/ d = NoDescriptor THEN drop("name")
     ELSE IF Len(value) > LongFactor * MaxAttrValueLength THEN drop("too-long")
     ELSE IF canonical = Null THEN drop("value")
     ELSE IF canonical = value THEN kept
     ELSE LeanChange(kept, Change("rewrote-attribute", name, path, ""))
LeanAttrStep(ns, tag, path, acc, pair) ==
  LET name == CanonicalName(ns, pair[1])
      d == Descriptor(ns, tag, name)
  IN LeanAttr(path, [acc EXCEPT !.count = @ + 1], name, d, pair[2], LeanValidator(d, pair[2]))

LeanForced(ns, tag, seen) ==
  LET missing(pairs) == SelectSeq(pairs, LAMBDA p : Lookup(seen, p[1]) = <<>>)
      forced == IF ns = "html" /\ tag \in DOMAIN HtmlForced THEN missing(HtmlForced[tag]) ELSE <<>>
      type == IF ns = "html" /\ tag = "input" THEN missing(<<<<"type", <<"text">>>>>>) ELSE <<>>
  IN SortSeq(seen \o forced \o type, LAMBDA a, b : Before(a[1], b[1]))

LeanAttrs(ns, tag, path, changes, attrs) ==
  FoldLeft(LAMBDA acc, pair : LeanAttrStep(ns, tag, path, acc, pair),
           [count |-> 0, seen |-> <<>>, changes |-> changes], attrs)
LeanKept(out, ns, tag, seen, kids) ==
  [kids EXCEPT !.out = Append(out, Element(ns, tag, LeanForced(ns, tag, seen), @))]

\* checkChildren, checkChildStep and checkElement, where a list stands: its
\* parent's namespace, its depths, its path, and whether only text may be in it.
RECURSIVE LeanChildren(_, _, _)
LeanPlace(parentNs, depth, sdepth, path, textOnly) ==
  [parentNs |-> parentNs, depth |-> depth, sdepth |-> sdepth, path |-> path, textOnly |-> textOnly]

LeanKeep(st, place, tag, raw, here, attrs) ==
  LeanKept(st.out, raw.ns, tag, attrs.seen,
    LeanChildren([st EXCEPT !.nodes = @ + 1, !.changes = attrs.changes, !.out = <<>>], raw.children,
                 LeanPlace(raw.ns, place.depth + 1, place.sdepth + 1, here,
                           raw.ns = "svg" /\ tag \in SvgTextOnly)))

LeanUnwrapped(out, kids) == [kids EXCEPT !.out = out \o @]
LeanUnwrap(st, place, raw, here) ==
  LeanUnwrapped(st.out,
    LeanChildren([st EXCEPT !.out = <<>>], raw.children,
                 LeanPlace(place.parentNs, place.depth, place.sdepth + 1, here, FALSE)))

LeanElement(st, place, tag, raw, here) ==
  LET remove(name, why) == LeanChange(st, Change("removed-element", name, here, why))
  IN IF place.textOnly THEN remove(raw.tag, "text-only-context")
     ELSE IF place.depth + 1 > MaxDepth THEN LeanReject(st, "too-deep")
     ELSE IF \/ raw.ns = "html" /\ place.parentNs = "html"
             \/ raw.ns = "svg" /\ (tag = "svg" \/ place.parentNs = "svg")
       THEN IF tag \in DOMAIN Elements(raw.ns)
            THEN IF st.nodes + 1 > MaxNodes THEN LeanReject(st, "too-many-nodes")
                 ELSE LeanKeep(st, place, tag, raw, here,
                               LeanAttrs(raw.ns, tag, here, st.changes, raw.attrs))
            ELSE IF raw.ns = "html" /\ tag \in HtmlUnwrap
            THEN LeanUnwrap(LeanChange(st, Change("unwrapped-element", tag, here, "")),
                            place, raw, here)
            ELSE remove(tag, "")
     ELSE remove(tag, "namespace")

LeanTextNode(st, t) ==
  LET total == st.totalText + Len(t)
      reason == FirstExceeded(<<<<Len(t) > MaxTextLength, "text-too-long">>,
                                <<total > MaxTotalText, "total-text-too-long">>,
                                <<st.nodes + 1 > MaxNodes, "too-many-nodes">>>>)
  IN IF t = <<>> THEN st
     ELSE IF reason # "" THEN LeanReject(st, reason)
     ELSE [st EXCEPT !.totalText = total, !.nodes = @ + 1, !.out = Append(@, TextNode(t))]

LeanChild(st, place, raw, here) ==
  IF st.reasons # <<>> THEN st
  ELSE CASE raw.kind = "text" -> LeanTextNode(st, CleanText(raw.text))
         [] raw.kind = "el" -> LeanElement(st, place, Lower(raw.tag), raw, here)
         [] OTHER -> LeanChange(st, Change("removed-node", raw.kind, here, ""))

LeanChildren(st, raws, place) ==
  IF place.sdepth > MaxTraversalDepth THEN LeanReject(st, "traversal-depth")
  ELSE FoldLeft(LAMBDA s, i : LeanChild(s, place, raws[i], Append(place.path, i)), st,
                [i \in DOMAIN raws |-> i])

LeanResult(st) ==
  IF st.reasons # <<>> THEN [status |-> "rejected", reasons |-> st.reasons]
  ELSE [status |-> "proposed", tree |-> st.out, changes |-> st.changes]
LeanNormalize(raw) == LeanResult(LeanChildren(LeanStart, raw, LeanPlace("html", 0, 0, <<>>, FALSE)))

-----------------------------------------------------------------------------
\* attrsCanonical
AttrsCanonical(ns, tag, attrs) ==
  /\ Len(attrs) <= MaxAttrs
  /\ \A i \in DOMAIN attrs :
       LET d == Descriptor(ns, tag, attrs[i][1])
       IN /\ attrs[i][1] \notin NeverAllowed
          /\ d # NoDescriptor
          /\ LeanValidator(d, attrs[i][2]) = attrs[i][2]
  /\ ns = "html" /\ tag \in DOMAIN HtmlForced =>
       \A p \in Range(HtmlForced[tag]) :
         Lookup(attrs, p[1]) # <<>> /\ Lookup(attrs, p[1])[1] = p
  /\ ns = "html" /\ tag = "input" => Lookup(attrs, "type") # <<>>

\* nodePolicyOk
RECURSIVE NodesPolicyOk(_, _, _, _)
NodesPolicyOk(nodes, parentNs, depth, textOnly) ==
  \A i \in DOMAIN nodes :
    LET n == nodes[i]
    IN IF n.kind = "text"
       THEN n.text # <<>> /\ CleanText(n.text) = n.text /\ Len(n.text) <= MaxTextLength
       ELSE /\ ~textOnly
            /\ depth + 1 <= MaxDepth
            /\ IF n.ns = "html" THEN parentNs = "html" ELSE n.tag = "svg" \/ parentNs = "svg"
            /\ n.tag \in DOMAIN Elements(n.ns)
            /\ AttrsCanonical(n.ns, n.tag, n.attrs)
            /\ NodesPolicyOk(n.children, n.ns, depth + 1, n.ns = "svg" /\ n.tag \in SvgTextOnly)

\* Profile.permits: treeStats are the nodes and the units of text.
Permits(tree) ==
  LET texts == {p \in Paths(tree) : At(tree, p).kind = "text"}
  IN /\ NodesPolicyOk(tree, "html", 0, FALSE)
     /\ Cardinality(Paths(tree)) <= MaxNodes
     /\ FoldSet(LAMBDA p, n : n + Len(At(tree, p).text), 0, texts) <= MaxTotalText

\* nodeRepresentationOk
RepresentationOk(tree) ==
  \A p \in Paths(tree) :
    LET n == At(tree, p)
        names == [i \in DOMAIN n.attrs |-> n.attrs[i][1]]
    IN IF n.kind = "text" THEN n.text # <<>>
       ELSE /\ Lower(n.tag) = n.tag
            /\ \A i, j \in DOMAIN names : i < j => Before(names[i], names[j])
            /\ \A i \in DOMAIN names :
                 /\ CanonicalName(n.ns, names[i]) = names[i]
                 /\ Len(n.attrs[i][2]) <= LongFactor * MaxAttrValueLength

AcceptCandidate(tree) == Permits(tree) /\ RepresentationOk(tree)
=============================================================================
