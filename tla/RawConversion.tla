---------------------------- MODULE RawConversion ----------------------------
\* adapters/parse5.js: the bounded, iterative walk from the parser's document to
\* the raw tree.  Attributes of a document are records with a prefix; ticks is
\* the node at which the clock is found past the deadline, 0 if it never is.
EXTENDS PolicyTrees

Qualified(a) == IF a.prefix = "" THEN a.name ELSE a.prefix \o ":" \o a.name
RawAttrs(attrs) == [i \in DOMAIN attrs |-> <<Qualified(attrs[i]), attrs[i].value>>]
RawNs(ns) == IF ns \in {"html", "svg"} THEN ns ELSE "other"

\* One level of the walk.
Level(nodes, depth, pathNodes) ==
  [nodes |-> nodes, index |-> 0, depth |-> depth, pathNodes |-> pathNodes, out |-> <<>>]

\* A walk over doc, before its first node; code is the reason of a rejection.
ConvertStart(doc) ==
  [stack |-> <<Level(doc, 0, 0)>>, raw |-> <<>>, code |-> "",
   rawNodes |-> 0, comments |-> 0, text |-> 0, bytes |-> 0]

\* Seeded bug: the first child is counted as its parent is.
Bug_PathNodesFromZero(level, position) == level.pathNodes + position - 1

\* The nodes open when the walk is at a position of a level.
PathNodes(level, position) == level.pathNodes + position

\* The level is done: its nodes become the children of the last element of the
\* level below.
ConvertPop(st) ==
  LET below == Front(st.stack)
      done == Last(st.stack).out
      parent == Last(below)
      filled == [parent EXCEPT !.out[Len(parent.out)].children = done]
  IN IF below = <<>> THEN [st EXCEPT !.stack = below, !.raw = done]
     ELSE [st EXCEPT !.stack = Append(Front(below), filled)]

\* The limits a node meets, in the order they are checked.
NodeLimits(st, level, position, ticks) ==
  <<<<ticks = st.rawNodes + 1, "preprocess-budget-exceeded">>,
    <<st.rawNodes + 1 > MaxRawNodes, "raw-nodes-exceeded">>,
    <<PathNodes(level, position) > MaxRawPathNodes, "raw-path-nodes-exceeded">>>>

TextLimits(st, value) ==
  <<<<Len(value) > MaxRawTextCodeUnits, "raw-text-too-long">>,
    <<st.text + Len(value) > MaxRawTotalTextCodeUnits, "raw-total-text-too-long">>,
    <<st.bytes + ByteLength(value) > MaxCandidateBytes, "candidate-bytes-exceeded">>>>

\* The loop over the attributes meets a name or the bytes first.
AttrLimits(attrs) ==
  LET over(i) ==
        FirstExceeded(<<<<NameUnits(attrs[i][1]) > MaxRawNameCodeUnits, "raw-name-too-long">>,
                        <<AttrBytes(SubSeq(attrs, 1, i)) > MaxRawAttrBytes,
                          "raw-attr-bytes-exceeded">>>>)
  IN [i \in DOMAIN attrs |-> <<over(i) # "", over(i)>>]

ElementLimits(st, level, n, attrs) ==
  <<<<level.depth + 1 > MaxRawDepth, "raw-depth-exceeded">>,
    <<NameUnits(n.tag) > MaxRawNameCodeUnits, "raw-name-too-long">>,
    <<st.bytes + NameUnits(n.tag) > MaxCandidateBytes, "candidate-bytes-exceeded">>,
    <<Len(attrs) > MaxRawAttrsPerElement, "raw-attrs-exceeded">>>>
  \o AttrLimits(attrs)
  \o <<<<st.bytes + NameUnits(n.tag) + AttrBytes(attrs) > MaxCandidateBytes,
         "candidate-bytes-exceeded">>>>

\* One turn of the loop of convert().
ConvertStep(st, ticks) ==
  LET level == Last(st.stack)
      position == level.index + 1
      n == level.nodes[position]
      attrs == RawAttrs(n.attrs)
      over == NodeLimits(st, level, position, ticks)
      reject(checks) == [st EXCEPT !.stack = <<>>, !.code = FirstExceeded(checks)]
      stack(node) == Append(Front(st.stack),
                            [level EXCEPT !.index = position, !.out = Append(@, node)])
      counted == [st EXCEPT !.rawNodes = @ + 1]
      textual == over \o TextLimits(st, n.text)
      elemental == over \o ElementLimits(st, level, n, attrs)
      other == Append(over, <<st.comments + 1 > MaxRawCommentNodes, "raw-comment-nodes-exceeded">>)
  IN IF level.index >= Len(level.nodes) THEN ConvertPop(st)
     ELSE IF n.kind = "text" THEN
       IF FirstExceeded(textual) # "" THEN reject(textual)
       ELSE [counted EXCEPT !.text = @ + Len(n.text), !.bytes = @ + ByteLength(n.text),
                            !.stack = stack(TextNode(n.text))]
     ELSE IF n.kind # "el" THEN
       IF FirstExceeded(other) # "" THEN reject(other)
       ELSE [counted EXCEPT !.comments = @ + 1, !.stack = stack(OtherNode(n.kind))]
     ELSE
       IF FirstExceeded(elemental) # "" THEN reject(elemental)
       ELSE [counted EXCEPT
               !.bytes = @ + NameUnits(n.tag) + AttrBytes(attrs),
               !.stack = Append(stack(Element(RawNs(n.ns), n.tag, attrs, <<>>)),
                                Level(ChildNodesOf(n), level.depth + 1,
                                      PathNodes(level, position)))]

RECURSIVE ConvertFrom(_, _)
ConvertFrom(st, ticks) ==
  IF st.stack = <<>> THEN [code |-> st.code, raw |-> st.raw]
  ELSE ConvertFrom(ConvertStep(st, ticks), ticks)

\* preprocessHtml, of what the parser made of the source.
Preprocess(doc, ticks) == ConvertFrom(ConvertStart(doc), ticks)

-----------------------------------------------------------------------------
\* What the walk must compute, said of the document as a whole.
RECURSIVE RawOf(_)
RawOf(doc) ==
  [i \in DOMAIN doc |->
     CASE doc[i].kind = "text" -> TextNode(doc[i].text)
       [] doc[i].kind = "el" -> Element(RawNs(doc[i].ns), doc[i].tag, RawAttrs(doc[i].attrs),
                                        RawOf(doc[i].children \o doc[i].content))
       [] OTHER -> OtherNode(doc[i].kind)]

\* No limit is exceeded: counts are cardinalities, of the nodes of the raw tree.
WithinRawLimits(raw) ==
  LET paths == Paths(raw)
      elements == {p \in paths : At(raw, p).kind = "el"}
      texts == {p \in paths : At(raw, p).kind = "text"}
      total(S, f(_)) == FoldSet(LAMBDA p, n : n + f(At(raw, p)), 0, S)
      attrs(p) == At(raw, p).attrs
  IN /\ Cardinality(paths) <= MaxRawNodes
     /\ PeakOpenNodes(raw) <= MaxRawPathNodes
     /\ \A p \in texts : Len(At(raw, p).text) <= MaxRawTextCodeUnits
     /\ total(texts, LAMBDA n : Len(n.text)) <= MaxRawTotalTextCodeUnits
     /\ Cardinality(paths \ (elements \cup texts)) <= MaxRawCommentNodes
     /\ \A p \in elements :
          /\ Len(p) <= MaxRawDepth
          /\ NameUnits(At(raw, p).tag) <= MaxRawNameCodeUnits
          /\ Len(attrs(p)) <= MaxRawAttrsPerElement
          /\ \A i \in DOMAIN attrs(p) : NameUnits(attrs(p)[i][1]) <= MaxRawNameCodeUnits
          /\ AttrBytes(attrs(p)) <= MaxRawAttrBytes
     /\ total(texts, LAMBDA n : ByteLength(n.text))
          + total(elements, LAMBDA n : NameUnits(n.tag) + AttrBytes(n.attrs))
          <= MaxCandidateBytes
=============================================================================
