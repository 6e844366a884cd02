----------------------------- MODULE PolicyTrees -----------------------------
\* Documents, raw trees and candidate trees are forests: sequences of nodes.
\* An element of a document has a content besides its children (template); the
\* limits are those of policy-data.js and policy-protocol.js.
EXTENDS PolicyTables, PolicyValues

CONSTANTS
  MaxNodes, MaxDepth, MaxTextLength, MaxTotalText, MaxAttrs, MaxTraversalDepth,
  MaxRawNodes, MaxRawPathNodes, MaxRawDepth, MaxRawCommentNodes,
  MaxRawTextCodeUnits, MaxRawTotalTextCodeUnits, MaxRawNameCodeUnits,
  MaxRawAttrsPerElement, MaxRawAttrBytes, MaxCandidateBytes

\* What the code says of its own limits: the normaliser's bound on nodes cannot
\* be reached by a bounded raw tree, nor can its bound on descents.
ASSUME LimitsAssumption ==
  /\ MaxRawNodes <= MaxNodes
  /\ MaxRawDepth < MaxTraversalDepth
  /\ MaxDepth <= MaxRawDepth
  /\ MaxRawPathNodes <= MaxRawNodes

TextNode(s) == [kind |-> "text", text |-> s]
OtherNode(kind) == [kind |-> kind]
Element(ns, tag, attrs, children) ==
  [kind |-> "el", ns |-> ns, tag |-> tag, attrs |-> attrs, children |-> children]

\* childNodesOf: a template's content follows its children.
ChildNodesOf(n) == IF "content" \in DOMAIN n THEN n.children \o n.content ELSE n.children
Kids(n) == IF n.kind = "el" THEN ChildNodesOf(n) ELSE <<>>

\* A node is found by the positions on the way to it, counted from one.
RECURSIVE Paths(_)
Paths(forest) ==
  UNION {{<<i>>} \cup {<<i>> \o p : p \in Paths(Kids(forest[i]))} : i \in DOMAIN forest}

RECURSIVE At(_, _)
At(forest, path) ==
  IF Len(path) = 1 THEN forest[path[1]] ELSE At(Kids(forest[path[1]]), Tail(path))

Sum(numbers) == FoldLeft(+, 0, numbers)

\* The nodes open in a depth-first walk that reaches path: the ancestors, the
\* node, and the earlier siblings of each.
OpenNodes(path) == Sum(path)
Most(numbers) == IF numbers = {} THEN 0 ELSE Max(numbers)
PeakOpenNodes(forest) == Most({OpenNodes(p) : p \in Paths(forest)})

\* utf8ByteLength, with one character of two bytes; a name has one unit, but
\* for one that is too long.
CharBytes(c) == IF c = "e'" THEN 2 ELSE IF c = "^" THEN 3 ELSE 1
ByteLength(s) == Sum([i \in DOMAIN s |-> CharBytes(s[i])])
NameUnits(n) == IF n = "long" THEN MaxRawNameCodeUnits + 1 ELSE 1

AttrBytes(attrs) ==
  Sum([i \in DOMAIN attrs |-> NameUnits(attrs[i][1]) + ByteLength(attrs[i][2])])

\* JSON.stringify: two units of punctuation a node and one an attribute.
RECURSIVE JsonBytes(_)
JsonBytes(forest) ==
  Sum([i \in DOMAIN forest |->
         IF forest[i].kind = "text" THEN 2 + ByteLength(forest[i].text)
         ELSE 3 + AttrBytes(forest[i].attrs) + Len(forest[i].attrs)
                + JsonBytes(forest[i].children)])

\* What a JSON round trip makes of a string: a lone surrogate is replaced.
Decoded(s) == [i \in DOMAIN s |-> IF s[i] = "^" THEN "R" ELSE s[i]]
RECURSIVE DecodedForest(_)
DecodedForest(forest) ==
  [i \in DOMAIN forest |->
     IF forest[i].kind = "text" THEN [forest[i] EXCEPT !.text = Decoded(@)]
     ELSE [forest[i] EXCEPT
             !.attrs = [k \in DOMAIN @ |-> <<@[k][1], Decoded(@[k][2])>>],
             !.children = DecodedForest(@)]]

\* The first of a sequence of <<exceeded, code>> pairs that is exceeded, or "".
FirstExceeded(checks) ==
  LET exceeded == SelectSeq(checks, LAMBDA c : c[1])
  IN IF exceeded = <<>> THEN "" ELSE exceeded[1][2]

\* A diagnostic of the normaliser.
Change(kind, subject, path, why) ==
  [kind |-> kind, subject |-> subject, path |-> path, why |-> why]
=============================================================================
