------------------------------ MODULE PolicyCore ------------------------------
\* policy-core.js with its parts: from the parser's document to the reply of the
\* policy Worker.  PolicyDecision is the order of the stages; its constants stand
\* for Preprocess, BuildCandidate, Unsent and TreeShaped.
EXTENDS RawConversion, Normalizer, LeanAuthority, PolicyDecision, Capabilities

CONSTANT ClassLists   \* allowlists a request may carry

-----------------------------------------------------------------------------
\* isTreeShaped: elements nest no deeper than maxDepth, text one more.
TreeShaped(tree) ==
  \A p \in Paths(tree) : Len(p) <= MaxDepth + 1 /\ At(tree, p).kind \in {"el", "text"}

\* Seeded bug: siblings are not counted.
Bug_DepthOnly(i) == 1

\* The position a node of a list adds to the nodes open above the list.
CandidatePosition(i) == i

\* candidatePathNodes: a bounded walk over one child list after another; it
\* gives up, with more than the limit, at the first node past either bound.
TooMany == MaxRawPathNodes + 1
RECURSIVE PathNodesFrom(_, _, _)
PathNodesFrom(stack, nodes, peak) ==
  LET top == Last(stack)
      last == Len(top.children)
      next(i) == top.path + CandidatePosition(i)
      widest == Most({peak} \cup {next(i) : i \in 1..last})
      elements == SelectSeq([i \in 1..last |-> i], LAMBDA i : top.children[i].kind = "el")
      inner == [k \in DOMAIN elements |->
                  [children |-> top.children[elements[k]].children, path |-> next(elements[k])]]
  IN IF stack = <<>> THEN peak
     ELSE IF nodes + last > MaxRawNodes \/ widest > MaxRawPathNodes THEN TooMany
     ELSE PathNodesFrom(Front(stack) \o inner, nodes + last, widest)

CandidatePathNodes(tree) ==
  IF TreeShaped(tree) THEN PathNodesFrom(<<[children |-> tree, path |-> 0]>>, 0, 0) ELSE TooMany

\* The bounds of the input to Wasm, reapplied to the candidate.
Unsent(tree) ==
  FirstExceeded(<<<<CandidatePathNodes(tree) > MaxRawPathNodes, "candidate-path-nodes-exceeded">>,
                  <<JsonBytes(tree) > MaxCandidateBytes, "candidate-bytes-exceeded">>>>)

-----------------------------------------------------------------------------
\* What a healthy module answers about tree; and what one that is trusted with
\* nothing may, beside trapping.
Said(op, id, status, tree) == [op |-> op, id |-> id, status |-> status, tree |-> tree]
HealthyAnswers(id, tree) ==
  LET decoded == DecodedForest(tree)
  IN IF AcceptCandidate(decoded) THEN {Said("check", id, "accepted", decoded)}
     ELSE {Said("check", id, "rejected", NoTree)}
AnyAnswers(id) ==
  {Said(op, i, status, t) : op \in {"check", "configure"}, i \in {id - 1, id},
                            status \in {"accepted", "rejected", "error"},
                            t \in {NoTree, <<TextNode(<<"R">>)>>}}

\* preprocess(req)
Decides(req, healthy, converted, proposal) ==
  Decide(req, converted, proposal,
         IF healthy THEN HealthyAnswers(req.id, proposal.tree) ELSE AnyAnswers(req.id))
PreprocessRequest(req, healthy) ==
  \E converted \in {Converted(req)} : Decides(req, healthy, converted, Proposal(converted))

-----------------------------------------------------------------------------
(***************************************************************************
 Properties.
 ***************************************************************************)
Proposed == candidate.status = "proposed"

\* The iterative, bounded conversion of the parser's document loses nothing and
\* adds nothing: what it forwards is the document node for node (a template's
\* content after its children), it forwards it exactly when no limit is
\* exceeded and the clock has not run out, and it never forwards part of it.
ConversionIsExact ==
  pre # NotConverted =>
    LET raw == RawOf(request.doc)
        late == request.ticks \in 1..Cardinality(Paths(raw))
    IN IF pre.code = "" THEN pre.raw = raw /\ WithinRawLimits(raw) /\ ~late
       ELSE pre.raw = <<>> /\ (~WithinRawLimits(raw) \/ late)

\* The values of the attributes of a forest that the tables know, each with the
\* descriptor its attribute has.
KnownElements(forest) ==
  {p \in Paths(forest) : LET n == At(forest, p)
                         IN /\ n.kind = "el" /\ n.ns \in Namespaces
                            /\ Lower(n.tag) \in DOMAIN Elements(n.ns)}
DescribedValues(forest) ==
  LET of(n) == {<<Descriptor(n.ns, Lower(n.tag), CanonicalName(n.ns, a[1])), a[2]>> :
                  a \in Range(n.attrs)}
  IN {dv \in UNION {of(At(forest, p)) : p \in KnownElements(forest)} : dv[1] # NoDescriptor}

\* The one kind of value the two sides read differently: policy.js compares the
\* double, Lean the decimal.  A negative value that is -0 as a double, or one above 1
\* that is 1 as a double, is kept by JavaScript alone; a view box with a side that
\* is 0 as a double is kept by Lean alone.
RoundingDecides(d, v) ==
  LET n == LeanNumber(v)
      sides == SubSeq(SplitRuns(LeanViewBox(v), Space), 3, 4)
  IN CASE d.kind = "nonNeg" -> n # Null /\ Sign(n) # <<>> /\ ToDouble(n) = <<"0">>
       [] d.kind = "unit" -> /\ n \notin {Null, <<"0">>, <<"1">>}
                             /\ \/ Sign(n) # <<>> /\ ToDouble(n) = <<"0">>
                                \/ ToDouble(n) = <<"1">>
       [] d.kind = "viewBox" -> /\ LeanViewBox(v) # Null
                                /\ \E i \in 1..2 : ToDouble(sides[i]) = <<"0">>
       [] OTHER -> FALSE

\* The JavaScript normaliser (an explicit stack, regular expressions) and the
\* Lean reference (recursion, lists of characters) agree on every bounded tree
\* without a value that rounding decides: the same tree and diagnostics, in the same
\* order, or the same reasons.  And rounding is all they disagree about: on any
\* other value of any attribute both validators give the same, on these never.
ProposalIsReference ==
  pre.code = "" =>
    LET values == DescribedValues(pre.raw)
        rounded == {dv \in values : RoundingDecides(dv[1], dv[2])}
    IN /\ rounded = {} => candidate = LeanNormalize(pre.raw)
       /\ rounded = {dv \in values : JsValidator(dv[1], dv[2]) # LeanValidator(dv[1], dv[2])}

\* The two ways a proposal grows past a limit its document met: a forced
\* attribute comes on top of the most attributes, and a canonical value can be
\* longer than the value it was written as.
LengthLimit(d) == IF d.kind = "transform" THEN MaxAttrValueLength ELSE LongFactor * MaxAttrValueLength
Outgrows(n) ==
  n.kind = "el" /\ \/ Len(n.attrs) > MaxAttrs
                   \/ \E i \in DOMAIN n.attrs :
                        Len(n.attrs[i][2]) > LengthLimit(Descriptor(n.ns, n.tag, n.attrs[i][1]))

\* A proposal that outgrows no limit, and has no value that is in range only as a
\* double, is a fixed point of the policy: the Lean authority accepts it and
\* normalising it again changes nothing.  Lean refuses a healthy proposal for its growth
\* or for such a value, and for nothing else.
ProposalAccepted ==
  Proposed =>
    LET tree == DecodedForest(candidate.tree)
        grown == \E p \in Paths(tree) : Outgrows(At(tree, p))
        rounded == \E dv \in DescribedValues(tree) : RoundingDecides(dv[1], dv[2])
    IN /\ AcceptCandidate(tree) <=> ~grown /\ ~rounded
       /\ ~grown /\ ~rounded =>
            LeanNormalize(tree) = [status |-> "proposed", tree |-> tree, changes |-> <<>>]

\* Whatever unwrapping did to the shape of the document, what enters the Lean
\* checker, whose recursion is per sibling as well as per level, is within the
\* measured bounds of its stack and of its staging buffer; and a forwarded
\* document never meets the normaliser's own bounds on nodes and descents.
LeanInputBounded ==
  /\ verdict.call # 0 =>
       /\ PeakOpenNodes(verdict.asked) <= MaxRawPathNodes
       /\ Cardinality(Paths(verdict.asked)) <= MaxRawNodes
       /\ JsonBytes(verdict.asked) <= MaxCandidateBytes
  /\ candidate.status = "rejected" =>
       Range(candidate.reasons) \cap {"too-many-nodes", "traversal-depth"} = {}

\* An element with what the kernel allows it to have, and with the controls and
\* the contexts the kernel prescribes for it.
InKernel(n) ==
  LET table == KernelElements(n.ns)[n.tag]
      names == {a[1] : a \in Range(n.attrs)}
      controls == IF n.ns = "html" /\ n.tag \in DOMAIN KernelForced THEN KernelForced[n.tag] ELSE <<>>
      required == IF n.ns = "html" /\ n.tag \in DOMAIN KernelRequired THEN KernelRequired[n.tag] ELSE {}
      textOnly == n.ns = "svg" /\ n.tag \in KernelTextOnly
  IN /\ n.tag \in DOMAIN KernelElements(n.ns) \ Excluded(n.ns)
     /\ \A a \in Range(n.attrs) :
          LET grammar == KernelAttr(n.ns, table, a[1])
          IN grammar # NoDescriptor /\ LeanValidator(grammar, a[2]) = a[2]
     /\ names \cap ExcludedAttributes = {}
     /\ Range(controls) \subseteq Range(n.attrs) /\ required \subseteq names
     /\ textOnly => \A child \in Range(n.children) : child.kind = "text"

\* What a healthy checker accepts never leaves the capability kernel, whose
\* tables are written and reviewed apart from those both engines read: wherever a
\* document was unwrapped, rewritten or completed with forced attributes, each
\* element is in the inventory, each value canonical in the widest grammar
\* reviewed for it, each mandatory control present, each text-only context kept.
WithinKernel ==
  reply.status = "accepted" /\ reply.tree = DecodedForest(candidate.tree) =>
    \A p \in Paths(reply.tree) :
      At(reply.tree, p).kind = "el" => InKernel(At(reply.tree, p))
=============================================================================
