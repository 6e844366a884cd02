---------------------------- MODULE MCPolicyCore ----------------------------
\* Small documents for PolicyCore, each decided once by a healthy module; and a
\* few requests in a row to a module that may answer, refuse or trap as it
\* pleases, its startup and its reconfiguration included.  And, before any of
\* that is built, a few edits in a row of the profile its tables come from.
EXTENDS PolicyCore, PolicyProfiles

CONSTANTS MaxRequests, MaxReconfigures, MaxEdits

VARIABLES world, next, requests, reconfigures, edits
mcVars == <<coreVars, world, next, requests, reconfigures, edits, profile>>

El(ns, tag, attrs, children) ==
  [kind |-> "el", ns |-> ns, tag |-> tag, attrs |-> attrs, children |-> children, content |-> <<>>]
Attr(name, value) == [prefix |-> "", name |-> name, value |-> value]
Comment == OtherNode("comment")
Br == El("html", "br", <<>>, <<>>)

\* All the forests of n nodes: elements is a set of <<ns, tag>>.
RECURSIVE Forests(_, _, _)
Forests(n, elements, leaves) ==
  IF n = 0 THEN {<<>>}
  ELSE UNION {{<<El(e[1], e[2], <<>>, inner)>> \o rest :
                 e \in elements, inner \in Forests(k - 1, elements, leaves),
                 rest \in Forests(n - k, elements, leaves)} : k \in 1..n}
       \cup {<<leaf>> \o rest : leaf \in leaves, rest \in Forests(n - 1, elements, leaves)}

Places ==
  {<<"html", "div">>, <<"html", "a">>, <<"html", "script">>, <<"svg", "svg">>,
   <<"svg", "title">>, <<"svg", "foreignObject">>, <<"math", "mi">>}
Leaves == {TextNode(<<"x">>), TextNode(<<"~", "x", "x">>), TextNode(<<"~">>), Comment}

OfferForests(n, elements, leaves) == \E k \in 0..n : next \in Forests(k, elements, leaves) \X {0}

\* Positions and namespaces; shapes that unwrapping widens; texts at their
\* limits; templates; the clock.
OfferStructures ==
  \/ OfferForests(3, Places, Leaves)
  \/ OfferForests(4, {<<"svg", "svg">>, <<"svg", "g">>, <<"svg", "title">>, <<"html", "p">>, <<"html", "a">>},
                  {TextNode(<<"x">>)})
  \/ OfferForests(5, {<<"html", "a">>, <<"html", "div">>}, {})
  \/ OfferForests(6, {<<"html", "a">>}, {Br})
  \/ \E i, j \in 0..4 : next = <<[k \in 1..2 |-> El("html", "a", <<>>, [b \in 1..<<i, j>>[k] |-> Br])], 0>>
  \/ OfferForests(9, {<<"html", "div">>}, {})
  \/ OfferForests(4, {<<"html", "b">>, <<"html", "long">>},
                  {TextNode(t) : t \in {<<"x">>, <<"x", "^">>, <<"e'", "e'", "x">>, <<"x", "x", "x", "~">>}})
  \/ \E c, d, e \in 0..2 :
       \E children \in Forests(c, {<<"html", "div">>}, {Comment}),
          content \in Forests(d, {<<"html", "div">>}, {Comment}),
          rest \in Forests(e, {<<"html", "div">>}, {Comment}) :
         next = <<<<[El("html", "template", <<>>, children) EXCEPT !.content = content]>> \o rest, 0>>
  \/ \E k \in 0..3 : next \in Forests(k, {<<"html", "p">>}, {Comment}) \X (1..4)

\* One element with attributes, in a drawing if it is a part of one: every attribute
\* of the tables with a few values, every short value of an attribute of each kind,
\* every short list.
One(ns, tag, attrs) ==
  LET element == El(ns, tag, attrs, <<>>)
  IN next = <<<<IF ns = "svg" /\ tag # "svg" THEN El("svg", "svg", <<>>, <<element>>)
                ELSE element>>, 0>>

Samples(d) ==
  {<<" ", "0", "7", ".", "0">>, <<"zz">>}
  \cup IF d.kind = "oneOf" THEN {<<CHOOSE c \in {v[1] : v \in d.values} : TRUE, " ">>} ELSE {<<"a">>}
OfferEntries ==
  \E ns \in {"html", "svg"} : \E tag \in DOMAIN Elements(ns) :
    \E name \in DOMAIN Elements(ns)[tag] \cup DOMAIN Global(ns) :
      \E v \in Samples(Descriptor(ns, tag, name)) : One(ns, tag, <<Attr(name, v)>>)

Offer(ns, tag, name, n, alphabet) ==
  \E k \in 0..n : \E v \in [1..k -> alphabet] : One(ns, tag, <<Attr(name, v)>>)
OfferValues ==
  \/ Offer("svg", "rect", "x", 5, {"0", "1", "-", ".", " "})
  \/ Offer("svg", "rect", "width", 4, {"0", "1", "-", ".", " "})
  \/ Offer("svg", "g", "opacity", 4, {"0", "1", "-", ".", " "})
  \/ Offer("svg", "svg", "width", 4, {"1", "-", ".", "%", " "})
  \/ Offer("svg", "text", "x", 3, {"1", ",", " "})
  \/ Offer("svg", "polygon", "points", 4, {"1", "-", ".", ",", " "})
  \/ Offer("svg", "path", "d", 4, {"M", "L", "1", "-", ".", " "})
  \/ Offer("svg", "path", "d", 7, {"M", "1", "."})
  \/ Offer("svg", "g", "transform", 5, {"scale", "rotate", "(", ")", "1", "."})
  \/ Offer("svg", "g", "fill", 2, {"none", "RED", "FFF", "currentcolor", " ", "zz"})
  \/ Offer("html", "div", "title", 3, {"x", "~", "e'", "^"})
  \/ Offer("html", "div", "title", 12, {"x"})
  \/ \E i, j \in 0..11 :
       next = <<[k \in 1..2 |-> El("html", "p", <<Attr("title", [c \in 1..<<i, j>>[k] |-> "x"])>>, <<>>)], 0>>
  \/ Offer("html", "div", "data-action", 4, {"a", "1", "-", " "})
  \/ Offer("html", "div", "id", 5, {"g", "-", "1", " "})
  \/ Offer("html", "output", "for", 5, {"g", "-", "a", " "})
  \/ Offer("html", "div", "class", 4, {"card", "zz", " "})
  \/ Offer("html", "div", "lang", 6, {"a", "1", "-"})
  \/ Offer("html", "td", "colspan", 4, {"0", "1", "-", " "})
  \/ Offer("html", "ol", "start", 4, {"0", "1", "-", " "})
  \/ Offer("html", "div", "hidden", 2, {"zz", " "})
  \/ Offer("html", "div", "long", 1, {"x"})
  \/ Offer("svg", "svg", "viewBox", 4, {"1", " ", ","})
  \/ \E p, q, r, s \in {<<"0">>, <<"1">>, <<"-", "1">>, <<".", "1">>, <<".", "0", "1">>} :
       One("svg", "svg", <<Attr("viewBox", Spaced(<<p, q, r, s>>))>>)

Pairs ==
  {Attr("type", <<"zz">>), Attr("type", <<"button">>), Attr("TYPE", <<"text">>),
   Attr("autocomplete", <<"zz">>), Attr("value", <<"x">>), Attr("onclick", <<>>),
   [prefix |-> "xlink", name |-> "href", value |-> <<"x">>]}
OfferLists ==
  \E tag \in {"button", "input", "div"}, k \in 0..4 :
    \E attrs \in [1..k -> Pairs] : One("html", tag, attrs)

-----------------------------------------------------------------------------
Sample == <<El("html", "p", <<>>, <<>>)>>

MCInit ==
  /\ CoreInit /\ requests = 0 /\ reconfigures = 0 /\ edits = 0
  /\ \/ world = "document" /\ CheckerReady /\ profile = NoProfile
        /\ (OfferStructures \/ OfferEntries \/ OfferValues \/ OfferLists)
     \/ /\ world \in {"session", "profile"} /\ CheckerInit /\ next = <<<<>>, 0>>
        /\ profile = IF world = "profile" THEN ShippedProfile ELSE NoProfile

\* The one document of a healthy module, and what may be asked of a faulty one.
Offered ==
  IF world = "document"
  THEN {[id |-> 1, doc |-> next[1], ticks |-> next[2], classes |-> OwnClasses]}
  ELSE {[id |-> requests + 1, doc |-> Sample, ticks |-> 0, classes |-> c] : c \in ClassLists}

\* A healthy module neither traps nor fails.
Requests ==
  /\ world \in {"document", "session"}
  /\ requests < (IF world = "document" THEN 1 ELSE MaxRequests)
  /\ \E req \in Offered : PreprocessRequest(req, world = "document")
  /\ world = "document" => verdict'.code = ""
  /\ requests' = requests + 1
  /\ UNCHANGED <<world, next, reconfigures, edits, profile>>

StartupSays(op) ==
  {[op |-> o, id |-> 0, status |-> status, tree |-> NoTree] :
     o \in {"info", "configure"}, status \in {op, "error", "configured"}}
Starts ==
  /\ world = "session"
  /\ Startup(StartupSays("info")) \/ Dispose
  /\ UNCHANGED <<requestVars, world, next, requests, reconfigures, edits, profile>>

Reconfigures ==
  /\ world = "session" /\ reconfigures < MaxReconfigures /\ reconfigures' = reconfigures + 1
  /\ \E config \in Configs, x \in StartupSays("configured") : TryReconfigure(config, Says(x))
  /\ UNCHANGED <<requestVars, world, next, requests, edits, profile>>

-----------------------------------------------------------------------------
\* Edits of rules/policy.json, some of them legal: those of its tests, and a few
\* more that may be combined with them.
GlobalEdits ==
  {<<"sharedGlobal", "aria-level">>} \X {IntRange(2, 3), IntRange(1, 9), IntRange(1, 99), IntRange(3, 2)}
  \cup {<<"sharedGlobal", "data-secret">>, <<"sharedGlobal", "title">>, <<"htmlGlobal", "href">>,
        <<"svgGlobal", "src">>, <<"svgGlobal", "fill">>} \X {Kind("text")}
  \cup {<<"htmlGlobal", "dir">>} \X
         {OneOf({"ltr"}), OneOf({"ltr", "anything"}), OneOf({}), Fixed(<<"rtl">>), Fixed(<<" ", "rtl">>)}
  \cup {<<"svgGlobal", "stroke-width">>} \X {Kind("num"), Kind("unit"), IntRange(0, 9)}
  \cup {<<"svgGlobal", "stroke-dasharray">>} \X {NumList(n) : n \in {0, 2, 64, 65}}
ElementEdits ==
  {<<"input", "type">>} \X {OneOf({"text", "number"}), OneOf({"text", "password"}), Kind("text")}
  \cup {<<"div", "href">>, <<"div", "class">>} \X {Kind("text")}
  \cup {<<"div", "dir">>} \X {OneOf({"rtl"}), Kind("ident")}
ForcedEdits ==
  {<<"button", <<<<"type", <<"submit">>>>>>>>,
   <<"button", <<<<"type", <<"submit">>>>, <<"type", <<"button">>>>>>>>,
   <<"button", <<<<"value", <<"x">>>>, <<"type", <<"button">>>>>>>>,
   <<"input", <<<<"autocomplete", <<"on">>>>>>>>, <<"div", <<<<"href", <<"x">>>>>>>>}

Edited(field, value) == profile' = [profile EXCEPT ![field] = value]
Toggled(set, x) == IF x \in set THEN set \ {x} ELSE set \cup {x}
EditsTables ==
  \/ \E e \in GlobalEdits : Edited(e[1][1], e[1][2] :> e[2] @@ profile[e[1][1]])
  \/ \E e \in ElementEdits :
       /\ e[1][1] \in DOMAIN profile.htmlElements
       /\ Edited("htmlElements",
            [profile.htmlElements EXCEPT ![e[1][1]] = e[1][2] :> e[2] @@ @])
  \/ \E name \in {"type", "autocomplete"} :
       /\ "input" \in DOMAIN profile.htmlElements
       /\ Edited("htmlElements", [profile.htmlElements EXCEPT !["input"] = Without(@, {name})])
EditsElements ==
  \/ \E tag \in {"iframe", "a", "title"} : Edited("htmlElements", tag :> <<>> @@ profile.htmlElements)
  \/ \E tag \in {"meter", "select", "input"} : Edited("htmlElements", Without(profile.htmlElements, {tag}))
  \/ Edited("svgElements", "use" :> <<>> @@ profile.svgElements)
  \/ Edited("svgElements", Without(profile.svgElements, {"title"}))
EditsControls ==
  \/ \E e \in ForcedEdits : Edited("htmlForced", e[1] :> e[2] @@ profile.htmlForced)
  \/ \E tag \in {"button", "input", "select"} : Edited("htmlForced", Without(profile.htmlForced, {tag}))
  \/ \E tag \in {"title", "text"} : Edited("svgTextOnly", Toggled(profile.svgTextOnly, tag))
  \/ \E tag \in {"script", "div", "a"} : Edited("htmlUnwrap", Toggled(profile.htmlUnwrap, tag))
  \/ \E n \in {0, 10, 500000} : Edited("limits", [profile.limits EXCEPT !.maxNodes = n])
Edits ==
  /\ world = "profile" /\ edits < MaxEdits /\ edits' = edits + 1
  /\ EditsTables \/ EditsElements \/ EditsControls
  /\ UNCHANGED <<coreVars, world, next, requests, reconfigures>>

MCSampleValues ==
  {<<>>, <<"0">>, <<"1">>, <<"-", "1">>, <<" ", "0", "7", ".", "0">>, <<".", "5">>, <<"1", "2">>,
   <<"9", "9">>, <<"1", ",", "1", " ", "1">>, <<"1", "%">>, <<"0", " ", "0", " ", "1", " ", "1">>,
   <<"M", "1", " ", "1">>, <<"scale", "(", "1", ")">>, <<"red">>, <<"x">>, <<"a">>, <<"a", "1">>,
   <<"a", "b">>, <<"g", "-", "a">>, <<"card">>, <<"anything">>, <<"e'", "~", " ">>}
\* Half a unit in the last place of 1 and half the least double, as digits after
\* the point: .1 and .01.
MCHalfUlpOfOne == <<"1">>
MCHalfLeastDouble == <<"0", "1">>
MCSampleLists == {[i \in 1..(2 * n - 1) |-> IF i % 2 = 1 THEN "1" ELSE " "] : n \in {2, 3}}

MCNext == Requests \/ Starts \/ Reconfigures \/ Edits
MCSpec == MCInit /\ [][MCNext]_mcVars
=============================================================================
