---------------------------- MODULE PolicyProfiles ----------------------------
\* rules/policy.json while it is being edited, and the two gates an edit must
\* pass before tables are generated from it and shipped: the generator,
\* scripts/gen-policy.mjs (Js...), and lean/Guard/Policy (Lean..., Cap...).  Rule
\* ids and the tables that only label removals are left out.
EXTENDS Capabilities, PolicyValues

CONSTANTS
  NoProfile,     \* no profile is being edited
  SampleValues,  \* raw values tried against any grammar
  SampleLists    \* and against those of lists of numbers

VARIABLE profile

\* The shipped rules/policy.json: what is global to a namespace beside what both share.
Without(table, names) == [n \in DOMAIN table \ names |-> table[n]]
ShippedLimits ==
  [maxNodes |-> 5000, maxDepth |-> 32, maxTextLength |-> 20000, maxTotalText |-> 200000,
   maxAttrs |-> 24, maxAttrValueLength |-> 2000, maxPathNumbers |-> 4000,
   maxPointsNumbers |-> 2000, maxNumberMagnitude |-> 1000000, maxTraversalDepth |-> 256]
ShippedProfile ==
  [limits |-> ShippedLimits, sharedGlobal |-> SharedGlobal,
   htmlGlobal |-> Without(HtmlGlobal, DOMAIN SharedGlobal),
   svgGlobal |-> Without(SvgGlobal, DOMAIN SharedGlobal),
   htmlElements |-> HtmlElements, svgElements |-> SvgElements,
   htmlForced |-> HtmlForced, svgTextOnly |-> SvgTextOnly, htmlUnwrap |-> HtmlUnwrap]

\* The tables generated from a profile: what is shared is in both namespaces.
Generated(p) ==
  [p EXCEPT !.htmlGlobal = @ @@ p.sharedGlobal, !.svgGlobal = @ @@ p.sharedGlobal]

GlobalOf(p, ns) == IF ns = "html" THEN p.htmlGlobal ELSE p.svgGlobal
ElementsOf(p, ns) == IF ns = "html" THEN p.htmlElements ELSE p.svgElements

\* Profile.attrFor: an element's own entry, or else the namespace's.
ProfileAttr(p, ns, table, name) == OrElse(table, GlobalOf(p, ns), name)

\* The values a list of pairs gives to a name.
ValuesOf(forced, tag, name) ==
  IF tag \notin DOMAIN forced THEN <<>> ELSE SelectSeq(forced[tag], LAMBDA pair : pair[1] = name)

-----------------------------------------------------------------------------
(***************************************************************************
 scripts/gen-policy.mjs: the schema, and containment in the kernel.
 ***************************************************************************)
\* Seeded bug: an enumeration restricts one it shares a word with.
Bug_AnyWord(sub, words) == sub.kind = "oneOf" /\ sub.values \cap words # {}

\* The least an enumeration can be restricted to is one of its words.
RestrictsWords(sub, words) ==
  \/ sub.kind = "oneOf" /\ sub.values # {} /\ sub.values \subseteq words
  \/ sub.kind = "fixed" /\ sub.value \in words /\ sub.value = Trim(sub.value)
JsRestricts(sub, sup) ==
  CASE sup.kind = "oneOf" -> RestrictsWords(sub, sup.values)
    [] sup.kind = "fixed" -> sub.kind = "fixed" /\ sub.value = sup.value
    [] sup.kind = "int" ->
         sub.kind = "int" /\ sup.lo <= sub.lo /\ sub.lo <= sub.hi /\ sub.hi <= sup.hi
    [] sup.kind = "numList" -> sub.kind = "numList" /\ sub.max \in 1..sup.max
    [] OTHER -> sub.kind = sup.kind

\* makeDescriptor, and the names a table may have: no prefix, no handler.
DescriptorOk(d) ==
  CASE d.kind = "oneOf" -> d.values # {}
    [] d.kind = "numList" -> d.max > 0
    [] d.kind = "int" -> d.lo <= d.hi
    [] OTHER -> TRUE
AttrsOk(table) == \A n \in DOMAIN table : n \notin NeverAllowed /\ DescriptorOk(table[n])

\* validateCapabilities: the kernel contradicts nothing it says itself, and each
\* control it prescribes is one its own grammars can express.
Expresses(d, value) ==
  CASE d.kind = "fixed" -> d.value = value
    [] d.kind = "oneOf" -> value \in d.values
    [] OTHER -> FALSE
CapabilitiesValid ==
  /\ \A k \in DOMAIN Ceilings : Ceilings[k] > 0
  /\ AttrsOk(KernelShared)
  /\ \A ns \in Namespaces :
       /\ AttrsOk(KernelGlobal(ns)) /\ DOMAIN KernelShared \cap DOMAIN KernelGlobal(ns) = {}
       /\ \A tag \in DOMAIN KernelElements(ns) :
            tag \notin Excluded(ns) /\ AttrsOk(KernelElements(ns)[tag])
  /\ DOMAIN KernelForced \cup DOMAIN KernelRequired \subseteq DOMAIN KernelHtmlElements
  /\ \A tag \in DOMAIN KernelForced : \A pair \in Range(KernelForced[tag]) :
       Expresses(KernelAttr("html", KernelHtmlElements[tag], pair[1]), pair[2])
  /\ \A tag \in DOMAIN KernelRequired : \A name \in KernelRequired[tag] :
       KernelAttr("html", KernelHtmlElements[tag], name) # NoDescriptor
  /\ KernelTextOnly \subseteq DOMAIN KernelSvgElements
  /\ KernelUnwrappable \cap DOMAIN KernelHtmlElements = {}
  /\ \A name \in ExcludedAttributes : CapAttrAbsent(name)

ASSUME KernelSchema == CapabilitiesValid

\* validatePolicy, but for containment.
SchemaOk(p) ==
  /\ \A k \in DOMAIN p.limits : p.limits[k] > 0
  /\ AttrsOk(p.sharedGlobal) /\ AttrsOk(p.htmlGlobal) /\ AttrsOk(p.svgGlobal)
  /\ DOMAIN p.sharedGlobal \cap (DOMAIN p.htmlGlobal \cup DOMAIN p.svgGlobal) = {}
  /\ \A ns \in Namespaces : \A tag \in DOMAIN ElementsOf(p, ns) : AttrsOk(ElementsOf(p, ns)[tag])
  /\ DOMAIN p.htmlForced \subseteq DOMAIN p.htmlElements
  /\ \A tag \in DOMAIN p.htmlForced : \A pair \in Range(p.htmlForced[tag]) :
       pair[1] \in DOMAIN p.htmlElements[tag] \cup DOMAIN p.htmlGlobal \cup DOMAIN p.sharedGlobal
  /\ p.svgTextOnly \subseteq DOMAIN p.svgElements
  /\ p.htmlUnwrap \cap DOMAIN p.htmlElements = {}

\* checkTable: an inventory is of the elements of a namespace, or shared.
InventoryFor(ns, table, name) ==
  IF ns = "shared" THEN OrElse(KernelShared, <<>>, name) ELSE KernelAttr(ns, table, name)
TableContained(table, ns, kernelTable) ==
  /\ DOMAIN table \cap ExcludedAttributes = {}
  /\ \A name \in DOMAIN table :
       LET sup == InventoryFor(ns, kernelTable, name)
       IN sup # NoDescriptor /\ JsRestricts(table[name], sup)

\* The value a forced name has: the last of its pairs, as in a Map.
ForcedInMap(forced, tag, name) ==
  LET values == ValuesOf(forced, tag, name)
  IN IF values = <<>> THEN Null ELSE Last(values)[2]

\* The controls that the elements p keeps must keep.
JsControlsKept(p) ==
  /\ \A tag \in DOMAIN KernelForced \cap DOMAIN p.htmlElements :
       \A pair \in Range(KernelForced[tag]) : ForcedInMap(p.htmlForced, tag, pair[1]) = pair[2]
  /\ \A tag \in DOMAIN KernelRequired \cap DOMAIN p.htmlElements :
       KernelRequired[tag] \subseteq
         DOMAIN p.htmlElements[tag] \cup DOMAIN p.htmlGlobal \cup DOMAIN p.sharedGlobal
  /\ KernelTextOnly \cap DOMAIN p.svgElements \subseteq p.svgTextOnly

\* validateProfileCapabilities
Contained(p) ==
  /\ \A k \in DOMAIN p.limits : p.limits[k] <= Ceilings[k]
  /\ TableContained(p.sharedGlobal, "shared", <<>>)
  /\ TableContained(p.htmlGlobal, "html", <<>>)
  /\ TableContained(p.svgGlobal, "svg", <<>>)
  /\ \A ns \in Namespaces : \A tag \in DOMAIN ElementsOf(p, ns) :
       /\ tag \in DOMAIN KernelElements(ns) \ Excluded(ns)
       /\ TableContained(ElementsOf(p, ns)[tag], ns, KernelElements(ns)[tag])
  /\ JsControlsKept(p)
  /\ p.htmlUnwrap \subseteq KernelUnwrappable

Generates(p) == SchemaOk(p) /\ Contained(p)

-----------------------------------------------------------------------------
(***************************************************************************
 lean/Guard/Policy/Profile.lean and Cap.lean, over the generated tables.
 ***************************************************************************)
LeanRestricts(sub, sup) ==
  CASE sub.kind = "oneOf" /\ sup.kind = "oneOf" ->
         sub.values # {} /\ \A w \in sub.values : w \in sup.values
    [] sub.kind = "fixed" /\ sup.kind = "oneOf" ->
         sub.value \in sup.values /\ Trim(sub.value) = sub.value
    [] sub.kind = "int" /\ sup.kind = "int" ->
         sup.lo <= sub.lo /\ sub.lo <= sub.hi /\ sub.hi <= sup.hi
    [] sub.kind = "numList" /\ sup.kind = "numList" -> 0 < sub.max /\ sub.max <= sup.max
    [] OTHER -> sub = sup

\* Every name an element resolves, its own or the namespace's, is in the
\* inventory of its element, with a grammar as wide.
CapTableValid(p, ns, table, kernelTable) ==
  \A name \in DOMAIN table \cup DOMAIN GlobalOf(p, ns) :
    LET grammar == KernelAttr(ns, kernelTable, name)
    IN grammar # NoDescriptor /\ LeanRestricts(ProfileAttr(p, ns, table, name), grammar)
CapElementsValid(p, ns) ==
  \A tag \in DOMAIN ElementsOf(p, ns) :
    /\ tag \in DOMAIN KernelElements(ns)
    /\ CapTableValid(p, ns, ElementsOf(p, ns)[tag], KernelElements(ns)[tag])

CapGlobalValid(ns, table) ==
  \A name \in DOMAIN table :
    LET grammar == KernelGlobalOrShared(ns, name)
    IN grammar # NoDescriptor /\ LeanRestricts(table[name], grammar)

\* List.lookup takes the first pair of a name, as the normaliser does.
CapForcedKept(p) ==
  \A tag \in DOMAIN KernelForced \cap DOMAIN p.htmlElements :
    \A pair \in Range(KernelForced[tag]) :
      LET values == ValuesOf(p.htmlForced, tag, pair[1])
      IN values # <<>> /\ Head(values)[2] = pair[2]
CapRequiredKept(p) ==
  \A tag \in DOMAIN KernelRequired \cap DOMAIN p.htmlElements :
    \A name \in KernelRequired[tag] :
      ProfileAttr(p, "html", p.htmlElements[tag], name) # NoDescriptor
CapTextOnlyKept(p) ==
  \A tag \in KernelTextOnly : tag \in DOMAIN p.svgElements => tag \in p.svgTextOnly
CapUnwrapClosed(p) == \A tag \in p.htmlUnwrap : tag \in KernelUnwrappable
WithinCeilings(limits) == \A k \in DOMAIN Ceilings : limits[k] <= Ceilings[k]

ProfileValid(p) ==
  /\ \A ns \in Namespaces : CapGlobalValid(ns, GlobalOf(p, ns)) /\ CapElementsValid(p, ns)
  /\ CapForcedKept(p) /\ CapRequiredKept(p) /\ CapTextOnlyKept(p)
  /\ CapUnwrapClosed(p) /\ WithinCeilings(p.limits)

-----------------------------------------------------------------------------
(***************************************************************************
 Properties.
 ***************************************************************************)
ForcesOnce(p) ==
  \A tag \in DOMAIN p.htmlForced : \A i, j \in DOMAIN p.htmlForced[tag] :
    p.htmlForced[tag][i][1] = p.htmlForced[tag][j][1] => i = j

\* The grammars the elements of p resolve, each with the kernel's for it.
Grammars(p) ==
  LET resolved(ns, tag) ==
        {<<ProfileAttr(p, ns, ElementsOf(p, ns)[tag], name),
           KernelAttr(ns, KernelElements(ns)[tag], name)>> :
           name \in DOMAIN ElementsOf(p, ns)[tag] \cup DOMAIN GlobalOf(p, ns)}
  IN UNION UNION {{resolved(ns, tag) : tag \in DOMAIN ElementsOf(p, ns)} : ns \in Namespaces}

\* Raw values to try d with: the words it lists, and those any grammar is tried with.
ValuesFor(d) ==
  SampleValues \cup (CASE d.kind = "oneOf" -> d.values \cup {<<" ">> \o w : w \in d.values}
                       [] d.kind = "fixed" -> {d.value}
                       [] d.kind = "numList" -> SampleLists
                       [] OTHER -> {})

\* Every canonical value under the first of two grammars is one under the second.
NoWider(narrow, wide) ==
  \A v \in ValuesFor(narrow) :
    LET canonical == LeanValidator(narrow, v)
    IN canonical # Null => LeanValidator(wide, canonical) = canonical

\* However rules/policy.json is edited, the two gates cannot be passed apart: a
\* profile the generator emits tables for is one Lean certifies (unless it forces
\* a control twice, where the two disagree on which counts), and one that Lean
\* certifies lets no attribute of any element it permits have a value outside the
\* kernel's grammar for it, whichever table the attribute is resolved from.
GatesAreSound ==
  profile # NoProfile =>
    LET certified == ProfileValid(Generated(profile))
    IN /\ Generates(profile) /\ ForcesOnce(profile) => certified
       /\ certified => \A g \in Grammars(Generated(profile)) : NoWider(g[1], g[2])
=============================================================================
