----------------------------- MODULE Capabilities -----------------------------
\* The reviewed capability kernel: the only elements and attributes any output
\* policy may permit, the widest grammar of each attribute, the controls that
\* must stay in place, and what must never appear.  Descriptors and keywords are
\* those of PolicyTables.
EXTENDS PolicyTables

\* The ceilings of the structural limits.
Ceilings ==
  [maxNodes |-> 5000, maxDepth |-> 32, maxTextLength |-> 20000, maxTotalText |-> 200000,
   maxAttrs |-> 24, maxAttrValueLength |-> 2000, maxPathNumbers |-> 4000,
   maxPointsNumbers |-> 2000, maxNumberMagnitude |-> 1000000, maxTraversalDepth |-> 256]

KernelShared ==
  Each({"data-value", "data-key", "aria-label", "aria-valuetext", "aria-roledescription"},
       Kind("text"))
  @@ Each({"aria-labelledby", "aria-describedby", "aria-controls"}, Kind("idRefs"))
  @@ Each({"aria-valuenow", "aria-valuemin", "aria-valuemax"}, Kind("num"))
  @@ "class" :> Kind("cls") @@ "id" :> Kind("id") @@ "data-action" :> Kind("ident")
  @@ "data-hover" :> Flag @@ "aria-level" :> IntRange(1, 9)
  @@ Each({"aria-hidden", "aria-expanded", "aria-selected", "aria-disabled"},
          OneOf({"true", "false"}))
  @@ Each({"aria-pressed", "aria-checked"}, OneOf({"true", "false", "mixed"}))
  @@ "aria-current" :> OneOf({"true", "false", "page", "step", "location", "date", "time"})
  @@ "aria-live" :> OneOf({"off", "polite"})
  @@ "aria-sort" :> OneOf({"ascending", "descending", "none", "other"})
  @@ "aria-orientation" :> OneOf({"horizontal", "vertical"})
  @@ "tabindex" :> OneOf({"0", "-1"})
  @@ "role" :> OneOf({"img", "figure", "group", "list", "listitem", "table", "row", "cell",
       "columnheader", "rowheader", "tablist", "tab", "tabpanel", "button", "presentation",
       "none", "status", "region", "heading", "note", "switch", "radiogroup", "toolbar",
       "separator", "graphics-document", "graphics-object", "graphics-symbol"})

KernelHtml ==
  "title" :> Kind("text") @@ "lang" :> Kind("lang") @@ "hidden" :> Flag
  @@ "dir" :> OneOf({"ltr", "rtl", "auto"})

KernelSvg ==
  "transform" :> Kind("transform") @@ Each({"fill", "stroke"}, Kind("color"))
  @@ Each({"fill-opacity", "stroke-opacity", "opacity"}, Kind("unit"))
  @@ Each({"stroke-width", "font-size"}, Kind("nonNeg"))
  @@ "stroke-dasharray" :> NumList(64)
  @@ "stroke-linecap" :> OneOf({"butt", "round", "square"})
  @@ "stroke-linejoin" :> OneOf({"miter", "round", "bevel"})
  @@ "fill-rule" :> OneOf({"nonzero", "evenodd"})
  @@ "pointer-events" :> OneOf({"none", "all", "visiblePainted"})
  @@ "font-family" :> OneOf({"sans-serif", "serif", "monospace"})
  @@ "font-weight" :> OneOf({"normal", "bold", "lighter", "bolder", "100", "200", "300",
                             "400", "500", "600", "700", "800", "900"})
  @@ "text-anchor" :> OneOf({"start", "middle", "end"})
  @@ "dominant-baseline" :> OneOf({"auto", "middle", "central", "hanging", "alphabetic"})

\* The grammars of whole numbers that count something.
Count == IntRange(1, 1000)
TextSize == IntRange(0, 1000000)
Ordinal == IntRange(-999999, 999999)

KernelText ==
  Bare({"div", "span", "section", "article", "header", "footer", "main", "nav", "aside",
        "p", "br", "hr", "pre", "code", "blockquote", "figure", "figcaption", "small",
        "strong", "em", "b", "i", "u", "s", "sub", "sup", "mark", "kbd", "abbr", "h1", "h2",
        "h3", "h4", "h5", "h6", "ul", "dl", "dt", "dd", "table", "thead", "tbody", "tfoot",
        "tr", "caption", "colgroup", "details", "summary", "fieldset", "legend"})
  @@ "time" :> ("datetime" :> Kind("text"))
  @@ "ol" :> ("start" :> Ordinal @@ "reversed" :> Flag
              @@ "type" :> OneOf({"1", "a", "A", "i", "I"}))
  @@ "li" :> ("value" :> Ordinal)
  @@ "th" :> (Each({"colspan", "rowspan"}, Count) @@ "headers" :> Kind("idRefs")
              @@ "scope" :> OneOf({"row", "col", "rowgroup", "colgroup"}))
  @@ "td" :> (Each({"colspan", "rowspan"}, Count) @@ "headers" :> Kind("idRefs"))
  @@ "col" :> ("span" :> Count)
  @@ "label" :> ("for" :> Kind("id")) @@ "output" :> ("for" :> Kind("idRefs"))

KernelInputs ==
  "button" :> ("type" :> Fixed(<<"button">>) @@ "disabled" :> Flag @@ "value" :> Kind("text"))
  @@ "input" :>
    ("type" :> OneOf({"text", "number", "range", "checkbox", "radio", "search"})
     @@ "inputmode" :> OneOf({"text", "decimal", "numeric", "search"})
     @@ "autocomplete" :> Fixed(<<"off">>)
     @@ Each({"checked", "disabled", "readonly"}, Flag)
     @@ Each({"value", "placeholder"}, Kind("text")) @@ Each({"min", "max"}, Kind("num"))
     @@ "step" :> Kind("nonNeg") @@ "size" :> Count
     @@ Each({"minlength", "maxlength"}, TextSize))

KernelControls ==
  "select" :> (Each({"disabled", "multiple"}, Flag) @@ "size" :> Count
                  @@ "autocomplete" :> Fixed(<<"off">>))
  @@ "option" :> (Each({"selected", "disabled"}, Flag) @@ Each({"value", "label"}, Kind("text")))
  @@ "optgroup" :> ("label" :> Kind("text") @@ "disabled" :> Flag)
  @@ "textarea" :> (Each({"rows", "cols"}, Count) @@ "placeholder" :> Kind("text")
                    @@ Each({"disabled", "readonly"}, Flag) @@ "maxlength" :> TextSize
                    @@ "autocomplete" :> Fixed(<<"off">>))
  @@ "progress" :> Each({"value", "max"}, Kind("nonNeg"))
  @@ "meter" :> Each({"value", "min", "max", "low", "high", "optimum"}, Kind("num"))

KernelHtmlElements == KernelText @@ KernelInputs @@ KernelControls

KernelSvgElements ==
  Bare({"g", "title", "desc"})
  @@ "svg" :>
       ("viewBox" :> Kind("viewBox") @@ Each({"width", "height"}, Kind("lenPct"))
        @@ "preserveAspectRatio" :>
             OneOf({"none", "xMidYMid meet", "xMidYMid slice", "xMinYMin meet",
                    "xMinYMin slice", "xMaxYMax meet", "xMaxYMax slice"}))
  @@ "rect" :> (Each({"x", "y"}, Kind("num"))
                @@ Each({"width", "height", "rx", "ry"}, Kind("nonNeg")))
  @@ "circle" :> (Each({"cx", "cy"}, Kind("num")) @@ "r" :> Kind("nonNeg"))
  @@ "ellipse" :> (Each({"cx", "cy"}, Kind("num")) @@ Each({"rx", "ry"}, Kind("nonNeg")))
  @@ "line" :> Each({"x1", "y1", "x2", "y2"}, Kind("num"))
  @@ Each({"polyline", "polygon"}, "points" :> NumList(2000))
  @@ "path" :> ("d" :> Kind("path"))
  @@ "text" :> (Each({"x", "y", "dx", "dy", "rotate"}, NumList(1))
                @@ "textLength" :> Kind("nonNeg"))
  @@ "tspan" :> Each({"x", "y", "dx", "dy"}, NumList(1))

\* Mandatory controls: attributes a kept element must carry with this value,
\* attributes it must be able to carry, and contexts that hold text alone.
KernelForced ==
  "button" :> <<<<"type", <<"button">>>>>>
  @@ Each({"input", "select", "textarea"}, <<<<"autocomplete", <<"off">>>>>>)
KernelRequired == "input" :> {"type"}
KernelTextOnly == {"title", "desc"}

KernelUnwrappable ==
  {"a", "form", "font", "center", "big", "tt", "strike", "address", "hgroup", "ins", "del",
   "q", "cite", "dfn", "var", "samp", "bdi", "bdo", "wbr", "data", "html", "head", "body"}

ExcludedHtml ==
  {"script", "style", "iframe", "frame", "frameset", "object", "embed", "applet", "portal",
   "link", "meta", "base", "img", "picture", "source", "track", "video", "audio", "canvas",
   "map", "area", "marquee", "dialog", "slot", "noscript", "xmp", "noembed", "noframes",
   "plaintext", "title", "template", "a", "form", "math", "svg"}

ExcludedSvg ==
  {"script", "style", "image", "use", "feimage", "textpath", "pattern", "filter", "mask",
   "marker", "clippath", "lineargradient", "radialgradient", "a", "foreignobject", "animate",
   "set", "animatetransform", "animatemotion", "discard", "switch", "view", "cursor",
   "font-face", "altglyph", "handler", "listener", "html", "iframe"}

ExcludedAttributes ==
  {"src", "srcset", "srcdoc", "href", "xlink:href", "poster", "data", "code", "codebase",
   "background", "ping", "formaction", "action", "content", "http-equiv", "longdesc", "cite",
   "manifest", "usemap", "rel", "target", "download", "integrity", "crossorigin",
   "referrerpolicy", "sandbox", "allow", "loading", "media", "sizes", "hreflang", "method",
   "enctype", "accept", "accept-charset", "formmethod", "formtarget", "style", "name",
   "nonce", "is", "slot", "dirname", "xmlns", "xmlns:xlink", "__proto__", "constructor",
   "prototype", "autofocus", "accesskey", "contenteditable", "draggable", "spellcheck",
   "inert", "popover", "popovertarget", "onclick", "onerror", "onload", "onfocus", "onbegin",
   "ontoggle", "onmouseover", "onanimationend", "attributename", "begin", "dur", "values",
   "keytimes", "repeatcount", "filter", "mask", "clip-path", "marker-start", "marker-mid",
   "marker-end", "requiredextensions", "systemlanguage", "externalresourcesrequired"}

-----------------------------------------------------------------------------
\* Capabilities.globalTable, elements, excludedElements and globalOrShared.
Namespaces == {"html", "svg"}
KernelGlobal(ns) == IF ns = "html" THEN KernelHtml ELSE KernelSvg
KernelElements(ns) == IF ns = "html" THEN KernelHtmlElements ELSE KernelSvgElements
Excluded(ns) == IF ns = "html" THEN ExcludedHtml ELSE ExcludedSvg

\* The entry of name in the first of two tables that has one.
OrElse(first, second, name) ==
  IF name \in DOMAIN first THEN first[name]
  ELSE IF name \in DOMAIN second THEN second[name] ELSE NoDescriptor

KernelGlobalOrShared(ns, name) == OrElse(KernelGlobal(ns), KernelShared, name)

\* attrFor: the widest grammar of an attribute of an element of this table.
KernelAttr(ns, table, name) ==
  IF name \in DOMAIN table THEN table[name] ELSE KernelGlobalOrShared(ns, name)

\* capsConsistent: nothing excluded is in the inventory, nothing that is
\* unwrapped is permitted, and no element has a grammar of its own for an
\* attribute all elements may have.
CapAttrAbsent(name) ==
  /\ name \notin DOMAIN KernelShared
  /\ \A ns \in Namespaces :
       /\ name \notin DOMAIN KernelGlobal(ns)
       /\ \A tag \in DOMAIN KernelElements(ns) : name \notin DOMAIN KernelElements(ns)[tag]
CapNoShadow ==
  \A ns \in Namespaces : \A tag \in DOMAIN KernelElements(ns) :
    DOMAIN KernelElements(ns)[tag] \cap (DOMAIN KernelGlobal(ns) \cup DOMAIN KernelShared) = {}
CapsConsistent ==
  /\ \A name \in ExcludedAttributes : CapAttrAbsent(name)
  /\ \A ns \in Namespaces : Excluded(ns) \cap DOMAIN KernelElements(ns) = {}
  /\ KernelUnwrappable \cap DOMAIN KernelElements("html") = {}
  /\ CapNoShadow

ASSUME KernelConsistent == CapsConsistent
=============================================================================
