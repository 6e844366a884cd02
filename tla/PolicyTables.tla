---------------------------- MODULE PolicyTables ----------------------------
\* The generated tables of the output policy: which elements and attributes may
\* appear, and the validator of each attribute.  A table maps attribute names
\* to descriptors; a keyword of a value is one character.  The rule ids that
\* the tables give to diagnostics are left out.
EXTENDS Integers, Sequences, FiniteSetsExt, TLC

Kind(k) == [kind |-> k]
IntRange(lo, hi) == [kind |-> "int", lo |-> lo, hi |-> hi]
NumList(max) == [kind |-> "numList", max |-> max]
OneOf(words) == [kind |-> "oneOf", values |-> {<<w>> : w \in words}]
Fixed(value) == [kind |-> "fixed", value |-> value]

Each(names, descriptor) == [n \in names |-> descriptor]
Flag == Fixed(<<>>)

SharedGlobal ==
  "class" :> Kind("cls") @@ "id" :> Kind("id")
  @@ "role" :> OneOf({"img", "figure", "group", "list", "listitem", "table", "row",
       "cell", "columnheader", "rowheader", "tablist", "tab", "tabpanel", "button",
       "presentation", "none", "status", "region", "heading", "note", "switch",
       "radiogroup", "toolbar", "separator", "graphics-document", "graphics-object",
       "graphics-symbol"})
  @@ "tabindex" :> OneOf({"0", "-1"})
  @@ "data-action" :> Kind("ident") @@ "data-hover" :> Flag
  @@ Each({"data-value", "data-key", "aria-label", "aria-valuetext",
           "aria-roledescription"}, Kind("text"))
  @@ Each({"aria-labelledby", "aria-describedby", "aria-controls"}, Kind("idRefs"))
  @@ Each({"aria-hidden", "aria-expanded", "aria-selected", "aria-disabled"},
          OneOf({"true", "false"}))
  @@ Each({"aria-pressed", "aria-checked"}, OneOf({"true", "false", "mixed"}))
  @@ "aria-current" :> OneOf({"true", "false", "page", "step", "location", "date", "time"})
  @@ "aria-live" :> OneOf({"off", "polite"})
  @@ "aria-sort" :> OneOf({"ascending", "descending", "none", "other"})
  @@ Each({"aria-valuenow", "aria-valuemin", "aria-valuemax"}, Kind("num"))
  @@ "aria-level" :> IntRange(1, 6)
  @@ "aria-orientation" :> OneOf({"horizontal", "vertical"})

HtmlGlobal ==
  SharedGlobal @@ "title" :> Kind("text") @@ "lang" :> Kind("lang")
  @@ "dir" :> OneOf({"ltr", "rtl", "auto"}) @@ "hidden" :> Flag

SvgGlobal ==
  SharedGlobal @@ "transform" :> Kind("transform")
  @@ Each({"fill", "stroke"}, Kind("color"))
  @@ Each({"fill-opacity", "stroke-opacity", "opacity"}, Kind("unit"))
  @@ Each({"stroke-width", "font-size"}, Kind("nonNeg"))
  @@ "stroke-linecap" :> OneOf({"butt", "round", "square"})
  @@ "stroke-linejoin" :> OneOf({"miter", "round", "bevel"})
  @@ "stroke-dasharray" :> NumList(16)
  @@ "fill-rule" :> OneOf({"nonzero", "evenodd"})
  @@ "pointer-events" :> OneOf({"none", "all", "visiblePainted"})
  @@ "font-family" :> OneOf({"sans-serif", "serif", "monospace"})
  @@ "font-weight" :> OneOf({"normal", "bold", "400", "600", "700"})
  @@ "text-anchor" :> OneOf({"start", "middle", "end"})
  @@ "dominant-baseline" :> OneOf({"auto", "middle", "central", "hanging", "alphabetic"})

\* Elements without attributes of their own map to the empty table.
Bare(tags) == [t \in tags |-> <<>>]

Autocomplete == "autocomplete" :> Fixed(<<"off">>)
Spans == Each({"colspan", "rowspan"}, IntRange(1, 100)) @@ "headers" :> Kind("idRefs")

HtmlControls ==
  "button" :> ("type" :> Fixed(<<"button">>) @@ "disabled" :> Flag @@ "value" :> Kind("text"))
  @@ "input" :> (Autocomplete
       @@ "type" :> OneOf({"text", "number", "range", "checkbox", "radio", "search"})
       @@ Each({"value", "placeholder"}, Kind("text"))
       @@ Each({"checked", "disabled", "readonly"}, Flag)
       @@ Each({"min", "max"}, Kind("num")) @@ "step" :> Kind("nonNeg")
       @@ Each({"minlength", "maxlength"}, IntRange(0, 10000)) @@ "size" :> IntRange(1, 200)
       @@ "inputmode" :> OneOf({"text", "decimal", "numeric", "search"}))
  @@ "select" :> (Autocomplete @@ Each({"disabled", "multiple"}, Flag) @@ "size" :> IntRange(1, 50))
  @@ "option" :> (Each({"value", "label"}, Kind("text")) @@ Each({"selected", "disabled"}, Flag))
  @@ "optgroup" :> ("label" :> Kind("text") @@ "disabled" :> Flag)
  @@ "textarea" :> (Autocomplete @@ "rows" :> IntRange(1, 100) @@ "cols" :> IntRange(1, 200)
       @@ "placeholder" :> Kind("text") @@ Each({"disabled", "readonly"}, Flag)
       @@ "maxlength" :> IntRange(0, 100000))
  @@ "progress" :> Each({"value", "max"}, Kind("nonNeg"))
  @@ "meter" :> Each({"value", "min", "max", "low", "high", "optimum"}, Kind("num"))

HtmlElements ==
  HtmlControls
  @@ Bare({"div", "span", "section", "article", "header", "footer", "main", "nav",
       "aside", "p", "br", "hr", "pre", "code", "blockquote", "figure", "figcaption",
       "small", "strong", "em", "b", "i", "u", "s", "sub", "sup", "mark", "kbd", "abbr",
       "h1", "h2", "h3", "h4", "h5", "h6", "ul", "dl", "dt", "dd", "table", "thead",
       "tbody", "tfoot", "tr", "caption", "colgroup", "details", "summary", "fieldset",
       "legend"})
  @@ "time" :> ("datetime" :> Kind("text"))
  @@ "ol" :> ("start" :> IntRange(-9999, 9999) @@ "reversed" :> Flag
              @@ "type" :> OneOf({"1", "a", "A", "i", "I"}))
  @@ "li" :> ("value" :> IntRange(-9999, 9999))
  @@ "th" :> (Spans @@ "scope" :> OneOf({"row", "col", "rowgroup", "colgroup"}))
  @@ "td" :> Spans
  @@ "col" :> ("span" :> IntRange(1, 100))
  @@ "label" :> ("for" :> Kind("id"))
  @@ "output" :> ("for" :> Kind("idRefs"))

SvgElements ==
  Bare({"g", "title", "desc"})
  @@ "svg" :> ("viewBox" :> Kind("viewBox") @@ Each({"width", "height"}, Kind("lenPct"))
       @@ "preserveAspectRatio" :>
            OneOf({"none", "xMidYMid meet", "xMinYMin meet", "xMidYMid slice"}))
  @@ "rect" :> (Each({"x", "y"}, Kind("num"))
                @@ Each({"width", "height", "rx", "ry"}, Kind("nonNeg")))
  @@ "circle" :> (Each({"cx", "cy"}, Kind("num")) @@ "r" :> Kind("nonNeg"))
  @@ "ellipse" :> (Each({"cx", "cy"}, Kind("num")) @@ Each({"rx", "ry"}, Kind("nonNeg")))
  @@ "line" :> Each({"x1", "y1", "x2", "y2"}, Kind("num"))
  @@ [t \in {"polyline", "polygon"} |-> "points" :> NumList(2000)]
  @@ "path" :> ("d" :> Kind("path"))
  @@ "text" :> (Each({"x", "y", "dx", "dy", "rotate"}, NumList(1))
                @@ "textLength" :> Kind("nonNeg"))
  @@ "tspan" :> Each({"x", "y", "dx", "dy"}, NumList(1))

\* Attributes every element of that name ends up with.
HtmlForced ==
  "button" :> <<<<"type", <<"button">>>>>>
  @@ [t \in {"input", "select", "textarea"} |-> <<<<"autocomplete", <<"off">>>>>>]

HtmlUnwrap ==
  {"a", "form", "font", "center", "big", "tt", "strike", "address", "hgroup", "ins", "del",
   "q", "cite", "dfn", "var", "samp", "bdi", "bdo", "wbr", "data", "html", "head", "body"}

\* Seeded bug: the title of a drawing may hold elements.
Bug_DescOnly == {"desc"}

SvgTextOnly == {"title", "desc"}

\* asciiLower, of the names parse5 gives with capital letters.
LowerCase ==
  "viewBox" :> "viewbox" @@ "preserveAspectRatio" :> "preserveaspectratio"
  @@ "textLength" :> "textlength" @@ "foreignObject" :> "foreignobject"
Lower(n) == IF n \in DOMAIN LowerCase THEN LowerCase[n] ELSE n

\* SVG_ATTR_CANONICAL: the spelling of an SVG attribute, by its lower case.
SvgNames == UNION {DOMAIN t : t \in {SvgGlobal} \cup {SvgElements[e] : e \in DOMAIN SvgElements}}
CanonicalName(ns, n) ==
  IF ns = "svg" /\ \E s \in SvgNames : Lower(s) = Lower(n)
  THEN CHOOSE s \in SvgNames : Lower(s) = Lower(n)
  ELSE Lower(n)

\* The names in the order attributes are sorted by: which order it is makes no
\* difference, so this is any.
HtmlNames ==
  UNION {DOMAIN t : t \in {HtmlGlobal} \cup {HtmlElements[e] : e \in DOMAIN HtmlElements}}
NameOrder == FoldSet(LAMBDA n, names : Append(names, n), <<>>, HtmlNames \cup SvgNames)
NameRank == [n \in HtmlNames \cup SvgNames |-> CHOOSE i \in DOMAIN NameOrder : NameOrder[i] = n]
Before(a, b) == NameRank[a] < NameRank[b]

Elements(ns) == IF ns = "html" THEN HtmlElements ELSE SvgElements
Global(ns) == IF ns = "html" THEN HtmlGlobal ELSE SvgGlobal

\* Names with a prefix and names of handlers are never looked up.
NeverAllowed == {"xlink:href", "onclick"}

\* The descriptor of an attribute of an element, or none.
NoDescriptor == Kind("none")
Descriptor(ns, tag, name) ==
  LET own == Elements(ns)[tag]
  IN IF name \in DOMAIN own THEN own[name]
     ELSE IF name \in DOMAIN Global(ns) THEN Global(ns)[name]
     ELSE NoDescriptor
=============================================================================
