----------------------------- MODULE MCDisplay -----------------------------
\* Display over a few trees: each widget alone, in a part of the page that has
\* an action and follows the pointer, after a text, in another container; and
\* trees the renderer refuses, at once or after it has patched a part.
EXTENDS Display, TLC

Value(v) == "value" :> v
Widgets ==
  {El("input", NoAttrs, <<>>), El("input", Value("a"), <<>>), El("input", Value("b"), <<>>),
   El("textarea", NoAttrs, <<Text("x")>>), El("textarea", NoAttrs, <<Text("y")>>),
   El("checkbox", NoAttrs, <<>>), El("checkbox", "checked" :> "", <<>>)}

Region(children) == El("div", "data-action" :> "act" @@ "data-hover" :> "", children)
Trees ==
  {<<w>> : w \in Widgets} \cup {<<Region(<<w>>)>> : w \in Widgets}
  \cup {<<Text("x"), El("input", Value("a"), <<>>)>>,
        <<El("checkbox", "data-action" :> "act", <<>>)>>,
        <<El("p", NoAttrs, <<El("input", Value("a"), <<>>)>>)>>,
        <<El("input", Value("b"), <<>>), El("refused", NoAttrs, <<>>)>>,
        <<El("p", NoAttrs, <<El("textarea", NoAttrs, <<Text("x")>>), El("input", NoAttrs, <<>>)>>)>>,
        <<El("p", NoAttrs, <<Text("x"), El("input", Value("b"), <<>>)>>), Text("y")>>,
        <<Text("y"), El("input", Value("b"), <<>>), El("checkbox", NoAttrs, <<>>)>>,
        <<>>}

\* The browser runs the animation frames it was asked for.
MCNext == DisplayNext(Trees \cup {Malformed})
MCSpec == DisplayInit /\ [][MCNext]_displayVars /\ WF_displayVars(FlushPointer)
=============================================================================
