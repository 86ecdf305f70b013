--------------------------- MODULE MCPatchCapture ---------------------------
(* PatchCapture on a small instance. *)
EXTENDS PatchCapture, TLC

a == <<"a">>
b == <<"b">>
colon == <<":">>

\* A file, one that is called as the status M is, one deeper down whose path begins with
\* a colon, one of ours.
Existing == {<<a, b>>, <<<<"M">>>>}
New == {<<colon, <<"a", "b">>, b>>, <<<<".proofpatch">>, a>>}
Files == Existing \union New
Baseline == [f \in Files |-> IF f \in Existing THEN "one" ELSE "absent"]

\* All patterns of up to two of these segments, and some of three.
Chars == {"a", "b", "M", ":", ".proofpatch", "*", "?"}
Segment == {a, b, colon, <<"*">>, <<"a", "*">>, <<"?">>, <<"?", "b">>, TwoStars}
Patterns ==
  UNION {[1 .. n -> Segment] : n \in 1 .. 2}
    \union {<<x, TwoStars, y>> : x \in {colon, TwoStars, <<"?">>}, y \in {b, TwoStars}}

Denials == {{}, {<<a>>}, {<<TwoStars, b>>}, {<<colon, TwoStars>>}, {<<<<"?">>>>}}
Policies ==
  [allowed: {{pattern} : pattern \in Patterns} \union {{<<a>>, <<b>>}}, denied: Denials]
=============================================================================
