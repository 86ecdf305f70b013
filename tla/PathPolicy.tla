----------------------------- MODULE PathPolicy -----------------------------
(***************************************************************************)
(* The path policy of a patch (git/diff.py: _compile_policy_patterns and   *)
(* validate_changed_paths).  The code translates the text of a pattern,    *)
(* character by character, to a regular expression and matches the text of *)
(* a path; Globs is what such a pattern means, segment by segment.         *)
(*                                                                         *)
(* A path or pattern is the sequence of its segments and a segment is the  *)
(* sequence of its characters, none of them a newline, so all of them are  *)
(* canonical: what _normalized_git_path and _normalized_policy_path reject *)
(* is not written.                                                         *)
(* Two stars are a segment of their own; the code also lets them stand     *)
(* beside other characters, where they have no meaning but the code's.     *)
(***************************************************************************)
EXTENDS Naturals, Sequences, SequencesExt

CONSTANT Char   \* the characters of names

Slash == "/"

\* What the translation below makes of the characters that do not stand for themselves.
Folders == "(?:.*/)?"
Anything == ".*"
WithinName == "[^/]*"
OneOfName == "[^/]"
AndBelow == "(?:/.*)?"

ASSUME PathAssumption ==
  Char \cap {Slash, Folders, Anything, WithinName, OneOfName, AndBelow} = {}

Name == Seq(Char) \ {<<>>}
Path == Seq(Name) \ {<<>>}

TwoStars == <<"*", "*">>

Pattern ==
  {pattern \in Path : \A i \in DOMAIN pattern :
     pattern[i] # TwoStars =>
       \A j \in 2 .. Len(pattern[i]) : SubSeq(pattern[i], j - 1, j) # TwoStars}

\* The characters of a path or pattern.
Text(path) == Tail(FlattenSeq([i \in DOMAIN path |-> <<Slash>> \o path[i]]))

StartsWith(prefix, text, i) == IsPrefix(prefix, SubSeq(text, i, Len(text)))

-----------------------------------------------------------------------------
(* The translation.  An atom of the expression is a character that stands  *)
(* for itself, or one of the following.                                    *)

\* The atom that the pattern has at a position, and the characters it takes.
AtomAt(text, i) ==
  IF StartsWith(Append(TwoStars, Slash), text, i) THEN <<Folders, 3>>
  ELSE IF StartsWith(TwoStars, text, i) THEN <<Anything, 2>>
  ELSE IF text[i] = "*" THEN <<WithinName, 1>>
  ELSE IF text[i] = "?" THEN <<OneOfName, 1>>
  ELSE <<text[i], 1>>

Compiled(text) ==
  LET atoms[i \in 1 .. Len(text) + 1] ==
        IF i = Len(text) + 1 THEN <<>>
        ELSE <<AtomAt(text, i)[1]>> \o atoms[i + AtomAt(text, i)[2]]
      wild == \E i \in DOMAIN text : text[i] \in {"*", "?"}
  IN  IF wild THEN atoms[1] ELSE Append(atoms[1], AndBelow)

\* fullmatch: what an atom, taken from position j, may leave to the next.
LeavesTo(atom, text, j) ==
  LET rest == j .. Len(text) + 1
      After(k) == SubSeq(text, j, k - 1)
  IN  CASE atom = Folders -> {j} \union {k \in rest : k > j /\ text[k - 1] = Slash}
        [] atom = Anything -> rest
        [] atom = WithinName -> {k \in rest : ~ Contains(After(k), Slash)}
        [] atom = OneOfName -> {k \in rest : k = j + 1 /\ text[j] # Slash}
        [] atom = AndBelow -> {j} \union {k \in rest : k > j /\ text[j] = Slash}
        [] OTHER -> {k \in rest : k = j + 1 /\ text[j] = atom}

FullMatch(atoms, text) ==
  LET reached[i \in 0 .. Len(atoms)] ==
        IF i = 0 THEN {1} ELSE UNION {LeavesTo(atoms[i], text, j) : j \in reached[i - 1]}
  IN  Len(text) + 1 \in reached[Len(atoms)]

Matches(pattern, text) == FullMatch(Compiled(Text(pattern)), text)

\* What nobody's patch may change; these names are one character here.
Owned == {".git", ".proofpatch"}

\* validate_changed_paths, for one path.
Permits(allowed, denied, text) ==
  /\ ~ (text[1] \in Owned /\ (Len(text) = 1 \/ text[2] = Slash))
  /\ \E pattern \in allowed : Matches(pattern, text)
  /\ ~ \E pattern \in denied : Matches(pattern, text)
-----------------------------------------------------------------------------
(* The meaning: a pattern matches segment by segment, where ** is any      *)
(* number of segments, but not none at the end, * any part of a name and ? *)
(* one character of it; a pattern without these matches all below it, too. *)

NameGlobs(segment, name) ==
  LET rest == 1 .. Len(name) + 1
      reached[i \in 0 .. Len(segment)] ==
        IF i = 0 THEN {1}
        ELSE {k \in rest : \E j \in reached[i - 1] :
                CASE segment[i] = "*" -> k >= j
                  [] segment[i] = "?" -> k = j + 1
                  [] OTHER -> k = j + 1 /\ name[j] = segment[i]}
  IN  Len(name) + 1 \in reached[Len(segment)]

Wild(pattern) == \E i \in DOMAIN pattern : Range(pattern[i]) \cap {"*", "?"} # {}

Globs(pattern, path) ==
  LET rest == 1 .. Len(path) + 1
      reached[i \in 0 .. Len(pattern)] ==
        IF i = 0 THEN {1}
        ELSE {k \in rest : \E j \in reached[i - 1] :
                IF pattern[i] = TwoStars
                THEN k > j \/ (k = j /\ i < Len(pattern))
                ELSE k = j + 1 /\ NameGlobs(pattern[i], path[j])}
  IN  \/ Len(path) + 1 \in reached[Len(pattern)]
      \/ ~ Wild(pattern) /\ reached[Len(pattern)] # {}

\* The meaning of a policy.
InScope(allowed, denied, path) ==
  /\ path[1] \notin {<<name>> : name \in Owned}
  /\ \E pattern \in allowed : Globs(pattern, path)
  /\ ~ \E pattern \in denied : Globs(pattern, path)
=============================================================================
