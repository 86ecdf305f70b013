---------------------------- MODULE PatchCapture ----------------------------
(***************************************************************************)
(* What a candidate patch may contain (git/diff.py: capture_binary_patch): *)
(* git stages whatever the agent left in the clone and reports what has    *)
(* changed as one list of tokens, in which statuses and paths alternate    *)
(* and a rename has two paths; the code reads that list, and refuses a     *)
(* patch that is empty, too large, outside of the policy, or that brings   *)
(* in something other than files.  Only then it writes the patch.          *)
(*                                                                         *)
(* Git is external.  Which deleted and added files it takes for renamed is *)
(* its guess; it may be any.  And it is asked for the objects of the files *)
(* by their paths, which it takes for patterns: one that begins with a     *)
(* colon means something else to it, and may hide any file.                *)
(***************************************************************************)
EXTENDS PathPolicy, FiniteSets

CONSTANTS
  File,       \* paths, as sequences of segments
  Base,       \* the object of each file in the baseline
  Policy,     \* the policies: records of allowed and denied patterns
  MaxFiles    \* max_changed_files

\* Two contents of files; a symbolic link, submodule or other mode; nothing.
Object == {"one", "two", "odd", "absent"}

ASSUME CaptureAssumption ==
  /\ File \subseteq Path /\ IsFiniteSet(File)
  /\ Base \in [File -> Object \ {"odd"}]
  /\ Policy \subseteq [allowed : SUBSET Pattern, denied : SUBSET Pattern]
  /\ MaxFiles \in Nat

None == <<>>

VARIABLES
  tree,      \* what the agent left in the clone
  policy,    \* of the plan
  reported,  \* history: the changes that git reports, and
  tokens,    \* the list that it writes
  changes,   \* what the code has read from it
  verdict,   \* captured, or why not
  patch      \* patch.diff: the new objects of the files that it changes

captureVars == <<tree, policy, reported, tokens, changes, verdict, patch>>

CaptureInit ==
  /\ tree \in [File -> Object]
  /\ policy \in Policy
  /\ reported = None
  /\ tokens = None
  /\ changes = None
  /\ verdict = "none"
  /\ patch = None
-----------------------------------------------------------------------------
(* git add -A, git diff --cached --name-status -z --find-renames.          *)

Deleted == {f \in File : Base[f] # "absent" /\ tree[f] = "absent"}
Added == {f \in File : Base[f] = "absent" /\ tree[f] # "absent"}
Modified == {f \in File \ (Deleted \union Added) : Base[f] # tree[f]}
Touched == Deleted \union Added \union Modified

Change(status, old, path) == [status |-> status, old |-> old, path |-> path]
Unreadable == Change(<<"unreadable">>, None, None)

\* Each renaming takes some deleted files to distinct added ones.
Renamings ==
  UNION {Injection(gone, {f \in Added : tree[f] # "odd"}) : gone \in SUBSET Deleted}

ChangesOf(renaming) ==
  {Change(<<"R", "9">>, Text(f), Text(renaming[f])) : f \in DOMAIN renaming}
    \union {Change(<<"D">>, None, Text(f)) : f \in Deleted \ DOMAIN renaming}
    \union {Change(<<"A">>, None, Text(f)) : f \in Added \ Range(renaming)}
    \union {Change(IF tree[f] = "odd" THEN <<"T">> ELSE <<"M">>, None, Text(f)) : f \in Modified}

TokensOf(change) ==
  IF change.old = None THEN <<change.status, change.path>>
  ELSE <<change.status, change.old, change.path>>

ReportChanges ==
  /\ verdict = "none"
  /\ \E renaming \in Renamings : reported' = SetToSeq(ChangesOf(renaming))
  /\ tokens' = FlattenSeq([i \in DOMAIN reported' |-> TokensOf(reported'[i])])
  /\ verdict' = "reported"
  /\ UNCHANGED <<tree, policy, changes, patch>>
-----------------------------------------------------------------------------
(* parse_name_status_z.                                                    *)

TwoPaths(status) == status[1] \in {"R", "C"}

\* Mutant: the old path of a rename is not read.
OnePathEach(status) == 2

\* How many tokens an entry takes.
Length(status) == IF TwoPaths(status) THEN 3 ELSE 2

WellFormed(list, i) ==
  /\ list[i][1] \in {"A", "C", "D", "M", "R", "T"}
  /\ i + Length(list[i]) - 1 \in DOMAIN list
  /\ IF TwoPaths(list[i]) THEN Len(list[i]) > 1 /\ Range(Tail(list[i])) \subseteq {"9"}
                          ELSE Len(list[i]) = 1

Entry(list, i) ==
  LET last == i + Length(list[i]) - 1
  IN  Change(list[i], IF last = i + 2 THEN list[i + 1] ELSE None, list[last])

\* The entries from each position on, up to the first that cannot be read.
Parsed(list) ==
  LET from[i \in 1 .. Len(list) + 1] ==
        IF i = Len(list) + 1 THEN <<>>
        ELSE IF WellFormed(list, i) THEN <<Entry(list, i)>> \o from[i + Length(list[i])]
        ELSE <<Unreadable>>
  IN  from[1]

Read ==
  /\ verdict = "reported"
  /\ changes' = Parsed(tokens)
  /\ verdict' = IF Contains(changes', Unreadable) THEN "unreadable" ELSE "read"
  /\ UNCHANGED <<tree, policy, reported, tokens, patch>>
-----------------------------------------------------------------------------
(* The limits, the policy and the objects, in the order of the code.       *)

\* Mutant: the old path of a rename is not held against the policy.
NewPathOf(change) == {change.path}

PathsOf(change) == {change.old, change.path} \ {None}

PathsPermitted ==
  \A i \in DOMAIN changes : \A text \in PathsOf(changes[i]) :
    Permits(policy.allowed, policy.denied, text)

\* The paths that git ls-files is given, and the files that they name.
Asked == {changes[i].path : i \in {j \in DOMAIN changes : changes[j].status # <<"D">>}}
Named == {f \in File : Text(f) \in Asked}

\* What git may list of all that is staged: the files that are named, and others that a
\* name matches as a pattern; but a name that begins with a colon is no name to it, and
\* may exclude any.
Listings ==
  {listed \in SUBSET {f \in File : tree[f] # "absent"} :
     (\E path \in Asked : path[1] = ":") \/ Named \subseteq listed}

\* _validate_staged_object_types, of the files that git lists.
ObjectsPermitted(listed) == \A f \in listed : tree[f] # "odd"

Refuse(reason) ==
  /\ verdict' = reason
  /\ UNCHANGED <<tree, policy, reported, tokens, changes, patch>>

RefuseEmpty == verdict = "read" /\ changes = <<>> /\ Refuse("empty")

CheckCount ==
  /\ verdict = "read"
  /\ changes # <<>>
  /\ Refuse(IF Len(changes) > MaxFiles THEN "too_many" ELSE "counted")

CheckPaths ==
  /\ verdict = "counted"
  /\ Refuse(IF PathsPermitted THEN "permitted" ELSE "path_denied")

\* git diff --cached --binary writes the patch of all that is staged.
Capture ==
  /\ verdict = "permitted"
  /\ \E listed \in Listings :
       /\ verdict' = IF ObjectsPermitted(listed) THEN "captured" ELSE "object_denied"
       /\ patch' = IF ObjectsPermitted(listed) THEN [f \in Touched |-> tree[f]] ELSE None
  /\ UNCHANGED <<tree, policy, reported, tokens, changes>>

\* Git does not understand the magic of a name.
GitFails ==
  /\ verdict = "permitted"
  /\ \E path \in Asked : path[1] = ":"
  /\ Refuse("git_failed")

CaptureNext == ReportChanges \/ Read \/ RefuseEmpty \/ CheckCount \/ CheckPaths \/ Capture
               \/ GitFails

CaptureSpec == CaptureInit /\ [][CaptureNext]_captureVars
-----------------------------------------------------------------------------
(* What the code reads is what git reported, also when a file is called as a        *)
(* status is, and whatever is renamed.                                              *)
ParserReadsGit == verdict \notin {"none", "reported"} => changes = reported

(* A captured patch stays in the scope of the policy: every file that it changes,   *)
(* adds or deletes, or renames from or to, is one that some allowed pattern means   *)
(* and no denied one does, segment by segment.  It brings in only files, unless one *)
(* that it leaves has a path that begins with a colon.  And only a patch that does  *)
(* not stay in scope is denied for its paths, however git pairs renames.            *)
VerdictIsScope ==
  LET within == \A f \in Touched : InScope(policy.allowed, policy.denied, f)
      colon == \E f \in Touched : tree[f] # "absent" /\ Text(f)[1] = ":"
  IN  /\ verdict = "captured" =>
           /\ within /\ DOMAIN patch = Touched /\ Touched # {}
           /\ "odd" \in Range(patch) => colon
      /\ verdict = "path_denied" => ~ within
=============================================================================
