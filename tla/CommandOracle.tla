--------------------------- MODULE CommandOracle ---------------------------
(***************************************************************************)
(* How a command oracle judges what ProcessRunner has returned             *)
(* (oracles/command.py: evaluate, oracles/matchers.py).  The judgment is a *)
(* function of the outcome; what it promises is about the command.         *)
(*                                                                         *)
(* An expectation has one matcher for the exit code and, here, one for a   *)
(* text in one stream; more of them are conjoined.  A text is reduced to   *)
(* the unit of output with which it is complete, 0 if it does not occur.   *)
(***************************************************************************)
EXTENDS ProcessRunner, Integers

CONSTANT ExitCode   \* the codes with which a command may exit

ASSUME OracleAssumption == ExitCode \subseteq Nat

\* equal or not_equal a value; contains or regex, or the opposite of either.
CodeMatcher == [value: ExitCode, negated: BOOLEAN]
TextMatcher == [stream: Stream, regex: BOOLEAN, negated: BOOLEAN]

\* The death by a signal is a code, too: its number with a minus.
Killed == -1

\* exit_code of the outcome, as the set of it: none if the runner ended the command.
ExitCodes ==
  CASE outcome.kind = "exited" -> {{n} : n \in ExitCode}
    [] outcome.kind = "signal" -> {{Killed}}
    [] OTHER -> {{}}
-----------------------------------------------------------------------------
EvaluateExitCode(matcher, actual) ==
  actual # {} /\ (actual = {matcher.value}) # matcher.negated

\* A regular expression may be given too much text, or take too long.
EvaluateText(matcher, last, overtaxed) ==
  LET matched == last \in 1 .. kept[matcher.stream]
  IN  IF matcher.regex /\ overtaxed THEN FALSE ELSE matched # matcher.negated

\* Mutant: what was cut off is not asked for.
FailureWithoutCut(met) ==
  IF outcome.kind \in {"timeout", "cancelled"} THEN outcome.kind
  ELSE IF met THEN "none" ELSE "expectation"

\* Whatever the matchers say, what did not end by itself or was cut off fails.
FailureCode(met) ==
  IF outcome.kind \in {"timeout", "cancelled"} THEN outcome.kind
  ELSE IF outcome.truncated THEN "truncated"
  ELSE IF met THEN "none" ELSE "expectation"

Passed(exit, text, actual, last, overtaxed) ==
  FailureCode(EvaluateExitCode(exit, actual) /\ EvaluateText(text, last, overtaxed)) = "none"
-----------------------------------------------------------------------------
(* An oracle passes if and only if the command ended without the runner, wrote no   *)
(* more than the limit, ended as expected and wrote what was expected: whatever the *)
(* readers, the budget and the deadline did meanwhile, the verdict is one on all    *)
(* that the command wrote.  Only a regular expression that takes too long may make  *)
(* it fail without a reason.                                                        *)
VerdictIsEarned ==
  Returned =>
    \A exit \in CodeMatcher, text \in TextMatcher, actual \in ExitCodes, overtaxed \in BOOLEAN :
      \A last \in 0 .. written[text.stream] :
        LET deserved ==
              /\ outcome.kind \in {"exited", "signal"} /\ asked = {}
              /\ Total(written) <= MaxOutput
              /\ IF exit.negated THEN actual # {exit.value} ELSE actual = {exit.value}
              /\ IF text.negated THEN last = 0 ELSE last > 0
        IN  Passed(exit, text, actual, last, overtaxed)
              <=> deserved /\ ~ (text.regex /\ overtaxed)
=============================================================================
