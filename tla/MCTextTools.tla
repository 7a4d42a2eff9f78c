---------------------------- MODULE MCTextTools -----------------------------
(***************************************************************************)
(* Instances of TextLimits and FuzzyReplace for TLC: what a tool shows of  *)
(* a text, or what an edit makes of it.                                    *)
(***************************************************************************)
EXTENDS TextLimits, FuzzyReplace, SequencesExt

MCIntMin == -16
MCBudgets == -1..9

\* Every text of up to four characters, and texts of up to three lines of some kinds.
Joined(Kinds, n) == {Join(ls) : ls \in BoundedSeq(Kinds, n) \ {<<>>}}
Line == <<"a">>
Indented == <<Blank, "a">>
Trailing == <<"a", Blank>>
MCContents == BoundedSeq({"a"} \cup Space, 4) \cup Joined({<<>>, Line, Indented, Trailing}, 3)
MCOldTexts == BoundedSeq({"a"} \cup Space, 2) \cup Joined({<<>>, Line, Indented}, 3)
MCNewTexts == {<<>>, <<"b">>, <<Blank, "b", LF, LF, Blank, Blank, "b">>}

NoTexts == {<<>>}
NoBudgets == {}

\* The texts of the finding on outer lines.
WordContents == {<<"a", "b">>, <<"a", Blank, "b">>}
LineTexts == {<<Blank, "b", LF>>, <<LF, "b", LF>>}

limitVars == <<textVars, requestVars, shown>>

LimitsIdle ==
  /\ len = 0 /\ starts = {} /\ lines = 1 /\ budget = 0 /\ offset = 0 /\ limit = 0
  /\ shown = [Nothing EXCEPT !.how = "idle"]

EditIdle ==
  /\ content = <<>> /\ old = <<>> /\ new = <<>> /\ replaceAll = FALSE
  /\ result = [Untried EXCEPT !.how = "refused"]

ToolInit == (Init /\ EditIdle) \/ (EditInit /\ LimitsIdle)
ToolNext == (Next /\ UNCHANGED <<editVars, result>>) \/ (EditNext /\ UNCHANGED limitVars)
ToolSpec == ToolInit /\ [][ToolNext]_<<limitVars, editVars, result>>
=============================================================================
