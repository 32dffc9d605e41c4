---------------------------- MODULE MCSuggestions ----------------------------
(* Suggestions for TLC.  Documents to start with: two suggestions of several   *)
(* words, with a word across both; a suggestion and a pending insertion with   *)
(* plain text between; a pending deletion between plain text.                  *)
EXTENDS Suggestions, TLC

A == <<"a">>
B == <<"b">>
Gap == <<" ">>
MCDocs0 ==
  {<<Suggestion(A, B \o Gap \o A), Suggestion(B, B \o Gap \o B)>>,
   <<Suggestion(A, B \o Gap \o A), Plain(Gap), Suggestion(<<>>, A)>>,
   <<Plain(A \o Gap), Suggestion(B, <<>>), Plain(B)>>}
MCNewTexts == {<<>>, B, A \o Gap \o B}
Symmetric  == Permutations(Sessions)
=============================================================================
