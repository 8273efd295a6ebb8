-------------------------------- MODULE MCUrl --------------------------------
(* Texts of a few pieces that put every separator in every place, and       *)
(* parameters with upper case, blanks, escapes and separators in them.     *)
EXTENDS Url

CONSTANT MaxPieces

TextPieces == {<<97, 66>>, <<32, 120>>, SchemeEnd, <<Slash>>, <<Question, 99, 68, Equals>>,
               <<Amp>>, <<Hash>>, <<At>>, <<Colon>>, <<Percent, 50, 54>>}

Mixtures == {FlattenSeq(p) : p \in BoundedSeq(TextPieces, MaxPieces)}

(* aB://  x://  u:p@  " Ab "  ab:8  /a:b@  cD=aB&q=x&cD=%26  =  #a?b *)
Schemes == {<<>>, <<97, 66>> \o SchemeEnd, <<120>> \o SchemeEnd}
Users == {<<>>, <<117, Colon, 112, At>>}
Domains == {<<>>, <<32, 65, 98, 32>>, <<97, 98, Colon, 56>>}
Paths == {<<Slash>>, <<Slash, 97, Colon, 98, At>>}
Queries == {<<>>, <<Question, 99, 68, Equals, 97, 66, Amp, 113, Equals, 120, Amp, 99, 68, Equals, Percent, 50, 54>>,
            <<Question, Equals>>}
Anchors == {<<>>, <<Hash>>, <<Hash, 97, Question, 98>>}

MCTexts == Mixtures \cup
  {FlattenSeq(p) : p \in Schemes \X Users \X Domains \X Paths \X Queries \X Anchors}

(* Plain requests, and logins with long and short names and passwords, in   *)
(* whole and in broken headers                                             *)
MCTargets == {<<Slash>> \o FlattenSeq(p) : p \in BoundedSeq(TextPieces \ {<<32, 120>>}, 2)}
MCHosts == {<<>>, <<97, 98, Colon, 56>>}
MCUsers == {<<117>>, <<Percent, 255>>, <<0, 251, 191>>}
MCPasswords == {<<>>, <<Colon>>, <<254, 1>>, <<62, 63, 128, 7>>}
BrokenAuths == {<<Blank>>, <<66, 65, 83, 73, 67, Blank, Blank>>, Basic \o <<Blank, 89, 84, 111>>,
                Basic \o <<Blank, Amp>>, <<98, Blank, 89, 84, 112, 105>>}

MCRequests ==
  (MCTargets \X MCHosts \X {<<>>}) \cup
  {<< <<Slash>>, <<>>, a>> : a \in BrokenAuths \cup {BasicHeader(u) : u \in MCUsers \X MCPasswords}}

MCKeys == {<<32, 97, 66>>, <<97, 98, 9>>, <<98, Equals, Amp>>, <<114>>, <<32, 32>>}

MCParams == {<<>>, <<0, Percent, 233>>, <<Amp, Equals>>, <<32>>}
==============================================================================
