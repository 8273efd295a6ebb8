---------------------------- MODULE MCHeadReader ----------------------------
(* Every byte stream of up to six bytes, and some that make a whole head.   *)
EXTENDS HeadReader

CRLF == <<"cr", "lf">>
Chars(n) == [i \in 1 .. n |-> "ch"]

MCInputs ==
  (UNION {[1 .. n -> Byte] : n \in 0 .. 6})
    \cup {Chars(3) \o CRLF \o CRLF,
          Chars(4) \o CRLF \o Chars(3) \o CRLF \o CRLF \o Chars(1),
          Chars(3) \o CRLF \o <<"cr">> \o Chars(2) \o CRLF \o Chars(2) \o CRLF,
          Chars(3) \o <<"cr">> \o CRLF \o <<"lf">> \o Chars(3) \o CRLF \o CRLF}
==============================================================================
