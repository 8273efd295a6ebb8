-------------------------------- MODULE Json --------------------------------
(***************************************************************************)
(* JSON::parse and JSON::stringify (src/json/parse.cpp,                    *)
(* src/json/stringify.cpp), and the life of a JSON::Property               *)
(* (src/json/json.hpp) that a program receives, edits and sends.           *)
(*                                                                         *)
(* A Property is [key, type, data, kids]: `data` is the text of a scalar,  *)
(* `kids` the entries of an array, or of an object in the order of their   *)
(* keys.  A number's text is the shortest decimal of its value.  Texts are *)
(* sequences of bytes; parse functions work on data[b] .. data[e - 1].     *)
(***************************************************************************)
EXTENDS Values

CONSTANTS
  JsonTexts,   \* texts the program receives
  Scalars,     \* properties it makes
  JsonKeys,    \* keys it uses
  MaxNodes     \* bound on the properties in a document

VARIABLE doc   \* the program's Property

(* The bytes the functions look for *)
Tab == 9
Newline == 10
Return == 13
Escape == 27
Quote == 34
Comma == 44
Minus == 45
Dot == 46
Zero == 48
Nine == 57
KeyEnd == 58
OpenArray == 91
Backslash == 92
CloseArray == 93
OpenObject == 123
CloseObject == 125

Null == <<110, 117, 108, 108>>
True == <<116, 114, 117, 101>>
False == <<102, 97, 108, 115, 101>>

Scalar(type, data) == [key |-> <<>>, type |-> type, data |-> data, kids |-> <<>>]
Undefined == Scalar("undefined", <<>>)
Thrown == Scalar("thrown", <<>>)

Container(type, kids) ==
  IF \E i \in 1 .. Len(kids) : kids[i].type = "thrown" THEN Thrown
  ELSE [key |-> <<>>, type |-> type, data |-> <<>>, kids |-> kids]

(* std::map: in the order of the keys, the last value of each *)
ObjectOf(members) ==
  LET keys == {members[i].key : i \in 1 .. Len(members)}
      LastOf(k) == members[SelectLastInSeq(members, LAMBDA m : m.key = k)]
      sorted == SetToSortSeq(keys, Before)
      threw == \E i \in 1 .. Len(members) : members[i].type = "thrown"
  IN IF threw THEN Thrown
     ELSE Container("object", [i \in 1 .. Len(sorted) |-> LastOf(sorted[i])])

------------------------------------------------------------------------------
(* stringify *)

rune_replace(rune) ==
  CASE rune = Newline -> <<Backslash, Backslash, 110>>
    [] rune = Escape  -> <<Backslash, Backslash, 114>>
    [] rune = Tab     -> <<Backslash, Backslash, 116>>
    [] rune = Quote   -> <<Backslash, Quote>>
    [] OTHER          -> <<rune>>

(* The shortest decimal of a number: no zeros to the left of its whole part *)
(* or to the right of its fraction, and no fraction of none                 *)
PointOf(token) == IF Contains(token, Dot) THEN SelectInSeq(token, LAMBDA c : c = Dot) ELSE Len(token) + 1

NumberText(token) ==
  LET sign  == IF token[1] = Minus THEN <<Minus>> ELSE <<>>
      point == PointOf(token)
      first == Min({point} \cup {i \in Len(sign) + 1 .. point - 1 : token[i] # Zero})
      last  == Max({point} \cup {i \in point + 1 .. Len(token) : token[i] # Zero})
  IN sign \o (IF first = point THEN <<Zero>> ELSE SubSeq(token, first, point - 1))
          \o (IF last = point THEN <<>> ELSE SubSeq(token, point, last))

RECURSIVE Incremented(_)
Incremented(digits) ==
  IF digits = <<>> \/ digits = <<Minus>> THEN Append(digits, Zero + 1)
  ELSE IF Last(digits) = Nine THEN Append(Incremented(Front(digits)), Zero)
  ELSE Append(Front(digits), Last(digits) + 1)

(* std::to_string of a float, which rounds to six decimals, without the     *)
(* zeros that end it.  What lies half way between two of them does not      *)
(* occur.                                                                   *)
ShownDecimals == 6

FloatText(number) ==
  LET point   == PointOf(number)
      digits  == SubSeq(number, 1, point - 1) \o SubSeq(number, point + 1, point + ShownDecimals)
      rounded == IF number[point + ShownDecimals + 1] >= Zero + 5 THEN Incremented(digits) ELSE digits
      whole   == Len(rounded) - ShownDecimals
  IN IF Len(number) <= point + ShownDecimals THEN number
     ELSE NumberText(SubSeq(rounded, 1, whole) \o <<Dot>> \o SubSeq(rounded, whole + 1, Len(rounded)))

Listed(texts) ==
  FoldLeft(LAMBDA buff, t : IF buff = <<>> THEN t ELSE Append(buff, Comma) \o t, <<>>, texts)

RECURSIVE stringify(_)
stringify(value) ==
  CASE value.type = "integer" -> value.data
    [] value.type = "float"   -> FloatText(value.data)
    [] value.type = "boolean" -> value.data
    [] value.type = "string"  ->
         <<Quote>> \o FlattenSeq([i \in 1 .. Len(value.data) |-> rune_replace(value.data[i])])
           \o <<Quote>>
    [] value.type = "array" ->
         <<OpenArray>> \o Listed([i \in 1 .. Len(value.kids) |-> stringify(value.kids[i])])
           \o <<CloseArray>>
    [] value.type = "object" ->
         <<OpenObject>>
           \o Listed([i \in 1 .. Len(value.kids) |->
                        <<Quote>> \o value.kids[i].key \o <<Quote, KeyEnd>> \o stringify(value.kids[i])])
           \o <<CloseObject>>
    [] OTHER -> Null

------------------------------------------------------------------------------
(* parse *)

is_valid_escaped_quote(data, idx, b) ==
  idx - b >= 3 /\ data[idx - 1] = Backslash /\ data[idx - 2] = Backslash

(* Mutant: commas in strings separate entries *)
SeparatorsAnywhere(data, b, e) ==
  LET Count(i, c) == Cardinality({j \in b .. i : data[j] = c})
  IN {i \in b .. e - 1 :
        /\ data[i] = Comma
        /\ Count(i, OpenObject) = Count(i, CloseObject)
        /\ Count(i, OpenArray) = Count(i, CloseArray)}

(* The commas between the entries.  Brackets count in strings too; only the *)
(* comma itself must not be in one.                                        *)
Separators(data, b, e) ==
  LET Count(i, c) == Cardinality({j \in b .. i : data[j] = c})
      Quotes(i) == {j \in b .. i : data[j] = Quote /\ ~is_valid_escaped_quote(data, j, b)}
  IN {i \in b .. e - 1 :
        /\ data[i] = Comma
        /\ Count(i, OpenObject) = Count(i, CloseObject)
        /\ Count(i, OpenArray) = Count(i, CloseArray)
        /\ Cardinality(Quotes(i)) % 2 = 0}

(* as pairs of bounds; there is always at least one entry *)
get_object_entries(data, b, e) ==
  LET commas == SetToSortSeq(Separators(data, b, e), <)
  IN [n \in 1 .. Len(commas) + 1 |->
        << IF n = 1 THEN b ELSE commas[n - 1] + 1,
           IF n > Len(commas) THEN e ELSE commas[n] >>]

Unescaped == (110 :> Newline) @@ (114 :> Return) @@ (116 :> Tab)
               @@ (Quote :> Quote) @@ (Backslash :> Backslash)

(* The text from i on; the byte 256 stands for an escape that throws.  Two  *)
(* backslashes at the end of a string take the quote behind it with them.   *)
Unreadable == 256

RECURSIVE unescape(_, _, _)
unescape(data, i, e) ==
  IF i >= e THEN <<>>
  ELSE IF data[i] # Backslash THEN <<data[i]>> \o unescape(data, i + 1, e)
  ELSE IF data[i + 1] = Backslash /\ e - i >= 2 /\ data[i + 2] \in DOMAIN Unescaped
  THEN <<Unescaped[data[i + 2]]>> \o unescape(data, i + 3, e)
  ELSE <<Unreadable>>

parse_string(data, b, e) ==
  LET value == unescape(data, b + 1, e - 1)
      stray == \E i \in b + 1 .. e - 2 : data[i] = Quote /\ ~is_valid_escaped_quote(data, i, b + 1)
  IN IF data[e - 1] # Quote \/ stray \/ Contains(value, Unreadable) THEN Thrown
     ELSE Scalar("string", value)

IsDigit(c) == c \in Zero .. Nine

(* Among integers there is no negative zero. *)
PlainZero(number) == IF number = <<Minus, Zero>> THEN <<Zero>> ELSE number

(* stol and stold read what they can of the token, from its begin; a dot    *)
(* anywhere before the token's end, in the whole text, makes it a float.    *)
(* Exponents, blanks, hexadecimal digits and numbers that fit neither type  *)
(* do not occur.                                                            *)
parse_number(data, b, e) ==
  LET dotted == \E i \in 1 .. e - 1 : data[i] = Dot
      Point(i) == dotted /\ data[i] = Dot /\ ~\E j \in b .. i - 1 : data[j] = Dot
      Part(i) == IsDigit(data[i]) \/ (i = b /\ data[i] = Minus) \/ Point(i)
      stop == CHOOSE n \in b .. e : (\A i \in b .. n - 1 : Part(i)) /\ (n = e \/ ~Part(n))
      token == SubSeq(data, b, stop - 1)
  IN IF ~\E i \in 1 .. Len(token) : IsDigit(token[i]) THEN Thrown
     ELSE IF dotted THEN Scalar("float", NumberText(token))
     ELSE Scalar("integer", PlainZero(NumberText(token)))

(* "false" is longer than any literal may be. *)
MaxLiteral == 4

parse_literal(token) ==
  CASE Len(token) > MaxLiteral   -> Thrown
    [] token \in {True, False}   -> Scalar("boolean", token)
    [] token = Null              -> Scalar("null", <<>>)
    [] OTHER                     -> Thrown

(* A member's key, and where its value begins: none without a key, with an  *)
(* empty one, or without a colon and something behind it.                   *)
NoMember == [key |-> <<>>, value |-> 0]

Member(data, b, e) ==
  LET quotes == {i \in b .. e - 1 : data[i] = Quote /\ ~(i > b /\ data[i - 1] = Backslash)}
      open   == CHOOSE i \in quotes : \A j \in quotes : i <= j
      close  == CHOOSE i \in quotes \ {open} : \A j \in quotes \ {open} : i <= j
      colons == {i \in close + 1 .. e - 1 : data[i] = KeyEnd}
      colon  == CHOOSE i \in colons : \A j \in colons : i <= j
  IN IF Cardinality(quotes) < 2 THEN NoMember
     ELSE IF close = open + 1 \/ colons = {} THEN NoMember
     ELSE IF colon + 1 = e THEN NoMember
     ELSE [key |-> SubSeq(data, open + 1, close - 1), value |-> colon + 1]

(* Mutant: white space before the value is not passed over *)
FirstVisibleNever(data, b, e) == b

(* Blanks on both sides, unless there is nothing else *)
FirstVisible(data, b, e) ==
  LET seen == {i \in b .. e - 1 : ~IsSpace(data[i])}
  IN IF seen = {} THEN b ELSE CHOOSE i \in seen : \A j \in seen : i <= j

LastVisible(data, b, e) ==
  LET seen == {i \in b .. e - 1 : ~IsSpace(data[i])}
  IN IF seen = {} THEN e - 1 ELSE CHOOSE i \in seen : \A j \in seen : i >= j

RECURSIVE parse_range(_, _, _)

parse_array(data, b, e) ==
  LET Push(kids, bounds) == Append(kids, parse_range(data, bounds[1], bounds[2]))
  IN IF data[e - 1] # CloseArray THEN Thrown
     ELSE Container("array", FoldLeft(Push, <<>>, get_object_entries(data, b + 1, e - 1)))

parse_object(data, b, e) ==
  LET Unwrap(members, bounds) ==
        LET m == Member(data, bounds[1], bounds[2])
        IN IF m = NoMember THEN members
           ELSE Append(members, [parse_range(data, m.value, bounds[2]) EXCEPT !.key = m.key])
  IN IF data[e - 1] # CloseObject THEN Thrown
     ELSE ObjectOf(FoldLeft(Unwrap, <<>>, get_object_entries(data, b + 1, e - 1)))

parse_range(data, begin, end) ==
  LET b == FirstVisible(data, begin, end)
      e == LastVisible(data, begin, end) + 1
  IN CASE b >= e                               -> Undefined
       [] data[b] = Quote                      -> parse_string(data, b, e)
       [] IsDigit(data[b]) \/ data[b] = Minus  -> parse_number(data, b, e)
       [] data[b] = OpenObject                 -> parse_object(data, b, e)
       [] data[b] = OpenArray                  -> parse_array(data, b, e)
       [] OTHER                                -> parse_literal(SubSeq(data, b, e - 1))

parse(data) ==
  LET result == parse_range(data, 1, Len(data) + 1)
  IN IF result.type = "undefined" THEN Thrown ELSE result

------------------------------------------------------------------------------
(* The program's Property: received as a text or made from a value, put     *)
(* into containers, and given more entries                                 *)

RECURSIVE Nodes(_)
Nodes(value) == 1 + FoldLeft(LAMBDA n, kid : n + Nodes(kid), 0, value.kids)

HasRoomFor(value) == Nodes(doc) + Nodes(value) <= MaxNodes

JsonInit == doc = Undefined

ReceiveText ==
  /\ doc = Undefined
  /\ \E text \in JsonTexts : parse(text) # Thrown /\ doc' = parse(text)

MakeScalar == doc = Undefined /\ doc' \in Scalars

IntoArray ==
  /\ doc # Undefined /\ HasRoomFor(Undefined)
  /\ doc' = Container("array", <<doc>>)

IntoObject(key) ==
  /\ doc # Undefined /\ HasRoomFor(Undefined)
  /\ doc' = ObjectOf(<<[doc EXCEPT !.key = key]>>)

PushEntry(value) ==
  /\ doc.type = "array" /\ HasRoomFor(value)
  /\ doc' = Container("array", Append(doc.kids, value))

SetMember(key, value) ==
  /\ doc.type = "object" /\ HasRoomFor(value)
  /\ doc' = ObjectOf(Append(doc.kids, [value EXCEPT !.key = key]))

JsonNext ==
  \/ ReceiveText \/ MakeScalar
  \/ IntoArray \/ \E k \in JsonKeys : IntoObject(k)
  \/ \E v \in Scalars : PushEntry(v) \/ \E k \in JsonKeys : SetMember(k, v)

JsonSpec == JsonInit /\ [][JsonNext]_doc

------------------------------------------------------------------------------
(* Properties *)

(* Opening and closing brackets are equally many *)
Balanced(text) ==
  LET Count(c) == Cardinality({i \in 1 .. Len(text) : text[i] = c})
  IN Count(OpenObject) = Count(CloseObject) /\ Count(OpenArray) = Count(CloseArray)

(* What the two functions can carry between them, and what they cannot: an  *)
(* undefined property, false, an empty array, unbalanced brackets in a      *)
(* string, a quote at its begin, and a key that is empty or holds a quote   *)
(* or a backslash; and, in strings, the bytes that the writer in question   *)
(* does not write readably, and in floats the decimals it does not write.   *)
Decimals(number) == Len(number) - Min({PointOf(number), Len(number)})

RECURSIVE Carried(_, _, _)
Carried(value, refused, decimals) ==
  /\ value.type \notin {"undefined", "thrown"} /\ value.data # False
  /\ value.type = "string" =>
       /\ Balanced(value.data)
       /\ \A i \in 1 .. Len(value.data) : value.data[i] \notin refused
       /\ value.data # <<>> => value.data[1] # Quote
  /\ value.type = "float" => Decimals(value.data) <= decimals
  /\ value.type = "array" => value.kids # <<>>
  /\ value.type = "object" => \A i \in 1 .. Len(value.kids) :
       /\ value.kids[i].key # <<>> /\ Balanced(value.kids[i].key)
       /\ \A c \in {Quote, Backslash} : ~Contains(value.kids[i].key, c)
  /\ \A i \in 1 .. Len(value.kids) : Carried(value.kids[i], refused, decimals)

(* A whole number is a float or an integer depending on the dots before it, *)
(* and so zero has a sign or none.                                          *)
RECURSIVE Kindless(_)
Kindless(value) ==
  [value EXCEPT !.type = IF @ = "integer" THEN "float" ELSE @,
                !.data = IF value.type = "float" THEN PlainZero(@) ELSE @,
                !.kids = [i \in 1 .. Len(@) |-> Kindless(@[i])]]

(* What stringify() writes, parse() reads back, however strings, commas,    *)
(* colons and brackets are nested: a scanner that looks for commas over and *)
(* over again finds the same tree.  Floats of more decimals than are shown  *)
(* come back rounded, and then stay as they are.                            *)
AsManyAsHeld == 18

Unprinted == {Quote, Backslash, Escape}

JsonReadsBack ==
  LET again == parse(stringify(doc))
  IN /\ Carried(doc, Unprinted, ShownDecimals) => Kindless(again) = Kindless(doc)
     /\ Carried(doc, Unprinted, AsManyAsHeld) => Kindless(parse(stringify(again))) = Kindless(again)

(* A writer with blanks around every token, and with the escapes that       *)
(* parse() knows ("\\n" in the tests: two backslashes)                     *)
Padded(token) == <<Newline>> \o token \o <<32, Tab>>

EscapeFor(c) ==
  IF c \in {Newline, Return, Tab, Quote, Backslash}
  THEN <<Backslash, Backslash, CHOOSE r \in DOMAIN Unescaped : Unescaped[r] = c>>
  ELSE <<c>>

RECURSIVE Rewritten(_)
Rewritten(value) ==
  LET Text(t) == <<Quote>> \o FlattenSeq([i \in 1 .. Len(t) |-> EscapeFor(t[i])]) \o <<Quote>>
      Entry(kid) == (IF kid.key = <<>> THEN <<>> ELSE Padded(Text(kid.key)) \o <<KeyEnd>>) \o Rewritten(kid)
      Entries == Listed([i \in 1 .. Len(value.kids) |-> Entry(value.kids[i])])
  IN Padded(CASE value.type = "string" -> Text(value.data)
              [] value.type = "array"  -> <<OpenArray>> \o Entries \o <<CloseArray>>
              [] value.type = "object" -> <<OpenObject>> \o Entries \o <<CloseObject>>
              [] value.type = "null"   -> Null
              [] OTHER                 -> value.data)

(* parse() also understands a document of another writer, with white space  *)
(* anywhere and escapes in its strings.                                     *)
JsonParsesWritten ==
  Carried(doc, {Backslash}, AsManyAsHeld) => Kindless(parse(Rewritten(doc))) = Kindless(doc)
==============================================================================
