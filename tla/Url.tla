--------------------------------- MODULE Url ---------------------------------
(***************************************************************************)
(* The life of a URL object (src/http/url.cpp): it is parsed from a text,   *)
(* or put together from a request's target and Host header                 *)
(* (src/server/pipeline_h1_rx.cpp), and the program edits its search       *)
(* parameters (src/http/url_search_params.cpp, src/http/url_encode.cpp).   *)
(* Cookies (src/http/cookie.cpp) share the container and are here too, as   *)
(* are the credentials of a request (src/http/basic_auth.cpp).             *)
(***************************************************************************)
EXTENDS Values, Base64, FiniteSets

CONSTANTS
  Texts,      \* what URL() is called with
  Requests,   \* of a request: its target, and its Host and Authorization headers
  Keys,       \* names and ...
  Params,     \* ... values the program sets
  MaxParams   \* bound: values in the search parameters

ASSUME UrlAssumption ==
  /\ \A S \in {Texts, Keys, Params} : \A t \in S : t \in Seq(0 .. 255)
  /\ \A r \in Requests : r \in Seq(0 .. 255) \X Seq(0 .. 255) \X Seq(0 .. 255)
  /\ MaxParams \in Nat

VARIABLE url      \* the object, or Unborn

(* The bytes the parsers look for *)
Blank == 32
Hash == 35
Percent == 37
Amp == 38
Slash == 47
Colon == 58
Semicolon == 59
Equals == 61
Question == 63
At == 64

SchemeEnd == <<Colon, Slash, Slash>>

(* Where a byte first stands in a text, from position i on; past its end    *)
(* if it does not.                                                         *)
Find(s, c, i) ==
  LET places == {j \in i .. Len(s) : s[j] = c}
  IN IF places = {} THEN Len(s) + 1 ELSE Min(places)

Upto(s, i) == SubSeq(s, 1, i - 1)
From(s, i) == SubSeq(s, i, Len(s))

(* The places of a text in their order *)
Ordered(places) ==
  [n \in 1 .. Cardinality(places) |->
     CHOOSE i \in places : Cardinality({j \in places : j < i}) = n - 1]

(* The pieces of a text between separators that begin at `cuts` *)
Pieces(s, cuts, width) ==
  LET ends == Ordered(cuts \cup {Len(s) + 1})
  IN [n \in 1 .. Len(ends) |->
        SubSeq(s, IF n = 1 THEN 1 ELSE ends[n - 1] + width, ends[n] - 1)]

(* Texts with something between them; none of them is empty *)
Joined(texts, glue) ==
  FlattenSeq([n \in 1 .. Len(texts) |-> IF n = 1 THEN texts[n] ELSE glue \o texts[n]])

(* append() of pairs one after the other; one without a value is passed over *)
Collected(pairs) ==
  LET m_entries[n \in 0 .. Len(pairs)] ==
        IF n = 0 THEN NoEntries
        ELSE IF pairs[n][2] = <<>> THEN m_entries[n - 1]
        ELSE append(m_entries[n - 1], pairs[n][1], pairs[n][2])
  IN m_entries[Len(pairs)]

------------------------------------------------------------------------------
(* encode_uri_component, decode_uri_component.  The list of safe characters *)
(* is searched up to and including its closing NUL.                        *)

Digits == (48 .. 57) \cup (65 .. 90) \cup (97 .. 122)
SafeList == {0, 33, 36, 39, 40, 41, 42, 43, 45, 46, 95}

(* Mutant: the escape character itself is thought safe *)
rune_url_safe_percent(c) == c \in Digits \cup SafeList \cup {Percent}

rune_url_safe(c) == c \in Digits \cup SafeList

Hex(n) == IF n < 10 THEN 48 + n ELSE 55 + n

encode(text) ==
  FlattenSeq([i \in 1 .. Len(text) |->
    IF rune_url_safe(text[i]) THEN <<text[i]>>
    ELSE <<Percent, Hex(text[i] \div 16), Hex(text[i] % 16)>>])

HexValue(c) ==
  LET values == {n \in 0 .. 15 : c = Hex(n) \/ (n > 9 /\ c = Hex(n) + 32)}
  IN IF values = {} THEN 16 ELSE CHOOSE n \in values : TRUE

(* std::stoi(.., nullptr, 16) of the first two characters, as a byte: it    *)
(* skips white space, takes a sign, and stops at what is not a digit.      *)
Throws == 256
stoi16(text) ==
  LET a == IF Len(text) > 0 THEN HexValue(text[1]) ELSE 16
      b == IF Len(text) > 1 THEN HexValue(text[2]) ELSE 16
  IN IF a < 16 THEN (IF b < 16 THEN 16 * a + b ELSE a)
     ELSE IF b = 16 THEN Throws
     ELSE IF IsSpace(text[1]) \/ text[1] = 43 THEN b
     ELSE IF text[1] = 45 THEN (256 - b) % 256 ELSE Throws

(* An escape that cannot be read throws: Throws then stands for its byte.   *)
decode(text) ==
  LET AtIndex[i \in 1 .. Len(text) + 3] ==
        IF i > Len(text) THEN <<>>
        ELSE IF text[i] = Percent
        THEN <<stoi16(From(text, i + 1))>> \o AtIndex[i + 3]
        ELSE <<text[i]>> \o AtIndex[i + 1]
  IN AtIndex[1]

------------------------------------------------------------------------------
(* URLSearchParams.  A pair without a name or without a value is passed     *)
(* over; an escape in a pair that is taken and cannot be read throws.      *)

Pair(p) == <<Upto(p, Find(p, Equals, 1)), From(p, Find(p, Equals, 1) + 1)>>
NoPair == << <<>>, <<>> >>

PairsOf(params) ==
  LET pieces == Pieces(params, {i \in 1 .. Len(params) : params[i] = Amp}, 1)
      Decoded(pair) == IF pair[1] = <<>> \/ pair[2] = <<>> THEN NoPair
                       ELSE <<decode(pair[1]), decode(pair[2])>>
  IN [n \in 1 .. Len(pieces) |-> Decoded(Pair(pieces[n]))]

SearchThrows(params) ==
  \E n \in 1 .. Len(PairsOf(params)) : \E side \in {1, 2} :
    Contains(PairsOf(params)[n][side], Throws)

SearchOf(params) == Collected(PairsOf(params))

search_to_string(m_entries) ==
  LET all == entries(m_entries)
  IN Joined([i \in 1 .. Len(all) |-> encode(all[i][1]) \o <<Equals>> \o encode(all[i][2])],
            <<Amp>>)

------------------------------------------------------------------------------
(* URL *)

NoUser == <<>>

DefaultUrl == [scheme |-> <<>>, user |-> NoUser, host |-> <<>>, path |-> <<>>,
               search |-> NoEntries, fragment |-> <<>>]

(* The parts of what follows the host *)
Fragment(t) == From(t, Find(t, Hash, 1))
Plain(t) == Upto(t, Find(t, Hash, 1))
Query(t) == From(Plain(t), Find(Plain(t), Question, 1) + 1)
(* Mutant: the path runs on to the fragment *)
PathWithQuery(t) == Plain(t)

Path(t) == Upto(Plain(t), Find(Plain(t), Question, 1))

Credentials(token) ==
  LET split == Find(token, Colon, 1)
  IN IF Len(token) < 2 \/ split = 1 THEN NoUser
     ELSE <<Upto(token, split), From(token, split + 1)>>

Marks(text) == {i \in 1 .. Len(text) - 2 : SubSeq(text, i, i + 2) = SchemeEnd}

SchemeMark(text) ==
  IF Marks(text) = {} THEN 0 ELSE CHOOSE i \in Marks(text) : \A j \in Marks(text) : i <= j

Scheme(text) == IF SchemeMark(text) = 0 THEN <<>> ELSE reset_case(Upto(text, SchemeMark(text)))
Located(text) == IF SchemeMark(text) = 0 THEN text ELSE From(text, SchemeMark(text) + 3)
Authority(text) == Upto(Located(text), Find(Located(text), Slash, 1))
Rest(text) == From(Located(text), Find(Located(text), Slash, 1))

(* Behind credentials the host is cut with a length of zero. *)
Host(authority) ==
  IF Find(authority, At, 1) <= Len(authority) THEN <<>> ELSE reset_case(authority)

User(authority) ==
  LET at == Find(authority, At, 1)
  IN IF at <= Len(authority) THEN Credentials(Upto(authority, at)) ELSE NoUser

(* URL() throws when there is no path. *)
Parses(text) == Rest(text) # <<>> /\ ~SearchThrows(Query(Rest(text)))

UrlOf(text) ==
  [scheme |-> Scheme(text), user |-> User(Authority(text)), host |-> Host(Authority(text)),
   path |-> Path(Rest(text)), search |-> SearchOf(Query(Rest(text))),
   fragment |-> Fragment(Rest(text))]

UserToString(user) ==
  IF user = NoUser THEN <<>>
  ELSE IF user[1] = <<>> \/ user[2] = <<>> THEN <<>>
  ELSE encode(user[1]) \o <<Colon>> \o encode(user[2]) \o <<At>>

to_string(u) ==
  (IF u.host = <<>> THEN <<>> ELSE u.scheme \o SchemeEnd \o UserToString(u.user) \o u.host)
    \o u.path
    \o (IF u.search = NoEntries THEN <<>> ELSE <<Question>> \o search_to_string(u.search))
    \o u.fragment

(* href(): without credentials and fragment; throws for what is no address  *)
HrefThrows(u) == u.scheme = <<>> \/ u.host = <<>> \/ u.path = <<>>

(* Mutant: the parameters follow without a '?' *)
href_unmarked(u) == u.scheme \o SchemeEnd \o u.host \o u.path \o search_to_string(u.search)

href(u) ==
  u.scheme \o SchemeEnd \o u.host \o u.path
    \o (IF u.search = NoEntries THEN <<>> ELSE <<Question>> \o search_to_string(u.search))

(* The credentials of a request: "basic" in any case, blanks, and the user  *)
(* and the password with a colon between them in Base64                    *)
Basic == <<98, 97, 115, 105, 99>>

parse_basic_auth(header) ==
  LET gap == Find(header, Blank, 1)
      behind == {i \in gap .. Len(header) : header[i] # Blank}
      token_begin == Min(behind)
      scheme == [i \in 1 .. gap - 1 |-> Lower(header[i])]
      token == From(header, token_begin)
      pair == base64_decode(token)
      split == Find(pair, Colon, 1)
  IN IF behind = {} \/ scheme # Basic THEN NoUser
     ELSE IF ~valid(token) THEN NoUser
     ELSE IF split = 1 \/ split > Len(pair) THEN NoUser
     ELSE <<Upto(pair, split), From(pair, split + 1)>>

(* The url of a request: a target with a query loses its path. *)
TargetPath(target) ==
  IF Find(Plain(target), Question, 1) <= Len(Plain(target)) THEN <<>> ELSE Plain(target)

OrElse(text, default) == IF text = <<>> THEN default ELSE text

Http == <<104, 116, 116, 112>>
Localhost == <<108, 111, 99, 97, 108, 104, 111, 115, 116>>

RequestUrl(target, host, authorization) ==
  [scheme |-> Http, user |-> parse_basic_auth(authorization), host |-> OrElse(host, Localhost),
   path |-> OrElse(TargetPath(target), <<Slash>>), search |-> SearchOf(Query(target)),
   fragment |-> Fragment(target)]

------------------------------------------------------------------------------
(* Cookies: pairs are cut at "; ", except at the very end of the header,    *)
(* and the last one is taken with the header's last byte.                  *)

CookieCuts(header) ==
  {i \in 1 .. Len(header) - 2 : header[i] = Semicolon /\ header[i + 1] = Blank}

(* Mutant: the last pair is not taken *)
CookiePiecesCut(header) == Front(Pieces(header, CookieCuts(header), 2))

CookiePieces(header) == Pieces(header, CookieCuts(header), 2)

parse_cookie(header) ==
  LET pieces == CookiePieces(header)
  IN IF Len(header) < 2 THEN NoEntries
     ELSE Collected([n \in 1 .. Len(pieces) |-> Pair(pieces[n])])

------------------------------------------------------------------------------
(* Cookie::to_string: the pair, then each attribute behind a "; "; throws    *)
(* when the pair holds a semicolon                                         *)
SetCookieThrows(name, value) == Contains(name, Semicolon) \/ Contains(value, Semicolon)

set_cookie(name, value, attributes) ==
  name \o <<Equals>> \o value
    \o FlattenSeq([i \in 1 .. Len(attributes) |-> <<Semicolon, Blank>> \o attributes[i]])

------------------------------------------------------------------------------
(* The object's life: made once, then edited *)

Init == url = DefaultUrl

Parse ==
  /\ url = DefaultUrl
  /\ \E t \in Texts : Parses(t) /\ url' = UrlOf(t)

Receive(target, host, authorization) ==
  /\ url = DefaultUrl
  /\ ~SearchThrows(Query(target))
  /\ url' = RequestUrl(target, host, authorization)

HasRoom == Len(entries(url.search)) < MaxParams

Set(k, v) == (HasRoom \/ has(url.search, k)) /\ url' = [url EXCEPT !.search = set(@, k, v)]
Add(k, v) == HasRoom /\ url' = [url EXCEPT !.search = append(@, k, v)]
Del(k) == url' = [url EXCEPT !.search = del(@, k)]

Next ==
  \/ Parse
  \/ \E r \in Requests : Receive(r[1], r[2], r[3])
  \/ \E k \in Keys, v \in Params : Set(k, v) \/ Add(k, v)
  \/ \E k \in Keys : Del(k)

Spec == Init /\ [][Next]_url

------------------------------------------------------------------------------
(* Properties *)

(* A container without its empty values, which the parsers pass over *)
Full(values) ==
  FlattenSeq([i \in 1 .. Len(values) |-> IF values[i] = <<>> THEN <<>> ELSE <<values[i]>>])

Filled(m_entries) ==
  [k \in {k \in DOMAIN m_entries : Full(m_entries[k]) # <<>>} |-> Full(m_entries[k])]

(* What to_string() writes, the constructor reads back: the same names with *)
(* the same nonempty values in the same order, whatever bytes they hold.   *)
SearchReadsBack == SearchOf(search_to_string(url.search)) = Filled(url.search)

(* A client that is set the pairs as cookies, with any attribute, and sends *)
(* back what stands before the attributes is understood, as long as no name *)
(* holds a '=': to_string() and parse_cookie() fit.                         *)
Returned(name, value, attribute) ==
  LET text == set_cookie(name, value, <<attribute>>) IN Upto(text, Find(text, Semicolon, 1))

CookieHeader(m_entries, attribute) ==
  LET all == entries(m_entries)
  IN Joined([i \in 1 .. Len(all) |-> Returned(all[i][1], all[i][2], attribute)], <<Semicolon, Blank>>)

CookieSafe(m_entries) ==
  \A k \in DOMAIN m_entries :
    /\ ~Contains(k, Equals)
    /\ \A i \in 1 .. Len(m_entries[k]) : ~SetCookieThrows(k, m_entries[k][i])

CookiesReadBack ==
  CookieSafe(url.search) =>
    \A attribute \in Params :
      parse_cookie(CookieHeader(url.search, attribute)) = Filled(url.search)

(* A url that is written and parsed again is the same url, unless it has    *)
(* credentials, no host to stand behind its scheme, or a part that another  *)
(* part's separator would end.                                             *)
Writable(u) ==
  /\ u.user = NoUser
  /\ u.path # <<>> /\ u.path[1] = Slash
  /\ reset_case(u.host) = u.host /\ ~Contains(u.host, At) /\ ~Contains(u.host, Slash)
  /\ IF u.host # <<>> THEN TRUE
     ELSE u.scheme = <<>> /\ Marks(u.path \o u.fragment) = {}

Written(u) == [u EXCEPT !.search = Filled(@)]

UrlReadsBack == Writable(url) => Parses(to_string(url)) /\ UrlOf(to_string(url)) = Written(url)

(* The address of a url, as a redirect has it, leads to the same place with *)
(* the same parameters, without credentials and fragment.                   *)
HrefReadsBack ==
  Writable([url EXCEPT !.user = NoUser]) /\ ~HrefThrows(url) =>
    UrlOf(href(url)) = [Written(url) EXCEPT !.user = NoUser, !.fragment = <<>>]

(* The credentials of a url can be sent in an Authorization header and are  *)
(* the same on the other side, whatever bytes they hold.                   *)
BasicHeader(user) ==
  Basic \o <<Blank>> \o base64_encode(user[1] \o <<Colon>> \o user[2])

CredentialsReadBack ==
  url.user # NoUser => parse_basic_auth(BasicHeader(url.user)) = url.user

(* The path of a request's url is the path of its target ("lastly, get the  *)
(* path"), with or without a query.                                        *)
TargetKeepsPath ==
  [][\A r \in Requests :
       Receive(r[1], r[2], r[3]) => url'.path = OrElse(Path(r[1]), <<Slash>>)]_url
==============================================================================
