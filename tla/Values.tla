------------------------------- MODULE Values -------------------------------
(***************************************************************************)
(* HTTP::Values (src/http/values.cpp), the container of headers, cookies   *)
(* and query parameters: under each name the values it was given, in the   *)
(* order in which they came.  A text is a sequence of bytes, 0 .. 255; a    *)
(* container is m_entries, a function from names to sequences of texts.    *)
(***************************************************************************)
EXTENDS Naturals, Sequences, SequencesExt, FiniteSets

IsSpace(c) == c \in (9 .. 13) \cup {32}

(* Without the white space at both ends.  What is left must have a first    *)
(* and another last byte: a text of one visible byte counts as blank.      *)
trim_space(token) ==
  LET visible == {i \in 1 .. Len(token) : ~IsSpace(token[i])}
      first   == CHOOSE i \in visible : \A j \in visible : i <= j
      last    == CHOOSE i \in visible : \A j \in visible : i >= j
  IN IF visible = {} \/ first = last THEN <<>> ELSE SubSeq(token, first, last)

Lower(c) == IF c \in 65 .. 90 THEN c + 32 ELSE c

reset_case(token) ==
  LET t == trim_space(token) IN [i \in 1 .. Len(t) |-> Lower(t[i])]

------------------------------------------------------------------------------
(* The operations, on the m_entries they are called on *)

NoEntries == <<>>       \* a function with an empty domain

has(m_entries, key) == reset_case(key) \in DOMAIN m_entries

get_all(m_entries, key) ==
  IF has(m_entries, key) THEN m_entries[reset_case(key)] ELSE <<>>

get(m_entries, key) ==
  IF has(m_entries, key) THEN Last(get_all(m_entries, key)) ELSE <<>>

(* m_entries[k] = values *)
Put(m_entries, k, values) ==
  [l \in DOMAIN m_entries \cup {k} |-> IF l = k THEN values ELSE m_entries[l]]

set(m_entries, key, value) ==
  LET k == reset_case(key)
  IN IF k = <<>> THEN m_entries ELSE Put(m_entries, k, <<value>>)

append(m_entries, key, value) ==
  LET k == reset_case(key)
  IN IF k = <<>> THEN m_entries ELSE Put(m_entries, k, Append(get_all(m_entries, key), value))

del(m_entries, key) ==
  [k \in DOMAIN m_entries \ {reset_case(key)} |-> m_entries[k]]

(* std::map keeps the names in the order of their bytes *)
Before(a, b) ==
  \E n \in 0 .. Len(a) :
    /\ n < Len(b) /\ SubSeq(a, 1, n) = SubSeq(b, 1, n)
    /\ n = Len(a) \/ a[n + 1] < b[n + 1]

(* Each name stands behind as many as come before it. *)
Names(m_entries) ==
  [n \in 1 .. Cardinality(DOMAIN m_entries) |->
     CHOOSE k \in DOMAIN m_entries :
       Cardinality({l \in DOMAIN m_entries : Before(l, k)}) = n - 1]

entries(m_entries) ==
  LET OfName(k) == [i \in 1 .. Len(m_entries[k]) |-> <<k, m_entries[k][i]>>]
      names == Names(m_entries)
  IN FlattenSeq([i \in 1 .. Len(names) |-> OfName(names[i])])
==============================================================================
