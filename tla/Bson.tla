-------------------------------- MODULE Bson --------------------------------
(***************************************************************************)
(* Values and documents (bson.cpp).                                        *)
(*                                                                         *)
(* A document is a sequence of fields [k, v]. A value has a type t, a      *)
(* payload n (numbers as numbers, strings and regular expressions in their *)
(* byte order) and, when it is a document or an array, its fields f. The   *)
(* keys of an array's fields are meant to be "0", "1", ...                 *)
(***************************************************************************)
EXTENDS Integers, Sequences, FiniteSets

Scalar(t, n) == [t |-> t, n |-> n, f |-> <<>>]
Int32(n) == Scalar("int", n)
Int64(n) == Scalar("long", n)
Double(n) == Scalar("double", n)
String(n) == Scalar("string", n)
Regex(n) == Scalar("regex", n)
Null == Scalar("null", 0)
Missing == Scalar("missing", 0)
Document(fields) == [t |-> "document", n |-> 0, f |-> fields]

Field(k, v) == [k |-> k, v |-> v]
IndexNames == <<"0", "1", "2", "3", "4", "5", "6", "7">>
ArrayOf(values) == [t |-> "array", n |-> 0,
                    f |-> [i \in DOMAIN values |-> Field(IndexNames[i], values[i])]]

(* array_values: the elements, whatever their keys.                        *)
Elements(v) == [i \in DOMAIN v.f |-> v.f[i].v]

IsNumeric(v) == v.t \in {"int", "long", "double"}
IsContainer(v) == v.t \in {"document", "array"}

(* value_equal: numbers by value, everything else byte by byte. A regular  *)
(* expression equals nothing, not even itself.                             *)
ValueEqual(a, b) ==
  IF IsNumeric(a) /\ IsNumeric(b) THEN a.n = b.n ELSE a = b /\ a.t # "regex"

(* The fields of a name; path_get takes the first.                         *)
Positions(fields, key) == {i \in DOMAIN fields : fields[i].k = key}
First(S) == CHOOSE i \in S : \A j \in S : i <= j
=============================================================================
