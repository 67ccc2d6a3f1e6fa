------------------------------- MODULE Paths -------------------------------
(***************************************************************************)
(* Reading and writing a document along a path, and its stored form        *)
(* (bson.cpp, codec.cpp). What the code does by recursion on the path is a *)
(* function of the place on it. A document has one field of a name.        *)
(***************************************************************************)
EXTENDS Bson

CONSTANT MaxDepth  \* the deepest document that JSON_VALID takes: 32 in MariaDB

ASSUME PathsAssumption == MaxDepth \in Nat

(* path_get: along containers, from field to field.                        *)
Child(v, key) ==
  LET at == Positions(v.f, key)
  IN IF IsContainer(v) /\ at # {} THEN v.f[First(at)].v ELSE Missing
PathGet(fields, path) ==
  LET at[i \in 0..Len(path)] ==
        IF i = 0 THEN Document(fields) ELSE Child(at[i - 1], path[i])
  IN at[Len(path)]

(* set_in one level down: a container stays what it is, anything else in   *)
(* the way gives place to a document.                                      *)
Descend(old, rest) == IF IsContainer(old) THEN [old EXCEPT !.f = rest] ELSE Document(rest)

(* Mutant of PathSet: appended even where the field is there.              *)
SetAtEnd(fields, path, value) ==
  Append(fields, Field(path[1], IF Len(path) = 1 THEN value
                                ELSE Document(<<Field(path[2], value)>>)))

(* And another: the container on the way is made afresh.                   *)
SetAfresh(fields, path, value) ==
  LET new == Field(path[1], IF Len(path) = 1 THEN value
                            ELSE Document(<<Field(path[2], value)>>))
  IN IF Positions(fields, path[1]) = {} THEN Append(fields, new)
     ELSE [i \in DOMAIN fields |-> IF fields[i].k = path[1] THEN new ELSE fields[i]]

(* A field is set in place, or appended as the last.                       *)
SetField(fields, key, value) ==
  IF Positions(fields, key) = {} THEN Append(fields, Field(key, value))
  ELSE [i \in DOMAIN fields |->
          IF fields[i].k = key THEN Field(key, value) ELSE fields[i]]

(* set_in, from the end of the path back to the document.                  *)
PathSet(fields, path, value) ==
  LET new[i \in 1..Len(path)] ==  \* what the field of path[i] becomes
        LET old == PathGet(fields, SubSeq(path, 1, i))
        IN IF i = Len(path) THEN value
           ELSE Descend(old, SetField(old.f, path[i + 1], new[i + 1]))
  IN SetField(fields, path[1], new[1])

Without(fields, key) ==
  LET kept[i \in 0..Len(fields)] ==
        IF i = 0 THEN <<>>
        ELSE IF fields[i].k = key THEN kept[i - 1] ELSE Append(kept[i - 1], fields[i])
  IN kept[Len(fields)]

(* unset_in at place i of the path, given the container under it.          *)
UnsetField(fields, path, i, below) ==
  IF i = Len(path) THEN Without(fields, path[i])
  ELSE [j \in DOMAIN fields |->
          IF fields[j].k = path[i] /\ IsContainer(fields[j].v)
          THEN Field(path[i], [fields[j].v EXCEPT !.f = below]) ELSE fields[j]]
PathUnset(fields, path) ==
  LET below[i \in 1..Len(path)] ==  \* what is left in the container at path[i]
        UnsetField(PathGet(fields, SubSeq(path, 1, i)).f, path, i + 1, below[i + 1])
  IN UnsetField(fields, path, 1, below[1])

----------------------------------------------------------------------------
(* Stored form                                                             *)

(* Values with up to d containers inside one another. A type wrapper of    *)
(* canonical extended JSON is one more level of the text; the depth is     *)
(* counted in containers, so MaxDepth stands for a bound below the text's. *)
Scalars ==
  [t : {"int", "long", "double", "string", "regex", "bool", "null"}, n : Int, f : {<<>>}]
Nested[d \in 0..MaxDepth] ==
  IF d = 0 THEN Scalars
  ELSE Scalars \cup [t : {"document", "array"}, n : {0}, f : Seq([k : STRING, v : Nested[d - 1]])]

(* to_extjson and back: the text of an array has no keys, so its elements  *)
(* come back numbered from zero.                                           *)
StoredFields(v, stored) ==
  [i \in DOMAIN v.f |-> Field(IF v.t = "array" THEN IndexNames[i] ELSE v.f[i].k, stored[v.f[i].v])]
StoredAt[d \in 0..MaxDepth] ==
  [v \in Nested[d] |->
     IF IsContainer(v) THEN [v EXCEPT !.f = StoredFields(v, StoredAt[d - 1])] ELSE v]
StoredValue(v) == StoredAt[MaxDepth][v]
Stored(fields) == StoredValue(Document(fields)).f

(* The check that a column of type JSON has.                               *)
Storable(fields) == Document(fields) \in Nested[MaxDepth]
=============================================================================
