------------------------------ MODULE CelToSql ------------------------------
(***************************************************************************)
(* The conversion of a CEL filter to an SQL predicate                      *)
(* (src/repositories/cel_to_sql) and what both mean on one row of alerts.  *)
(*                                                                         *)
(* A filter is the tree CelToAstConverter builds: comparisons of a field   *)
(* with a literal, membership, bare fields, has(), constants, negations    *)
(* and the two logical operators.  The texts that give no tree are the     *)
(* leaves Broken, Blank, Unsupported and Empty.  The fields are one of     *)
(* each kind of mapping: "severity" is a column with enumerated values,    *)
(* "status" the same over two columns (the user's choice before the        *)
(* provider's value), "assignee" a nullable text, "incident" the name of a *)
(* joined incident, "nowhere" a field that is not mapped.                  *)
(***************************************************************************)
EXTENDS Naturals, Sequences, FiniteSets

Null == "null"

\* AlertSeverity in its order; a stored severity or status is one of these.
Enum == <<"low", "info", "critical">>
EnumValues == {Enum[i] : i \in 1 .. Len(Enum)}
EnumFields == {"severity", "status"}
\* The columns behind each mapped field.
Mapping ==
    [severity |-> <<"severity">>, status |-> <<"chosen", "status">>,
     assignee |-> <<"assignee">>, incident |-> <<"incident">>]
Mapped == DOMAIN Mapping

get_property_metadata(f) ==
    [columns |-> Mapping[f], enum_values |-> IF f \in EnumFields THEN EnumValues ELSE {}]

--------------------------------------------------------------------------------
(* The tree of a filter *)

Cmp(f, op, v) == [node |-> "comparison", field |-> f, op |-> op, value |-> v]
In(f, vs) == [node |-> "in", field |-> f, values |-> vs]
Bare(f) == [node |-> "member", field |-> f]
Has(f) == [node |-> "has", field |-> f]
Const(v) == [node |-> "constant", value |-> v]
Not(e) == [node |-> "not", operand |-> e]
And(l, r) == [node |-> "and", left |-> l, right |-> r]
Or(l, r) == [node |-> "or", left |-> l, right |-> r]
True == Const("true")
False == Const("false")

Empty == [node |-> "empty"]
Blank == [node |-> "blank"]
Broken == [node |-> "broken"]
Unsupported == [node |-> "unsupported"]
None == [node |-> "none"]

Logical(e) == e.node \in {"and", "or"}

RECURSIVE Fields(_)
Fields(e) ==
    CASE Logical(e) -> Fields(e.left) \union Fields(e.right)
      [] e.node = "not" -> Fields(e.operand)
      [] e.node \in {"comparison", "in", "member", "has"} -> {e.field}
      [] OTHER -> {}

(* The fields the mapper resolves with throw_mapping_error; has() does not *)
RECURSIVE Resolved(_)
Resolved(e) ==
    CASE Logical(e) -> Resolved(e.left) \union Resolved(e.right)
      [] e.node = "not" -> Resolved(e.operand)
      [] e.node \in {"comparison", "in", "member"} -> {e.field}
      [] OTHER -> {}

RECURSIVE is_boolean_filter_node(_)
is_boolean_filter_node(e) ==
    CASE Logical(e) -> /\ is_boolean_filter_node(e.left)
                       /\ is_boolean_filter_node(e.right)
      [] e.node = "not" -> is_boolean_filter_node(e.operand)
      [] e.node = "constant" -> e.value \in {"true", "false"}
      [] OTHER -> e.node \in {"comparison", "in", "member", "has"}

--------------------------------------------------------------------------------
(* The properties mapper *)

(* The enum member a literal stands for, whatever its case *)
canonicalize_enum_value(v) == IF v = "Critical" THEN "critical" ELSE v

Index(v) == CHOOSE i \in 1 .. Len(Enum) : Enum[i] = v

(* enum_values[i:], counted from one *)
From(i) == {Enum[j] : j \in i .. Len(Enum)}

MutOrderNode(f, op, v) ==
    LET start == IF v \notin EnumValues THEN 1
                 ELSE Index(v) + IF op \in {"GT", "LT"} THEN 1 ELSE 0
    IN  CASE op = "LE" /\ start > Len(Enum) -> None
          [] op = "GT" /\ start > Len(Enum) -> False
          [] op \in {"LT", "LE"} -> Not(In(f, From(start)))
          [] OTHER -> In(f, From(start))

(* Order comparisons with an enumerated field become membership tests; a   *)
(* literal that is no member lies below all of them, everything is at most *)
(* the last member, and nothing is above it.                               *)
OrderNode(f, op, v) ==
    LET start == IF v \notin EnumValues THEN 1
                 ELSE Index(v) + IF op \in {"GT", "LE"} THEN 1 ELSE 0
    IN  CASE op = "LE" /\ start > Len(Enum) -> None
          [] op = "GT" /\ start > Len(Enum) -> False
          [] op \in {"LT", "LE"} -> Not(In(f, From(start)))
          [] OTHER -> In(f, From(start))

_modify_comparison_node_based_on_mapping(e) ==
    LET v == canonicalize_enum_value(e.value)
    IN  CASE e.field \notin EnumFields \/ e.op = "contains" -> e
          [] e.op \in {"GT", "GE", "LT", "LE"} -> OrderNode(e.field, e.op, v)
          [] OTHER -> Cmp(e.field, e.op, v)

(* !!property: set, and none of the values that are false for its type *)
_visit_member_access_node(f) ==
    And(And(Cmp(f, "NE", Null), Cmp(f, "NE", "0")), Cmp(f, "NE", ""))

RECURSIVE map_props_in_ast(_)
map_props_in_ast(e) ==
    CASE Logical(e) ->
           LET l == map_props_in_ast(e.left)
               r == map_props_in_ast(e.right)
           IN  IF l = None THEN r
               ELSE IF r = None THEN l
               ELSE [e EXCEPT !.left = l, !.right = r]
      [] e.node = "not" ->
           LET o == map_props_in_ast(e.operand)
           IN  Not(IF o = None THEN True ELSE o)
      [] e.node = "comparison" -> _modify_comparison_node_based_on_mapping(e)
      [] e.node = "in" /\ e.field \in EnumFields ->
           In(e.field, {canonicalize_enum_value(v) : v \in e.values})
      [] e.node = "member" -> _visit_member_access_node(e.field)
      [] OTHER -> e

(* The outcome of a conversion: "ok" or the code of the diagnostic.  The   *)
(* text " " is not empty, so it is parsed, and there is nothing to parse.  *)
convert_to_sql_str_v2(e) ==
    CASE e = Empty -> "ok"
      [] e \in {Broken, Blank} -> "SYNTAX_ERROR"
      [] e = Unsupported -> "UNSUPPORTED_EXPRESSION"
      [] ~ is_boolean_filter_node(e) -> "EXPECTED_BOOLEAN"
      [] Resolved(e) \subseteq Mapped -> "ok"
      [] OTHER -> "UNKNOWN_FIELD"

Filter(e) == IF e = Empty THEN None ELSE map_props_in_ast(e)

(* The preflight of an alert filter: whether it is declared valid *)
validate_alert_filter_cel(e) ==
    e \in {Empty, Blank} \/ convert_to_sql_str_v2(e) = "ok"

(* The preflight of a filter that celpy evaluates over an event *)
validate_event_filter_cel(e) ==
    \/ e \in {Empty, Blank}
    \/ e \notin {Broken, Unsupported} /\ is_boolean_filter_node(e)

--------------------------------------------------------------------------------
(* SQL on one row: TRUE, FALSE or unknown ("T", "F", "U") *)

(* COALESCE over the columns of the field *)
Column(row, f) ==
    LET columns == get_property_metadata(f).columns
    IN  IF row[Head(columns)] # Null THEN row[Head(columns)] ELSE row[columns[Len(columns)]]

Truth(b) == IF b THEN "T" ELSE "F"

_visit_in(x, vs) ==
    LET plain == vs \ {Null}
    IN  CASE Null \in vs /\ x = Null -> "T"
          [] plain = {} -> "F"
          [] x = Null -> "U"
          [] OTHER -> Truth(x \in plain)

_visit_comparison_node(x, op, v) ==
    CASE op = "EQ" /\ v = Null -> Truth(x = Null)
      [] op = "NE" /\ v = Null -> Truth(x # Null)
      [] op = "contains" -> Truth(x # Null /\ v \in {x, ""})
      [] x = Null -> "U"
      [] op = "EQ" -> Truth(x = v)
      [] op = "NE" -> Truth(x # v)

(* has(): the mapped column is looked up among the field names as one      *)
(* dotted word, which no field has, so that no row is selected.            *)
_visit_unary_has(f) == "F"

RECURSIVE _build_sql_filter(_, _)
_build_sql_filter(e, row) ==
    CASE Logical(e) ->
           LET s == {_build_sql_filter(e.left, row), _build_sql_filter(e.right, row)}
               strong == IF e.node = "and" THEN "F" ELSE "T"
           IN  IF strong \in s THEN strong
               ELSE IF "U" \in s THEN "U"
               ELSE IF e.node = "and" THEN "T" ELSE "F"
      [] e.node = "not" ->
           LET o == _build_sql_filter(e.operand, row)
           IN  IF o = "U" THEN "U" ELSE Truth(o = "F")
      [] e.node = "comparison" ->
           _visit_comparison_node(Column(row, e.field), e.op, e.value)
      [] e.node = "in" -> _visit_in(Column(row, e.field), e.values)
      [] e.node = "has" -> _visit_unary_has(e.field)
      [] e.node = "constant" -> Truth(e.value = "true")

(* The rows a filter selects; without a filter, every row *)
Selected(e, row) ==
    Filter(e) = None \/ _build_sql_filter(Filter(e), row) = "T"

--------------------------------------------------------------------------------
(* What a filter says, read off the expression itself *)

(* The place of a value in the order of the enumeration, in any case;      *)
(* zero for what is not in it.                                             *)
Rank(v) ==
    LET w == IF v = "Critical" THEN "critical" ELSE v
    IN  IF \E i \in 1 .. Len(Enum) : Enum[i] = w
        THEN CHOOSE i \in 1 .. Len(Enum) : Enum[i] = w ELSE 0

Same(f, x, v) ==
    \/ x = v
    \/ f \in EnumFields /\ Rank(x) > 0 /\ Rank(x) = Rank(v)

RECURSIVE Says(_, _)
Says(e, row) ==
    CASE e.node = "and" -> Says(e.left, row) /\ Says(e.right, row)
      [] e.node = "or" -> Says(e.left, row) \/ Says(e.right, row)
      [] e.node = "not" -> ~ Says(e.operand, row)
      [] e.node = "in" -> \E v \in e.values : Same(e.field, Column(row, e.field), v)
      [] e.node = "member" -> Column(row, e.field) \notin {Null, "", "0"}
      [] e.node = "has" -> e.field \in Mapped
      [] e.node \in {"constant", "empty"} -> e.node = "empty" \/ e.value = "true"
      [] e.node = "comparison" ->
           LET x == Column(row, e.field)
           IN  CASE e.op = "EQ" -> Same(e.field, x, e.value)
                 [] e.op = "NE" -> ~ Same(e.field, x, e.value)
                 [] e.op = "contains" -> x # Null /\ e.value \in {x, ""}
                 [] e.op = "LT" -> Rank(x) < Rank(e.value)
                 [] e.op = "LE" -> Rank(x) <= Rank(e.value)
                 [] e.op = "GT" -> Rank(x) > Rank(e.value)
                 [] e.op = "GE" -> Rank(x) >= Rank(e.value)

(* The fields a filter compares with a value; SQL answers unknown where    *)
(* such a field is not set.                                                *)
RECURSIVE Compared(_)
Compared(e) ==
    CASE Logical(e) -> Compared(e.left) \union Compared(e.right)
      [] e.node = "not" -> Compared(e.operand)
      [] e.node = "comparison" ->
           IF e.value = Null \/ e.op = "contains" THEN {} ELSE {e.field}
      [] e.node = "in" -> IF e.values = {Null} THEN {} ELSE {e.field}
      [] OTHER -> {}

(* A comparison that every value satisfies is dropped by the mapper; under *)
(* a disjunction the other operand remains alone.                          *)
RECURSIVE DropsAlternative(_)
DropsAlternative(e) ==
    CASE Logical(e) ->
           \/ DropsAlternative(e.left)
           \/ DropsAlternative(e.right)
           \/ /\ e.node = "or"
              /\ (map_props_in_ast(e.left) = None) # (map_props_in_ast(e.right) = None)
      [] e.node = "not" -> DropsAlternative(e.operand)
      [] OTHER -> FALSE

RECURSIVE AsksHas(_)
AsksHas(e) ==
    CASE Logical(e) -> AsksHas(e.left) \/ AsksHas(e.right)
      [] e.node = "not" -> AsksHas(e.operand)
      [] OTHER -> e.node = "has"
=============================================================================
