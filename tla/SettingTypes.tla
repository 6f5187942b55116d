---------------------------- MODULE SettingTypes ----------------------------
(* What a setting's value may be: strict coercion, bounds that a write must   *)
(* keep and that a read is clamped to (core/settings_registry.py).            *)
(*                                                                            *)
(* A JSON value is a record whose one field is its Python type: "false" is no *)
(* FALSE, TRUE is no 1, and 2.0 is no 2.  A declaration is a record [type,    *)
(* default, nullable, scopes], with a type of [name] and its parameters.      *)
EXTENDS Integers, Sequences, Functions

CONSTANT Numeric \* [texts -> Int]: the texts that are written decimal numbers

Null == [none |-> TRUE]
Has(json, py) == DOMAIN json = {py}

Bounded(type) == type.name \in {"int", "decimal"}

Shaped(type, json) ==
    CASE type.name = "bool"     -> Has(json, "bool")
      [] type.name = "int"      -> Has(json, "int")
      [] type.name = "decimal"  -> Has(json, "str") /\ json.str \in DOMAIN Numeric
      [] type.name = "string"   -> Has(json, "str") /\ Len(json.str) <= type.length
      [] type.name = "choice"   -> Has(json, "str") /\ json.str \in type.choices
      [] type.name = "str_list" -> /\ Has(json, "list") /\ IsInjective(json.list)
                                   /\ "" \notin Range(json.list)
                                   /\ Range(json.list) \subseteq type.choices

(* A decimal is a number in the program and a text in the row.               *)
Parse(type, json) == IF type.name = "decimal" THEN [int |-> Numeric[json.str]] ELSE json
ToJson(type, value) ==
    IF type.name = "decimal" /\ value # Null
    THEN [str |-> CHOOSE text \in DOMAIN Numeric : Numeric[text] = value.int] ELSE value

InBounds(type, value) == Bounded(type) => type.min <= value.int /\ value.int <= type.max
Clamp(type, value) ==
    IF ~Bounded(type) THEN value
    ELSE IF value.int < type.min THEN [int |-> type.min]
    ELSE IF value.int > type.max THEN [int |-> type.max] ELSE value

(* SettingDef.coerce(), for a write: refuses what is out of bounds.          *)
Coerces(def, json) ==
    IF json = Null THEN def.nullable
    ELSE Shaped(def.type, json) /\ InBounds(def.type, Parse(def.type, json))

(* SettingDef.read(), for a row: refuses only what has another shape.        *)
Readable(def, json) == IF json = Null THEN def.nullable ELSE Shaped(def.type, json)
ReadAs(def, json) == IF json = Null THEN Null ELSE Clamp(def.type, Parse(def.type, json))
=============================================================================
