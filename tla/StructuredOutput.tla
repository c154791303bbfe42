--------------------------- MODULE StructuredOutput ---------------------------
(***************************************************************************)
(* Structured output: the call of pydantic_async, with what json_utils.py  *)
(* reads out of an answer and what profiles.py makes of the schema; the    *)
(* configuration gives the constants of ValidationLoop these definitions.  *)
(***************************************************************************)
EXTENDS ValidationLoop, JsonUtils, SchemaTransform

CONSTANT
    Values        \* JSON values to tell schemas apart by

(* Where each client puts the schema.  Google's tools are sent it as it is *)
(* when it has no end.                                                     *)
response_format(schema) == OpenAIJsonSchemaTransformer(schema)
output_config(schema) == AnthropicJsonSchemaTransformer(schema)
responseSchema(schema) == GoogleJsonSchemaTransformer(schema)
tool_schema(family, schema) ==
    IF family = "google" /\ ~Bottomless(schema) THEN GoogleJsonSchemaTransformer(schema) ELSE schema

schema_sent(c) ==
    LET schema == Schemas[c.schema]
    IN  CASE c.mode = "prompted" -> schema
          [] c.mode = "tool" -> tool_schema(c.family, schema)
          [] c.family = "openai" -> response_format(schema)
          [] c.family = "anthropic" -> output_config(schema)
          [] c.family = "google" -> responseSchema(schema)
          [] OTHER -> NoSchema
-----------------------------------------------------------------------------
(* The body of the loop: output_json, else extract_json.                   *)
Data(said) == OrElse(output_json(said.text, said.stop), extract_json(said.text, TRUE))

(* model_validate, as it is seen in a text: the type asks for the key "a"  *)
(* and knows others.                                                       *)
KeyOf(item) == SubSeq(item, 1, CHOOSE i \in DOMAIN item : item[i] = ":" /\ i > 2)
Key(k) == <<"quote", k, "quote", ":">>
model_validate(value) == value.kind = "object" /\ \E i \in DOMAIN value.items : KeyOf(value.items[i]) = Key("a")
-----------------------------------------------------------------------------
Unescaped(item) == SelectSeq(item, LAMBDA m : m # "escape")
Meant(said, i) == Unescaped(said.meant[i])
Cut(item) == IF item # <<>> /\ Last(item) = "quote" THEN SubSeq(item, 1, Len(item) - 1) ELSE item

(* Nothing is made up on the way from the answer to the caller, by repair  *)
(* or recovery or by taking another part of the text for the answer: the   *)
(* value returned has fields the model wrote, the first ones in their      *)
(* order, each with its own value, and only the last one may be cut short. *)
(* Of several objects, one a line, it is the first.  Of an answer that was *)
(* written to the end fields are lost only where the stop reason does not  *)
(* say so, or where output_json gave nothing: pydantic_async then reads    *)
(* the text once more and takes a part of it (base.py:1085), although      *)
(* json_utils.py:11-13 and types.py:341-349 keep that for cut answers.     *)
ResultSaid ==
    outcome.kind = "returned" =>
        LET items == outcome.value.items
            read == output_json(Said.text, Said.stop)
        IN  /\ Len(items) <= Len(Said.meant)
            /\ \A i \in DOMAIN items :
                  IF i = Len(items) THEN IsPrefix(Cut(Unescaped(items[i])), Meant(Said, i))
                  ELSE Unescaped(items[i]) = Meant(Said, i)
            /\ Said.whole /\ Len(items) < Len(Said.meant) => truncation_plausible(Said.stop) \/ read = Nothing

(* Of an object in an answer known to be finished, output_json gives all   *)
(* the fields or none (_truncation_plausible).  Brackets before the object *)
(* or a fence in one of its strings can make it another value, but none of *)
(* the type asked for.                                                     *)
WholeWhenFinished ==
    pc = "read" /\ Said.whole /\ ~truncation_plausible(Said.stop) =>
        LET value == output_json(Said.text, Said.stop)
        IN  value.kind = "object" => Len(value.items) \in {0, Len(Said.meant)}

(* The properties a schema names, where it is put together of others too.  *)
RECURSIVE Names(_, _)
Names(schema, defs) ==
    (IF Has(schema, "properties") THEN DOMAIN schema.properties ELSE {})
    \cup (IF Has(schema, "ref") THEN Names(defs[schema.ref], defs) ELSE {})
    \cup (IF Has(schema, "allOf") THEN UNION {Names(schema.allOf[i], defs) : i \in DOMAIN schema.allOf} ELSE {})

(* Has the object all its properties, the optional ones too, and besides   *)
(* them only what a dictionary may have?  "apart" asks it of each schema   *)
(* by itself and allows no entries.                                        *)
Full(how, schema, defs, value) ==
    LET names == Names(schema, defs)
        dictionary == Has(schema, "additionalProperties") /\ schema.additionalProperties # <<>>
    IN  CASE how = "fully" /\ (IsA(schema, "object") \/ Has(schema, "allOf")) ->
                 names \subseteq DOMAIN value.fields /\ (dictionary \/ DOMAIN value.fields = names)
          [] how = "apart" /\ IsA(schema, "object") ->
                 DOMAIN value.fields = IF Has(schema, "properties") THEN DOMAIN schema.properties ELSE {}
          [] OTHER -> TRUE

(* What a JSON schema says of a value: as it is written, loosely (bounds   *)
(* are not looked at), or only of those that are Full at every level.  A   *)
(* part of an object is Full when the object is.                           *)
Below(how) == IF how = "part" THEN "fully" ELSE how
Beside(how) == IF how = "fully" THEN "part" ELSE how

RECURSIVE Accepts(_, _, _, _)
Accepts(how, schema, defs, value) ==
    LET object == value.kind = "object"
        named  == IF Has(schema, "properties") THEN DOMAIN schema.properties ELSE {}
    IN  /\ Has(schema, "ref") => Accepts(how, defs[schema.ref], defs, value)
        /\ Has(schema, "type") => value.kind = schema.type
        /\ object => \A p \in named \cap DOMAIN value.fields :
                         Accepts(Below(how), schema.properties[p], defs, value.fields[p])
        /\ Has(schema, "required") /\ object => schema.required \subseteq DOMAIN value.fields
        /\ Has(schema, "additionalProperties") /\ object =>
               \A p \in DOMAIN value.fields \ named :
                  \E i \in DOMAIN schema.additionalProperties :
                     Accepts(Below(how), schema.additionalProperties[i], defs, value.fields[p])
        /\ Has(schema, "items") /\ value.kind = "array" =>
               \A i \in DOMAIN value.items : Accepts(Below(how), schema.items, defs, value.items[i])
        /\ Has(schema, "anyOf") => \E i \in DOMAIN schema.anyOf : Accepts(how, schema.anyOf[i], defs, value)
        /\ Has(schema, "allOf") => \A i \in DOMAIN schema.allOf : Accepts(Beside(how), schema.allOf[i], defs, value)
        /\ Has(schema, "const") => value.kind = "string" /\ value.text = schema.const
        /\ Has(schema, "enum") => value.kind = "string" /\ value.text \in schema.enum
        /\ Has(schema, "limit") /\ how # "loosely" /\ value.kind = "string" => value.text # "long"
        /\ object => Full(how, schema, defs, value)

(* The schema sent means what the type says, whatever dialect it is put    *)
(* in: a model that keeps to it says nothing the type forbids but by its   *)
(* bounds, and can say every value of the type that has all its            *)
(* properties, dictionaries with entries and objects of two types among    *)
(* them.  Strict mode says less than the type: it closes each object by    *)
(* itself (profiles.py:99-117, 165-183), so that a dictionary is empty and *)
(* an object put together of two that name different properties cannot be  *)
(* said at all; what is left is said.                                      *)
Strict == client.mode = "native" /\ client.family \in {"openai", "anthropic"}

SchemaFits ==
    pc = "sent" /\ answers = <<>> /\ request.schema # NoSchema =>
        LET Set(how, schema) == {v \in Values : Accepts(how, schema, Definitions(schema), v)}
            sent == Set("as written", request.schema)
        IN  /\ sent \subseteq Set("loosely", Schemas[client.schema])
            /\ Set(IF Strict THEN "apart" ELSE "fully", Schemas[client.schema]) \subseteq sent
=============================================================================
