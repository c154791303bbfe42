---------------------------- MODULE SchemaTransform ----------------------------
(***************************************************************************)
(* The JSON schema transformers (profiles.py): what the providers with     *)
(* structured output of their own are sent for the schema of the type      *)
(* asked for.                                                              *)
(*                                                                         *)
(* A schema is a function of its keywords: "type", "properties" (a         *)
(* function of names), "required" and "enum" (sets), "const", "items",     *)
(* "additionalProperties" (<<>> for false, else <<schema>>), "anyOf" and   *)
(* "allOf" (sequences), "defs" (a function of names), "ref" (a name of     *)
(* it), the annotations "title", "default", "format" and "description"     *)
(* (a sequence), and "limit" for each of the keywords, from minLength to   *)
(* maxItems, that bound a value.  The order of the keys, which             *)
(* canonicalize makes the same, is not in a function.                      *)
(***************************************************************************)
EXTENDS SequencesExt

Has(node, key) == key \in DOMAIN node
IsA(node, type) == Has(node, "type") /\ node.type = type
Definitions(schema) == IF Has(schema, "defs") THEN schema.defs ELSE <<>>
Without(node, keys) == [k \in DOMAIN node \ keys |-> node[k]]

(* The keywords with schemas below them, by name or in a list, and "items" *)
(* with one.  Google's walk takes the definitions out first.                *)
Branches == {"properties", "additionalProperties", "anyOf", "allOf"}
-----------------------------------------------------------------------------
(* Strict mode.                                                            *)
_STRIPPED_KEYS == {"limit", "format", "default"}

RECURSIVE make_strict(_)
make_strict(node) ==
    LET object  == IsA(node, "object")
        written == (IF object THEN {"additionalProperties"} ELSE {})
                   \cup (IF object /\ Has(node, "properties") THEN {"required"} ELSE {})
    IN  [k \in (DOMAIN node \cup written) \ _STRIPPED_KEYS |->
            CASE k = "additionalProperties" /\ object -> <<>>
              [] k = "required" /\ k \in written -> DOMAIN node.properties
              [] k \in {"anyOf", "allOf", "defs"} \/ (k = "properties" /\ object) ->
                     [sub \in DOMAIN node[k] |-> make_strict(node[k][sub])]
              [] k = "items" /\ IsA(node, "array") -> make_strict(node.items)
              [] OTHER -> node[k]]

OpenAIJsonSchemaTransformer(schema) == make_strict(schema)
AnthropicJsonSchemaTransformer(schema) == make_strict(schema)
-----------------------------------------------------------------------------
(* Google's dialect has no references.                                     *)
RECURSIVE RefsOf(_)
RefsOf(node) ==
    (IF Has(node, "ref") THEN {node.ref} ELSE {})
    \cup UNION {UNION {RefsOf(node[k][i]) : i \in DOMAIN node[k]}
                   : k \in DOMAIN node \cap Branches}
    \cup (IF Has(node, "items") THEN RefsOf(node.items) ELSE {})

RECURSIVE Closed(_, _)
Closed(names, defs) ==
    LET more == names \cup UNION {RefsOf(defs[n]) : n \in names}
    IN  IF more = names THEN names ELSE Closed(more, defs)

(* A schema that refers to itself has no end of references to inline.      *)
Bottomless(schema) ==
    LET defs == Definitions(schema)
    IN  \E n \in Closed(RefsOf(Without(schema, {"defs"})), defs) : n \in Closed(RefsOf(defs[n]), defs)

(* The keys beside a reference are laid over what it refers to.            *)
Merge(node, defs) ==
    IF ~Has(node, "ref") THEN node
    ELSE LET def == defs[node.ref]
         IN  [k \in DOMAIN def \cup (DOMAIN node \ {"ref"}) |-> IF Has(node, k) THEN node[k] ELSE def[k]]

RECURSIVE resolve_refs(_, _)
resolve_refs(node, defs) ==
    IF Has(node, "ref") THEN resolve_refs(Merge(node, defs), defs)
    ELSE [k \in DOMAIN node |->
             CASE k \in Branches -> [sub \in DOMAIN node[k] |-> resolve_refs(node[k][sub], defs)]
               [] k = "items" -> resolve_refs(node.items, defs)
               [] OTHER -> node[k]]

Described(node) ==
    (IF Has(node, "description") THEN node.description ELSE <<>>)
    \o (IF Has(node, "format") THEN <<node.format>> ELSE <<>>)

RECURSIVE SlipNamesCleaned(_)        \* a slip: a map of names is cleaned as a schema is
SlipNamesCleaned(node) ==
    [k \in DOMAIN node \ {"title", "default", "format", "defs"} |->
        CASE k = "properties" -> SlipNamesCleaned(node.properties)
          [] k \in Branches \ {"properties"} -> [sub \in DOMAIN node[k] |-> SlipNamesCleaned(node[k][sub])]
          [] k = "items" -> SlipNamesCleaned(node.items)
          [] OTHER -> node[k]]

RECURSIVE clean(_)
clean(node) ==
    LET fixed  == IF Has(node, "const") THEN {"enum"} ELSE {}
        worded == IF Has(node, "format") THEN {"description"} ELSE {}
    IN  [k \in (DOMAIN node \cup fixed \cup worded) \ {"const", "title", "default", "format", "defs"} |->
            CASE k = "enum" /\ fixed # {} -> {node.const}
              [] k = "description" -> Described(node)
              [] k \in Branches -> [sub \in DOMAIN node[k] |-> clean(node[k][sub])]
              [] k = "items" -> clean(node.items)
              [] OTHER -> node[k]]

(* Only of a schema that is not Bottomless.                                *)
GoogleJsonSchemaTransformer(schema) ==
    clean(resolve_refs(Without(schema, {"defs"}), Definitions(schema)))
=============================================================================
