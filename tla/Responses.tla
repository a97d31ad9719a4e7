------------------------------- MODULE Responses -------------------------------
(* CommandResponse (src/src/types.py): the kind first, then what it carries. *)

Simple(message) == <<"SIMPLE_STRING", message>>
Bulk(value)     == <<"BULK_STRING", value>>
Integer(n)      == <<"INTEGER", n>>
Null            == <<"NULL">>
Array(values)   == <<"ARRAY", values>>
Error(code)     == <<"ERROR", code>>

=============================================================================
