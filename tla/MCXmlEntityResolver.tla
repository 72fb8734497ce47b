------------------------ MODULE MCXmlEntityResolver ------------------------
(* Small instances of XmlEntityResolver. *)
EXTENDS XmlEntityResolver

CONSTANTS t1, t2, d1, u1

\* Documents refer to schemas by URL and relative to the referring schema;
\* external entities and local paths are refused.
MCReferences ==
    {[type |-> "SchemaImport", system_id |-> "url", base_uri |-> "slash"],
     [type |-> "SchemaInclude", system_id |-> "relative", base_uri |-> "slash"],
     [type |-> "ExternalEntity", system_id |-> "url", base_uri |-> "slash"],
     [type |-> "SchemaImport", system_id |-> "absolute", base_uri |-> "slash"]}
=============================================================================
