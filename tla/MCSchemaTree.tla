---------------------------- MODULE MCSchemaTree ----------------------------
(* An instance of the schema for TLC, of one field.                        *)
EXTENDS SchemaTree, TLC

CONSTANTS racks, blades, cages, sn1, kSn

OneKey == (sn1 :> kSn)
=============================================================================
