-------------------------------- MODULE Schema --------------------------------
(***************************************************************************)
(* What spark_schema makes of a metric batch on its way from the agent to  *)
(* a consumer: how a point is encoded, and which batches decode_v1         *)
(* refuses.  The constructors assert that a metric is in the catalogue,    *)
(* which both sides share.  A batch is a set of points [key, o] with at    *)
(* most one of a key, and is measured in points, not in bytes.             *)
(***************************************************************************)
EXTENDS Integers, FiniteSets

CONSTANTS
  NaN,             \* a reading that is not a number
  NoValue,         \* value: null
  MaxPoints,       \* points that fit into MAX_SIGNAL_BYTES
  MaxAttributes,   \* MAX_ATTRIBUTES_PER_SIGNAL_ITEM
  AttributeNames,  \* ATTRIBUTE_CATALOGUE_V1
  LongValues       \* attribute values over MAX_ATTRIBUTE_VALUE_BYTES

\* serde_json has no number for NaN and writes null.
OnWire(o) == IF o.value = NaN THEN [o EXCEPT !.value = NoValue] ELSE o

\* attributes_valid
AttributesValid(a) ==
  /\ Cardinality(DOMAIN a) <= MaxAttributes
  /\ \A name \in DOMAIN a : name \in AttributeNames /\ a[name] \notin LongValues

\* decode_v1 on a batch: one bad point refuses them all.
Decodes(batch) ==
  /\ Cardinality(batch) <= MaxPoints
  /\ \A p \in batch : AttributesValid(p.key.attributes)
=============================================================================
