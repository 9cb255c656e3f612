---------------------------- MODULE MongoIndexes ----------------------------
(***************************************************************************)
(* The indexes of a MongoDB database, as its users app/db/index_sync.py    *)
(* and migration 0010 know them: each has a name, the keys it is over and  *)
(* an option (expireAfterSeconds). The collection is part of both the name *)
(* and the keys. MongoDB keeps one index per name and one per keys.        *)
(***************************************************************************)
CONSTANTS
  IndexNames,
  IndexSpecs   \* what may be declared: records of keys and expireAfterSeconds

VARIABLE indexes   \* per name, the index MongoDB holds

NoSpec == [keys |-> "", expireAfterSeconds |-> 0]
MaybeIndexes == [IndexNames -> IndexSpecs \cup {NoSpec}]

ASSUME SpecsAreNotNoSpec == NoSpec \notin IndexSpecs

\* create_index raises OperationFailure if the name is taken by another index, or
\* the keys by an index of another name; an index that is there already is left.
CanCreate(name, spec) ==
  /\ indexes[name] \in {NoSpec, spec}
  /\ \A other \in IndexNames \ {name} : indexes[other].keys # spec.keys

WithIndex(name, spec) == [indexes EXCEPT ![name] = spec]

\* drop_index; that it may fail because there is none is suppressed.
WithoutIndex(name) == [indexes EXCEPT ![name] = NoSpec]

=============================================================================
