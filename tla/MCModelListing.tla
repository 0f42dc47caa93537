--------------------------- MODULE MCModelListing ---------------------------
(* The instance of ModelListing that TLC checks.                            *)
EXTENDS ModelListing

CONSTANTS chat, coder, ext, gold, free, alias

\* gold refers to two models, free to none: its check is not filtered.
RefsOfSubs == [s \in Subs |-> IF s = gold THEN {chat, ext} ELSE {}]

\* No data, no items, an item without an id, and a served model name.
SomeBodies == {[data |-> "null", ids |-> {}], [data |-> "list", ids |-> {}],
               [data |-> "list", ids |-> {NoId, alias}]}
=============================================================================
