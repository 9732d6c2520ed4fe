--------------------------- MODULE BufferedUpdates ---------------------------
(***************************************************************************)
(* The term deletes of org.apache.lucene.index.BufferedUpdates: a map from *)
(* a term to the document number up to which it deletes (docIDUpto).  A    *)
(* DWPT keeps one for its own segment (pendingUpdates), the delete queue   *)
(* one for everything flushed earlier (globalBufferedUpdates).             *)
(*                                                                         *)
(* The module has no state of its own; the components that own a           *)
(* BufferedUpdates keep its map in a variable and change it with these     *)
(* operators.                                                              *)
(***************************************************************************)
EXTENDS Integers

CONSTANT PutReplaces          \* how a map store was converted, see AddTerm

ASSUME PutReplacesAssumption == PutReplaces \in BOOLEAN

NoUpto == -1                  \* the map has no entry for the term
MAX_INT == 2147483647         \* BufferedUpdates::MAX_INT

EmptyUpdates(keys) == [k \in keys |-> NoUpto]

AnyUpdates(del) == \E k \in DOMAIN del : del[k] # NoUpto

\* The entry addTerm leaves for a term whose entry was current.  With
\* PutReplaces the final store is java.util.Map.put, which the call was
\* converted from.  Without it the store is what the C++ text says: the lookup
\* deleteTerms[term] has inserted a 0, and emplace never replaces an entry.
AddTerm(current, docIDUpto) ==
    IF current # NoUpto /\ docIDUpto < current
      THEN current
      ELSE IF PutReplaces THEN docIDUpto
           ELSE IF current = NoUpto THEN 0 ELSE current

\* DocumentsWriterDeleteQueue::DeleteSlice::apply for the terms in keys
AddTerms(del, keys, docIDUpto) ==
    [k \in DOMAIN del |->
        IF k \in keys THEN AddTerm(del[k], docIDUpto) ELSE del[k]]
==============================================================================
