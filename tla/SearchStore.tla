---------------------------- MODULE SearchStore ----------------------------
(***************************************************************************)
(* The two stores behind SearchIndex (index.rs): the LanceDB table, which  *)
(* only appends and deletes by document, and the Tantivy index, which      *)
(* replaces by document.  Nothing makes a write to both atomic.            *)
(*                                                                         *)
(* A document is followed through its chunk_index = 0 row, the only chunk  *)
(* both stores know.  LanceDB and Tantivy themselves are outside the       *)
(* repository; one call is one atomic step that happens or fails.          *)
(***************************************************************************)
EXTENDS Naturals

CONSTANT Docs

VARIABLES
  vector,  \* doc -> number of chunk_index = 0 rows the Lance table has for it
  fts      \* docs with a Tantivy entry

store == <<vector, fts>>

StoreTypeOK == vector \in [Docs -> Nat] /\ fts \subseteq Docs

StoreInit == vector = [d \in Docs |-> 0] /\ fts = {}

\* VectorStore::ingest, ingest_batch: table.add appends, whatever is there.
VectorAdd(docs) ==
  /\ vector' = [d \in Docs |-> vector[d] + IF d \in docs THEN 1 ELSE 0]
  /\ UNCHANGED fts

\* FtsStore::add_document, add_documents: delete_term and add, one commit.
FtsAdd(docs) ==
  /\ fts' = fts \cup docs
  /\ UNCHANGED vector

\* VectorStore::delete_doc
VectorDelete(d) ==
  /\ vector' = [vector EXCEPT ![d] = 0]
  /\ UNCHANGED fts

\* Mutant: no commit.
FtsDeleteUncommitted(d) == d \in Docs /\ UNCHANGED store

\* FtsStore::delete_document
FtsDelete(d) ==
  /\ fts' = fts \ {d}
  /\ UNCHANGED vector
=============================================================================
