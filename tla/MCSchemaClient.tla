--------------------------- MODULE MCSchemaClient ---------------------------
(* What clients ask, for TLC; the options are MCSchemaDatasource's.        *)
EXTENDS SchemaClient, MCSchemaDatasource

\* One question with and without the refresh header, one that has no handler,
\* one whose response may be refused, and one that is not cached.
ClientRoutes ==
  Refreshing
  \cup {Ask(path, Context("stack1", Ann), {}) : path \in {"tables", "fullSchema", "columnValues"}}

MostEndpoints == Endpoints \ {"tables"}
=============================================================================
