--------------------------- MODULE MCVectorStores ---------------------------
(* Instance of VectorStores for TLC. *)
EXTENDS VectorStores

\* The stores that differ in what is modelled
MCStores == {Faiss, Hnswlib, USearch, Chromadb, Milvus, Qdrant, Weaviate}
=============================================================================
